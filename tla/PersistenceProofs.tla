--------------------------- MODULE PersistenceProofs ---------------------------
(***************************************************************************)
(* The backing file, whatever the batches, the files found and the moments *)
(* at which writes fail or the process stops: every variable keeps its     *)
(* type, a chunk that is not marked dirty is on disk as it is in memory, a *)
(* save that answers OK has saved every record, compaction keeps those of  *)
(* the file, and a boot shows the records of one save or refuses the file. *)
(*                                                                         *)
(* The last ones relate two lives of the process; their invariant is HInv, *)
(* over the history variables of MCPersistence.                            *)
(*                                                                         *)
(* The batches and files are read and written by loops, which the model    *)
(* has as recursive functions over 0 .. N.  What they compute is shown by  *)
(* induction, which rests on the well-foundedness of the naturals.         *)
(***************************************************************************)
EXTENDS MCPersistence, ChunkProofs, SequenceTheorems, FiniteSetTheorems, WellFoundedInduction

-----------------------------------------------------------------------------
(* Induction and recursion up to a bound *)

(* A set of numbers has a least one.                                         *)
LEMMA LeastNatural ==
  ASSUME NEW T, T \subseteq Nat, T # {}
  PROVE  \E m \in T : \A n \in T : m <= n
<1> DEFINE Less == {ss \in Nat \X Nat : ss[1] < ss[2]}
<1>1. IsWellFoundedOn(Less, Nat)
  <2>1. Less = OpToRel(<, Nat)
    BY DEF OpToRel
  <2> QED
    BY <2>1, NatLessThanWellFounded
<1>2. PICK m \in T : \A n \in T : <<n, m>> \notin Less
  <2> HIDE DEF Less
  <2> QED
    BY <1>1, WFMin
<1>3. \A n \in T : <<n, m>> \in Less <=> n < m
  BY DEF Less
<1> HIDE DEF Less
<1>4. \A n \in T : n \in Nat /\ m \in Nat /\ ~(n < m)
  BY <1>2, <1>3
<1>5. \A n \in T : m <= n
  BY <1>4
<1> QED
  BY <1>5

(* Induction, for a set of numbers up to N.                                   *)
LEMMA Reaches ==
  ASSUME NEW N \in Nat, NEW S, 0 \in S, \A n \in 1 .. N : n - 1 \in S => n \in S
  PROVE  0 .. N \subseteq S
<1> DEFINE T == {n \in 0 .. N : n \notin S}
<1>1. SUFFICES ASSUME T # {} PROVE FALSE
  OBVIOUS
<1>2. PICK m \in T : \A n \in T : m <= n
  <2>1. T \subseteq Nat
    OBVIOUS
  <2> HIDE DEF T
  <2> QED
    BY <1>1, <2>1, LeastNatural
<1>3. m \in 1 .. N /\ m - 1 \in 0 .. N
  BY <1>2
<1>4. m - 1 \in S
  BY <1>2, <1>3
<1> QED
  BY <1>2, <1>3, <1>4

StepsOn(S, N) == [(1 .. N) \X S -> S]

Follows(f, N, base, step) ==
  \A n \in 0 .. N : f[n] = IF n = 0 THEN base ELSE step[<<n, f[n - 1]>>]

(* A function defined by recursion up to N exists, and has values in S.       *)
LEMMA Recursion ==
  ASSUME NEW N \in Nat, NEW S, NEW base \in S, NEW step \in StepsOn(S, N)
  PROVE  \E f \in [0 .. N -> S] : Follows(f, N, base, step)
<1>0. step \in [(1 .. N) \X S -> S]
  BY DEF StepsOn
<1> DEFINE Good(k, f) == \A n \in 0 .. k : f[n] = IF n = 0 THEN base ELSE step[<<n, f[n - 1]>>]
           T == {k \in 0 .. N : \E f \in [0 .. k -> S] : Good(k, f)}
<1>1. 0 \in T
  <2> DEFINE f == [n \in 0 .. 0 |-> base]
  <2>1. f \in [0 .. 0 -> S] /\ Good(0, f)
    OBVIOUS
  <2>2. 0 \in 0 .. N
    OBVIOUS
  <2> QED
    BY ONLY <2>1, <2>2 DEF T
<1>2. ASSUME NEW k \in 1 .. N, k - 1 \in T
      PROVE  k \in T
  <2>1. PICK f \in [0 .. k - 1 -> S] : Good(k - 1, f)
    BY <1>2
  <2> DEFINE g == [n \in 0 .. k |-> IF n = k THEN step[<<k, f[k - 1]>>] ELSE f[n]]
  <2>2. k - 1 \in 0 .. k - 1 /\ f[k - 1] \in S /\ step[<<k, f[k - 1]>>] \in S
    BY <1>0
  <2>3. g \in [0 .. k -> S]
    BY <2>2
  <2>4. \A n \in 0 .. k - 1 : g[n] = f[n]
    OBVIOUS
  <2>5. \A n \in 0 .. k : g[n] = IF n = 0 THEN base ELSE step[<<n, g[n - 1]>>]
    <3>1. k \in Nat /\ k # 0 /\ g[k] = step[<<k, f[k - 1]>>] /\ g[k - 1] = f[k - 1]
      BY <2>2, <2>4
    <3>2. \A n \in 0 .. k - 1 : f[n] = IF n = 0 THEN base ELSE step[<<n, f[n - 1]>>]
      BY <2>1
    <3>3. \A n \in 0 .. k : n # k => n \in 0 .. k - 1 /\ (n # 0 => n - 1 \in 0 .. k - 1)
      OBVIOUS
    <3> HIDE DEF g
    <3>4. ASSUME NEW n \in 0 .. k, n # k
          PROVE  g[n] = IF n = 0 THEN base ELSE step[<<n, g[n - 1]>>]
      <4>1. n \in 0 .. k - 1 /\ g[n] = f[n]
        BY <2>4, <3>3, <3>4
      <4>2. f[n] = IF n = 0 THEN base ELSE step[<<n, f[n - 1]>>]
        BY <3>2, <4>1
      <4>3. CASE n = 0
        BY <4>1, <4>2, <4>3
      <4>4. CASE n # 0
        <5>1. g[n - 1] = f[n - 1]
          BY <2>4, <3>3, <3>4, <4>4
        <5> QED
          BY <4>1, <4>2, <4>4, <5>1
      <4> QED
        BY <4>3, <4>4
    <3> QED
      BY <3>1, <3>4
  <2>6. Good(k, g)
    <3> HIDE DEF g
    <3> QED
      BY <2>3, <2>5
  <2>7. k \in 0 .. N
    OBVIOUS
  <2> HIDE DEF g, Good
  <2> QED
    BY <2>3, <2>6, <2>7
<1>3. N \in T
  <2> HIDE DEF T
  <2> QED
    BY <1>1, <1>2, Reaches
<1> QED
  BY <1>3 DEF Follows

(* The least chunk of a set that is not empty.                               *)
LEMMA MinIsLeast ==
  ASSUME NEW S, S \subseteq Nat, S # {}
  PROVE  Min(S) \in S /\ \A n \in S : Min(S) <= n
BY LeastNatural DEF Min

-----------------------------------------------------------------------------
(* The loops over records *)

FileRecord == SlotRecord \cup {ZeroRecord}

Unburied == {record \in FileRecord : record.id # TombstoneId}

(* The records of a section are looked at one after the other.               *)
LEMMA LiveOfSectionUnfolds ==
  ASSUME NEW section \in Section, section.records # NoRecords
  PROVE  \E live \in [0 .. section.header.used_slots -> Seq(Unburied)] :
           /\ live[0] = <<>>
           /\ \A n \in 1 .. section.header.used_slots :
                live[n] = IF section.records[n - 1].id = TombstoneId THEN live[n - 1]
                          ELSE Append(live[n - 1], section.records[n - 1])
           /\ LiveOfSection(section) = live[section.header.used_slots]
<1> DEFINE N == section.header.used_slots
           S == Seq(Unburied)
           step == [x \in (1 .. N) \X S |->
                     IF section.records[x[1] - 1].id = TombstoneId THEN x[2]
                     ELSE Append(x[2], section.records[x[1] - 1])]
           live == CHOOSE live : live = [n \in 0 .. N |->
                     IF n = 0 THEN <<>>
                     ELSE IF section.records[n - 1].id = TombstoneId THEN live[n - 1]
                     ELSE Append(live[n - 1], section.records[n - 1])]
<1>1. N \in 0 .. ChunkCapacity /\ section.records \in [Slots -> FileRecord]
  BY DEF Section, FileHeader, FileRecord
<1>2. N \in Nat /\ \A n \in 1 .. N : n - 1 \in Slots
  BY <1>1, CapacityAssumption DEF Slots
<1>3. step \in StepsOn(S, N) /\ <<>> \in S
  BY <1>1, <1>2 DEF StepsOn, Unburied
<1> HIDE DEF live
<1>4. PICK f \in [0 .. N -> S] : \A n \in 0 .. N : f[n] = IF n = 0 THEN <<>> ELSE step[<<n, f[n - 1]>>]
  <2> DEFINE base == <<>>
  <2>1. N \in Nat /\ base \in S /\ step \in StepsOn(S, N)
    BY <1>2, <1>3
  <2> HIDE DEF step, S, N, base
  <2>2. \E f \in [0 .. N -> S] : Follows(f, N, base, step)
    BY ONLY <2>1, Recursion
  <2> QED
    BY <2>2 DEF base, Follows
<1> DEFINE Is(g) == g = [n \in 0 .. N |->
                     IF n = 0 THEN <<>>
                     ELSE IF section.records[n - 1].id = TombstoneId THEN g[n - 1]
                     ELSE Append(g[n - 1], section.records[n - 1])]
<1>5. Is(f)
  <2>1. ASSUME NEW n \in 0 .. N
        PROVE  f[n] = IF n = 0 THEN <<>>
                      ELSE IF section.records[n - 1].id = TombstoneId THEN f[n - 1]
                      ELSE Append(f[n - 1], section.records[n - 1])
    <3>1. n # 0 => n \in 1 .. N /\ f[n - 1] \in S
      BY <1>2
    <3> QED
      BY <1>4, <3>1
  <2> QED
    BY <2>1
<1>6. Is(live)
  <2>1. live = CHOOSE g : Is(g)
    BY DEF live
  <2> QED
    BY ONLY <1>5, <2>1
<1>7. \A n \in 0 .. N : live[n] = IF n = 0 THEN <<>>
                                   ELSE IF section.records[n - 1].id = TombstoneId THEN live[n - 1]
                                   ELSE Append(live[n - 1], section.records[n - 1])
  BY ONLY <1>6
<1>8. \A n \in 0 .. N : live[n] \in S
  <2> HIDE DEF Is, step
  <2> DEFINE T == {n \in 0 .. N : live[n] \in S}
  <2>1. live[0] = <<>>
    BY <1>2, <1>7
  <2>2. ASSUME NEW n \in 1 .. N, live[n - 1] \in S
        PROVE  live[n] \in S
    <3>1. live[n] = IF section.records[n - 1].id = TombstoneId THEN live[n - 1]
                    ELSE Append(live[n - 1], section.records[n - 1])
      BY <1>2, <1>7
    <3>2. section.records[n - 1] \in FileRecord
      BY <1>1, <1>2
    <3> QED
      BY <2>2, <3>1, <3>2, AppendProperties DEF Unburied
  <2>3. 0 \in T
    BY <1>2, <1>3, <2>1
  <2>4. ASSUME NEW n \in 1 .. N, n - 1 \in T
        PROVE  n \in T
    BY <1>2, <2>2, <2>4
  <2> HIDE DEF T
  <2>5. 0 .. N \subseteq T
    BY <1>2, <2>3, <2>4, Reaches
  <2> QED
    BY <2>5 DEF T
<1>9. LiveOfSection(section) = live[N]
  BY DEF LiveOfSection, live
<1>10. live = [n \in 0 .. N |-> live[n]]
  BY ONLY <1>6
<1> HIDE DEF Is, step
<1>11. live \in [0 .. N -> S]
  BY <1>8, <1>10
<1>12. live[0] = <<>> /\ \A n \in 1 .. N : live[n] = IF section.records[n - 1].id = TombstoneId THEN live[n - 1]
                                                     ELSE Append(live[n - 1], section.records[n - 1])
  BY <1>2, <1>7
<1> QED
  BY <1>9, <1>11, <1>12

(* The live records of a section are records that are not buried.            *)
LEMMA LiveOfSectionTyped ==
  ASSUME NEW section \in Section, section.records # NoRecords
  PROVE  LiveOfSection(section) \in Seq(Unburied)
<1> DEFINE N == section.header.used_slots
<1>1. N \in Nat
  BY CapacityAssumption DEF Section, FileHeader
<1>2. PICK live \in [0 .. N -> Seq(Unburied)] : LiveOfSection(section) = live[N]
  BY LiveOfSectionUnfolds
<1> QED
  BY <1>1, <1>2

(* And the sections of a file, too.                                          *)
LEMMA LiveRecordsUnfolds ==
  ASSUME NEW file, IsFile(file), file.superblock \in FileSuperblock,
         \A c \in SectionIds(file) : ReadableSection(file, c)
  PROVE  \E found \in [0 .. file.superblock.chunk_count -> Seq(Unburied)] :
           /\ found[0] = <<>>
           /\ \A n \in 1 .. file.superblock.chunk_count :
                found[n] = found[n - 1] \o LiveOfSection(file.sections[n - 1])
           /\ LiveRecords(file) = found[file.superblock.chunk_count]
<1> DEFINE N == file.superblock.chunk_count
           S == Seq(Unburied)
           none == <<>>
           part(n) == LiveOfSection(file.sections[n - 1])
           step == [x \in (1 .. N) \X S |-> x[2] \o part(x[1])]
           Is(g) == g = [n \in 0 .. N |-> IF n = 0 THEN none ELSE g[n - 1] \o part(n)]
           found == CHOOSE g : Is(g)
<1>1. N \in Nat
  BY DEF FileSuperblock
<1>2. \A n \in 1 .. N : part(n) \in S
  <2> SUFFICES ASSUME NEW n \in 1 .. N PROVE part(n) \in S
    OBVIOUS
  <2>1. n - 1 \in SectionIds(file)
    BY <1>1 DEF SectionIds
  <2>2. file.sections[n - 1] \in Section /\ file.sections[n - 1].records # NoRecords
    BY <2>1 DEF ReadableSection, IsFile
  <2> QED
    BY <2>2, LiveOfSectionTyped
<1> HIDE DEF part
<1>3. step \in StepsOn(S, N) /\ none \in S
  BY <1>1, <1>2, ConcatProperties DEF StepsOn
<1> HIDE DEF none, S, N
<1>4. PICK f \in [0 .. N -> S] : Follows(f, N, none, step)
  <2> HIDE DEF step, found, Is
  <2> QED
    BY ONLY <1>1, <1>3, Recursion
<1>5. Is(f)
  <2>1. ASSUME NEW n \in 0 .. N
        PROVE  f[n] = IF n = 0 THEN none ELSE f[n - 1] \o part(n)
    <3>1. n # 0 => n \in 1 .. N /\ f[n - 1] \in S
      BY <1>1
    <3> QED
      BY <1>4, <3>1 DEF Follows
  <2> QED
    BY <2>1
<1>6. Is(found)
  BY ONLY <1>5
<1> HIDE DEF found
<1>7. \A n \in 0 .. N : found[n] = IF n = 0 THEN none ELSE found[n - 1] \o part(n)
  BY ONLY <1>6
<1> DEFINE T == {n \in 0 .. N : found[n] \in S}
<1>8. 0 \in T
  BY <1>1, <1>3, <1>7
<1>9. ASSUME NEW n \in 1 .. N, n - 1 \in T
      PROVE  n \in T
  <2>1. n \in 0 .. N /\ n # 0
    BY <1>1
  <2>2. found[n] = found[n - 1] \o part(n)
    BY <1>7, <2>1
  <2>3. found[n - 1] \in S /\ part(n) \in S
    BY <1>2, <1>9
  <2>4. found[n] \in S
    BY <2>2, <2>3, ConcatProperties DEF S
  <2> QED
    BY <2>1, <2>4
<1>10. 0 .. N \subseteq T
  <2> HIDE DEF T
  <2> QED
    BY <1>1, <1>8, <1>9, Reaches
<1>11. LiveRecords(file) = found[N]
  BY DEF LiveRecords, found, Is, N, none, part
<1>12. found = [n \in 0 .. N |-> found[n]]
  BY ONLY <1>6
<1> HIDE DEF Is, step
<1>13. found \in [0 .. N -> S]
  BY <1>10, <1>12
<1>14. found[0] = none /\ \A n \in 1 .. N : found[n] = found[n - 1] \o part(n)
  <2>1. found[0] = none
    BY <1>1, <1>7
  <2>2. ASSUME NEW n \in 1 .. N
        PROVE  found[n] = found[n - 1] \o part(n)
    <3>1. n \in 0 .. N /\ n # 0
      BY <1>1
    <3> QED
      BY <1>7, <3>1
  <2> QED
    BY <2>1, <2>2
<1> QED
  BY <1>11, <1>13, <1>14 DEF S, N, none, part

(* So are those of a file.                                                   *)
LEMMA LiveRecordsTyped ==
  ASSUME NEW file, IsFile(file), file.superblock \in FileSuperblock,
         \A c \in SectionIds(file) : ReadableSection(file, c)
  PROVE  LiveRecords(file) \in Seq(Unburied)
<1> DEFINE N == file.superblock.chunk_count
<1>1. N \in Nat
  BY DEF FileSuperblock
<1>2. PICK found \in [0 .. N -> Seq(Unburied)] : LiveRecords(file) = found[N]
  BY LiveRecordsUnfolds
<1> QED
  BY <1>1, <1>2

(* What holds of a manager and is kept by the insertion of any one record    *)
(* holds after the insertion of a batch.                                     *)
LEMMA AppendedStays ==
  ASSUME NEW batch \in Seq(Record), NEW S, NEW manager \in S,
         \A m \in S : \A record \in Record : AppendToTail(PrepareInsertTail(m), record) \in S
  PROVE  Appended(manager, batch) \in S
<1> DEFINE N == Len(batch)
           Put(m, n) == AppendToTail(PrepareInsertTail(m), batch[n])
           step == [x \in (1 .. N) \X S |-> Put(x[2], x[1])]
           Is(g) == g = [n \in 0 .. N |-> IF n = 0 THEN manager ELSE Put(g[n - 1], n)]
           after == CHOOSE g : Is(g)
<1>1. N \in Nat /\ \A n \in 1 .. N : batch[n] \in Record
  OBVIOUS
<1>2. \A n \in 1 .. N : \A m \in S : Put(m, n) \in S
  BY <1>1
<1> HIDE DEF Put
<1>3. step \in StepsOn(S, N)
  BY <1>2 DEF StepsOn
<1> HIDE DEF N
<1>4. PICK f \in [0 .. N -> S] : Follows(f, N, manager, step)
  <2> HIDE DEF step, after, Is
  <2> QED
    BY ONLY <1>1, <1>3, manager \in S, Recursion
<1>5. Is(f)
  <2>1. ASSUME NEW n \in 0 .. N
        PROVE  f[n] = IF n = 0 THEN manager ELSE Put(f[n - 1], n)
    <3>1. n # 0 => n \in 1 .. N /\ f[n - 1] \in S
      BY <1>1
    <3> QED
      BY <1>4, <3>1 DEF Follows
  <2> QED
    BY <2>1
<1>6. Is(after)
  BY ONLY <1>5
<1> HIDE DEF after
<1>7. \A n \in 0 .. N : after[n] = IF n = 0 THEN manager ELSE Put(after[n - 1], n)
  BY ONLY <1>6
<1> DEFINE T == {n \in 0 .. N : after[n] \in S}
<1>8. 0 \in T
  BY <1>1, <1>7
<1>9. ASSUME NEW n \in 1 .. N, n - 1 \in T
      PROVE  n \in T
  <2>1. after[n] = Put(after[n - 1], n)
    BY <1>1, <1>7
  <2> QED
    BY <1>1, <1>2, <1>9, <2>1
<1>10. after[N] \in S
  <2> HIDE DEF T
  <2>1. 0 .. N \subseteq T
    BY <1>1, <1>8, <1>9, Reaches
  <2> QED
    BY <1>1, <2>1 DEF T
<1>11. Appended(manager, batch) = after[N]
  BY DEF Appended, after, Is, N, Put
<1> QED
  BY <1>10, <1>11

-----------------------------------------------------------------------------
(* Managers *)

Managers ==
  UNION {[chunks           : [0 .. n - 1 -> Chunk],
          chunk_count      : {n},
          total_used_slots : Nat,
          total_tombstones : Nat] : n \in Nat}

(* The set Managers is the predicate IsChunkManager.                         *)
LEMMA ManagersMeaning ==
  ASSUME NEW manager
  PROVE  manager \in Managers <=> IsChunkManager(manager)
BY DEF Managers, IsChunkManager

(* A chunk that a call leaves clean is one it found and did not touch.       *)
CleanUntouched(new, old) ==
  \A c \in ChunkIds(new) :
    ~new.chunks[c].dirty => c \in ChunkIds(old) /\ new.chunks[c] = old.chunks[c]

(* What two calls leave clean is what it was before both.                    *)
LEMMA CleanUntouchedTransitive ==
  ASSUME NEW a, NEW b, NEW c, CleanUntouched(b, a), CleanUntouched(c, b)
  PROVE  CleanUntouched(c, a)
BY DEF CleanUntouched

(* A dirty chunk in the place of another.                                    *)
LEMMA WithChunkTouches ==
  ASSUME NEW manager, IsChunkManager(manager), NEW c \in ChunkIds(manager), NEW chunk \in Chunk,
         chunk.dirty
  PROVE  CleanUntouched(WithChunk(manager, c, chunk), manager)
<1> DEFINE new == WithChunk(manager, c, chunk)
<1>1. /\ new.chunk_count = manager.chunk_count
      /\ new.chunks[c] = chunk
      /\ \A k \in ChunkIds(manager) \ {c} : new.chunks[k] = manager.chunks[k]
  BY WithChunkTyped
<1> HIDE DEF new
<1>2. CleanUntouched(new, manager)
  BY <1>1 DEF CleanUntouched, ChunkIds
<1> QED
  BY <1>2 DEF new

(* A new tail is dirty, and so is a tail that a record was appended to.      *)
LEMMA AppendTouches ==
  ASSUME NEW manager, IsChunkManager(manager), NEW record \in Record
  PROVE  LET new == AppendToTail(PrepareInsertTail(manager), record) IN
         IsChunkManager(new) /\ CleanUntouched(new, manager)
<1> DEFINE mid == PrepareInsertTail(manager)
           new == AppendToTail(mid, record)
<1>1. IsChunkManager(mid) /\ ~NeedsTailChunk(mid)
  BY PrepareInsertTailExtends
<1>2. CleanUntouched(mid, manager)
  <2>1. CASE ~NeedsTailChunk(manager)
    BY <2>1 DEF PrepareInsertTail, CleanUntouched
  <2>2. CASE NeedsTailChunk(manager)
    <3>1. manager.chunk_count \in Nat
      BY DEF IsChunkManager
    <3>2. manager \in [chunks           : [0 .. manager.chunk_count - 1 -> Chunk],
                       chunk_count      : Nat,
                       total_used_slots : Nat,
                       total_tombstones : Nat]
      BY DEF IsChunkManager
    <3>3. /\ mid.chunk_count = manager.chunk_count + 1
          /\ \A c \in ChunkIds(manager) : mid.chunks[c] = manager.chunks[c]
          /\ mid.chunks[manager.chunk_count] = EmptyChunk
      BY <2>2, <3>1, <3>2 DEF PrepareInsertTail, CreateEmptyTailChunk, ChunkIds
    <3>4. EmptyChunk.dirty
      BY DEF EmptyChunk
    <3> HIDE DEF mid
    <3> QED
      BY <3>1, <3>3, <3>4 DEF CleanUntouched, ChunkIds
  <2> QED
    BY <2>1, <2>2
<1> HIDE DEF mid
<1>3. IsChunkManager(new)
  BY <1>1, AppendToTailExtends
<1>4. CleanUntouched(new, mid)
  <2> DEFINE tail == mid.chunk_count - 1
             chunk == [mid.chunks[tail] EXCEPT
                        !.records[mid.chunks[tail].used_slots] = record,
                        !.used_slots = @ + 1,
                        !.dirty = TRUE]
             put == WithChunk(mid, tail, chunk)
  <2>1. mid.chunk_count \in Nat /\ mid.chunk_count > 0
        /\ mid.chunks[tail].used_slots < ChunkCapacity
    <3>1. mid.chunk_count \in Nat
      BY <1>1 DEF IsChunkManager
    <3>2. mid.chunk_count > 0 /\ ~(mid.chunks[tail].used_slots >= ChunkCapacity)
      BY <1>1, <3>1 DEF NeedsTailChunk, LastChunk
    <3>3. tail \in ChunkIds(mid)
      BY <3>1, <3>2 DEF ChunkIds
    <3>4. mid.chunks[tail].used_slots \in Nat
      BY <1>1, <3>3, ChunkTyped
    <3> QED
      BY <3>1, <3>2, <3>4, CapacityAssumption
  <2>2. tail \in ChunkIds(mid)
    BY <2>1 DEF ChunkIds
  <2>3. mid.chunks[tail] \in Chunk /\ mid.chunks[tail].used_slots \in Nat
    BY <1>1, <2>2, ChunkTyped
  <2>4. record \in SlotRecord
    BY DEF Record, SlotRecord
  <2>5. mid.chunks[tail].used_slots \in Slots
    BY <2>1, <2>3, CapacityAssumption DEF Slots
  <2>6. chunk \in Chunk /\ chunk.dirty
    <3> DEFINE was == mid.chunks[tail]
    <3>1. was \in Chunk /\ was.used_slots \in Slots /\ was.used_slots + 1 \in 0 .. ChunkCapacity
      BY <2>1, <2>3, <2>5, CapacityAssumption
    <3> HIDE DEF was
    <3>2. [was EXCEPT !.records[was.used_slots] = record, !.used_slots = @ + 1, !.dirty = TRUE] \in Chunk
      BY <2>4, <3>1 DEF Chunk
    <3>3. [was EXCEPT !.records[was.used_slots] = record, !.used_slots = @ + 1, !.dirty = TRUE].dirty
      BY <3>1 DEF Chunk
    <3> QED
      BY <3>2, <3>3 DEF was
  <2>7. IsChunkManager(put) /\ CleanUntouched(put, mid)
    <3> HIDE DEF chunk
    <3> QED
      BY <1>1, <2>2, <2>6, WithChunkTyped, WithChunkTouches
  <2>8. new = [put EXCEPT !.total_used_slots = put.total_used_slots + 1]
    BY DEF AppendToTail
  <2> HIDE DEF put, new
  <2>9. put.total_used_slots + 1 \in Nat
    BY <2>7 DEF IsChunkManager
  <2>10. new.chunks = put.chunks /\ new.chunk_count = put.chunk_count
    BY <2>7, <2>8, <2>9, UsedTotalChanged
  <2> QED
    BY <2>7, <2>10 DEF CleanUntouched, ChunkIds
<1> QED
  BY <1>2, <1>3, <1>4, CleanUntouchedTransitive DEF mid

(* An inserted batch leaves the chunks clean that it did not touch.          *)
LEMMA AppendedTouches ==
  ASSUME NEW manager, IsChunkManager(manager), NEW batch \in Seq(Record)
  PROVE  IsChunkManager(Appended(manager, batch)) /\ CleanUntouched(Appended(manager, batch), manager)
<1> DEFINE S == {m \in Managers : CleanUntouched(m, manager)}
<1>1. manager \in S
  BY ManagersMeaning DEF CleanUntouched
<1>2. ASSUME NEW m \in S, NEW record \in Record
      PROVE  AppendToTail(PrepareInsertTail(m), record) \in S
  <2>1. IsChunkManager(m) /\ CleanUntouched(m, manager)
    BY ManagersMeaning
  <2> DEFINE new == AppendToTail(PrepareInsertTail(m), record)
  <2>2. IsChunkManager(new) /\ CleanUntouched(new, m)
    BY <2>1, AppendTouches
  <2> HIDE DEF new
  <2>3. new \in Managers /\ CleanUntouched(new, manager)
    BY <2>1, <2>2, ManagersMeaning, CleanUntouchedTransitive
  <2> QED
    BY <2>3 DEF new
<1> HIDE DEF S
<1>3. Appended(manager, batch) \in S
  BY <1>1, <1>2, AppendedStays
<1> QED
  BY <1>3, ManagersMeaning DEF S


(* A record changed in its place makes its chunk dirty.                      *)
LEMMA RewriteTouches ==
  ASSUME NEW manager, IsChunkManager(manager), NEW loc \in Reachable(manager)
  PROVE  /\ LET new == BuryRecord(manager, loc) IN
            IsChunkManager(new) /\ CleanUntouched(new, manager)
         /\ \A gpa \in Gpas : LET new == WriteGpa(manager, loc, gpa) IN
              IsChunkManager(new) /\ CleanUntouched(new, manager)
<1> DEFINE mine == loc.chunk_id
           old == manager.chunks[mine]
<1>1. loc \in RecordLocation /\ Resolves(manager, loc) /\ RecordAt(manager, loc) \in Record
  BY UsedMeaning DEF Reachable
<1>2. mine \in ChunkIds(manager) /\ loc.slot_index \in Slots
  BY <1>1 DEF RecordLocation, Resolves, ChunkIds, IsChunkManager
<1>3. old \in Chunk /\ old.records[loc.slot_index] \in Record
  BY <1>1, <1>2, ChunkTyped DEF RecordAt
<1>4. IsChunkManager(BuryRecord(manager, loc)) /\ CleanUntouched(BuryRecord(manager, loc), manager)
  <2> DEFINE chunk == Buried(old, loc.slot_index)
             put == WithChunk(manager, mine, chunk)
             new == BuryRecord(manager, loc)
  <2>1. chunk \in Chunk /\ chunk.dirty
    <3> HIDE DEF old
    <3>1. [old.records[loc.slot_index] EXCEPT !.id = TombstoneId] \in SlotRecord
      BY <1>3 DEF Record, SlotRecord
    <3> DEFINE records == [old.records EXCEPT ![loc.slot_index].id = TombstoneId]
    <3>2. records \in [Slots -> SlotRecord \cup {ZeroRecord}]
      BY <1>2, <1>3, <3>1 DEF Chunk
    <3>3. chunk = [old EXCEPT !.records = records, !.tombstones = old.tombstones + 1, !.dirty = TRUE]
      BY <1>3 DEF Buried, Chunk
    <3> HIDE DEF records, chunk
    <3>4. old.tombstones + 1 \in Nat
      BY <1>3 DEF Chunk
    <3> QED
      BY <1>3, <3>2, <3>3, <3>4 DEF Chunk
  <2>2. new = [put EXCEPT !.total_tombstones = put.total_tombstones + 1]
    BY DEF BuryRecord
  <2> HIDE DEF chunk
  <2>3. IsChunkManager(put) /\ CleanUntouched(put, manager)
    BY <1>2, <2>1, WithChunkTyped, WithChunkTouches
  <2> HIDE DEF put, new
  <2>4. put.total_tombstones + 1 \in Nat
    BY <2>3 DEF IsChunkManager
  <2>5. IsChunkManager(new) /\ new.chunks = put.chunks /\ new.chunk_count = put.chunk_count
    BY <2>2, <2>3, <2>4, TombstoneTotalChanged
  <2>6. IsChunkManager(new) /\ CleanUntouched(new, manager)
    BY <2>3, <2>5 DEF CleanUntouched, ChunkIds
  <2> QED
    BY <2>6 DEF new
<1>5. ASSUME NEW gpa \in Gpas
      PROVE  IsChunkManager(WriteGpa(manager, loc, gpa)) /\ CleanUntouched(WriteGpa(manager, loc, gpa), manager)
  <2> DEFINE chunk == [old EXCEPT !.records[loc.slot_index].gpa = gpa, !.dirty = TRUE]
  <2>1. chunk \in Chunk /\ chunk.dirty
    <3> HIDE DEF old
    <3>1. [old.records[loc.slot_index] EXCEPT !.gpa = gpa] \in SlotRecord
      BY <1>3 DEF Record, SlotRecord
    <3>2. [old.records EXCEPT ![loc.slot_index].gpa = gpa] \in [Slots -> SlotRecord \cup {ZeroRecord}]
      BY <1>2, <1>3, <3>1 DEF Chunk
    <3> QED
      BY <1>3, <3>2 DEF Chunk
  <2>2. WriteGpa(manager, loc, gpa) = WithChunk(manager, mine, chunk)
    BY DEF WriteGpa
  <2> HIDE DEF chunk
  <2> QED
    BY <1>2, <2>1, <2>2, WithChunkTyped, WithChunkTouches
<1> QED
  BY <1>4, <1>5

(* Marking the chunks clean changes nothing else.                            *)
LEMMA MarkChunksCleanTouches ==
  ASSUME NEW manager, IsChunkManager(manager)
  PROVE  LET new == MarkChunksClean(manager) IN
         /\ IsChunkManager(new)
         /\ ChunkIds(new) = ChunkIds(manager)
         /\ \A c \in ChunkIds(manager) :
              /\ ~new.chunks[c].dirty
              /\ new.chunks[c].records = manager.chunks[c].records
              /\ new.chunks[c].used_slots = manager.chunks[c].used_slots
              /\ new.chunks[c].tombstones = manager.chunks[c].tombstones
<1> DEFINE new == MarkChunksClean(manager)
<1>1. manager \in [chunks           : [0 .. manager.chunk_count - 1 -> Chunk],
                   chunk_count      : Nat,
                   total_used_slots : Nat,
                   total_tombstones : Nat]
  BY DEF IsChunkManager
<1>2. new.chunk_count = manager.chunk_count
      /\ \A c \in ChunkIds(manager) : new.chunks[c] = [manager.chunks[c] EXCEPT !.dirty = FALSE]
  BY <1>1 DEF MarkChunksClean, ChunkIds
<1>3. IsChunkManager(new)
  BY MarkChunksCleanKeeps
<1> HIDE DEF new
<1>4. ASSUME NEW c \in ChunkIds(manager)
      PROVE  /\ ~new.chunks[c].dirty
             /\ new.chunks[c].records = manager.chunks[c].records
             /\ new.chunks[c].used_slots = manager.chunks[c].used_slots
             /\ new.chunks[c].tombstones = manager.chunks[c].tombstones
  <2>1. manager.chunks[c] \in Chunk
    BY ChunkTyped
  <2> QED
    BY <1>2, <2>1 DEF Chunk
<1> QED
  BY <1>2, <1>3, <1>4 DEF new, ChunkIds

-----------------------------------------------------------------------------
(* Files *)

(* A file that is not there, and one of length zero, have no sections.       *)
LEMMA MissingIsFile == IsFile(Missing) /\ IsFile(ZeroLength)
<1>1. DOMAIN NoSections = {} /\ IsFiniteSet({}) /\ Cardinality({}) = 0
  BY FS_EmptySet DEF NoSections
<1>2. DOMAIN NoSections = 0 .. Cardinality(DOMAIN NoSections) - 1
  BY <1>1
<1>3. \A found \in BOOLEAN :
        IsFile([exists |-> found, superblock |-> NoSuperblock, sections |-> NoSections])
  BY <1>1, <1>2 DEF IsFile
<1> QED
  BY <1>3 DEF Missing, ZeroLength

(* The first n numbers are n.                                                *)
LEMMA FirstNumbers ==
  ASSUME NEW n \in Nat
  PROVE  IsFiniteSet(0 .. n - 1) /\ Cardinality(0 .. n - 1) = n
BY FS_Interval

(* The sections of a file are numbered without gaps.                         *)
LEMMA SectionNumbers ==
  ASSUME NEW n \in Nat
  PROVE  0 .. n - 1 = 0 .. Cardinality(0 .. n - 1) - 1
BY FirstNumbers

(* A section that fseek skipped reads as an empty one.                       *)
LEMMA HoleIsSection == Hole \in Section /\ Hole.records # NoRecords
BY CutAssumption, CapacityAssumption DEF Hole, Section, Header, FileHeader, EmptyChunk

(* A section put in its place changes no other that was there.               *)
LEMMA WithSectionTyped ==
  ASSUME NEW file, IsFile(file), NEW c \in Nat, NEW section \in Section
  PROVE  LET new == WithSection(file, c, section) IN
         /\ IsFile(new)
         /\ new.exists = file.exists
         /\ new.superblock = file.superblock
         /\ DOMAIN new.sections = DOMAIN file.sections \cup 0 .. c
         /\ new.sections[c] = section
         /\ \A k \in DOMAIN file.sections : k # c => new.sections[k] = file.sections[k]
<1> DEFINE D == DOMAIN file.sections \cup 0 .. c
           sections == [k \in D |-> IF k = c THEN section
                                    ELSE IF k \in DOMAIN file.sections THEN file.sections[k] ELSE Hole]
           new == WithSection(file, c, section)
<1>1. /\ new.exists = file.exists
      /\ new.superblock = file.superblock
      /\ new.sections = sections
      /\ new = [exists |-> new.exists, superblock |-> new.superblock, sections |-> new.sections]
  <2>1. new = [file EXCEPT !.sections = sections]
    BY DEF WithSection
  <2> HIDE DEF sections, new
  <2>2. file = [exists |-> file.exists, superblock |-> file.superblock, sections |-> file.sections]
    BY DEF IsFile
  <2> QED
    BY <2>1, <2>2
<1>2. c \in D /\ D = 0 .. Cardinality(D) - 1 /\ IsFiniteSet(D)
  <2> DEFINE n == Cardinality(DOMAIN file.sections)
  <2>1. DOMAIN file.sections = 0 .. n - 1
    BY DEF IsFile
  <2>2. n \in Nat
    <3>1. IsFiniteSet(DOMAIN file.sections)
      BY DEF IsFile
    <3> QED
      BY <3>1, FS_CardinalityType
  <2> HIDE DEF n
  <2>3. PICK m \in Nat : D = 0 .. m - 1
    <3>1. CASE n > c
      <4>1. D = 0 .. n - 1
        BY <2>1, <2>2, <3>1
      <4> QED
        BY <2>2, <4>1
    <3>2. CASE ~(n > c)
      <4>1. D = 0 .. (c + 1) - 1
        BY <2>1, <2>2, <3>2
      <4> QED
        BY <4>1
    <3> QED
      BY <3>1, <3>2
  <2>4. c \in D
    OBVIOUS
  <2> HIDE DEF D
  <2> QED
    BY <2>3, <2>4, SectionNumbers, FS_Interval
<1>3. \A k \in D : sections[k] \in Section
  BY HoleIsSection DEF IsFile
<1>4. DOMAIN sections = D /\ sections[c] = section
      /\ \A k \in DOMAIN file.sections : k # c => sections[k] = file.sections[k]
  BY <1>2
<1> HIDE DEF new, sections, D
<1>5. IsFile(new)
  BY <1>1, <1>2, <1>3, <1>4 DEF IsFile
<1> QED
  BY <1>1, <1>4, <1>5 DEF new, D

(* A header written changes one section and leaves its records.              *)
LEMMA WithHeaderTyped ==
  ASSUME NEW file, IsFile(file), NEW c \in Nat, NEW chunk \in Chunk
  PROVE  LET new == WithHeader(file, c, chunk) IN
         /\ IsFile(new)
         /\ new.exists = file.exists
         /\ new.superblock = file.superblock
         /\ DOMAIN new.sections = DOMAIN file.sections \cup 0 .. c
         /\ new.sections[c].header = Header(c, chunk.used_slots, chunk.tombstones)
         /\ c \in DOMAIN file.sections => new.sections[c].records = file.sections[c].records
         /\ \A k \in DOMAIN file.sections : k # c => new.sections[k] = file.sections[k]
<1> DEFINE records == IF c \in DOMAIN file.sections THEN file.sections[c].records ELSE NoRecords
           section == [header |-> Header(c, chunk.used_slots, chunk.tombstones), records |-> records]
           new == WithHeader(file, c, chunk)
<1>1. section \in Section
  <2>1. records \in [Slots -> SlotRecord \cup {ZeroRecord}] \cup {NoRecords}
    BY DEF IsFile, Section
  <2> HIDE DEF records
  <2> QED
    BY <2>1 DEF Section, FileHeader, Header, Chunk
<1>2. new = WithSection(file, c, section)
  BY DEF WithHeader
<1>3. section.header = Header(c, chunk.used_slots, chunk.tombstones)
      /\ (c \in DOMAIN file.sections => section.records = file.sections[c].records)
  OBVIOUS
<1> HIDE DEF section, new
<1>4. /\ IsFile(new)
      /\ new.exists = file.exists
      /\ new.superblock = file.superblock
      /\ DOMAIN new.sections = DOMAIN file.sections \cup 0 .. c
      /\ new.sections[c] = section
      /\ \A k \in DOMAIN file.sections : k # c => new.sections[k] = file.sections[k]
  BY <1>1, <1>2, WithSectionTyped
<1> QED
  BY <1>3, <1>4 DEF new

(* Records written change one section and leave its header.                  *)
LEMMA WithRecordsTyped ==
  ASSUME NEW file, IsFile(file), NEW c \in DOMAIN file.sections, NEW chunk \in Chunk
  PROVE  LET new == WithRecords(file, c, chunk) IN
         /\ IsFile(new)
         /\ new.exists = file.exists
         /\ new.superblock = file.superblock
         /\ DOMAIN new.sections = DOMAIN file.sections
         /\ new.sections[c].header = file.sections[c].header
         /\ new.sections[c].records = chunk.records
         /\ \A k \in DOMAIN file.sections : k # c => new.sections[k] = file.sections[k]
<1> DEFINE section == [file.sections[c] EXCEPT !.records = chunk.records]
           new == WithRecords(file, c, chunk)
<1>1. c \in Nat /\ file.sections[c] \in Section /\ 0 .. c \subseteq DOMAIN file.sections
  <2> DEFINE n == Cardinality(DOMAIN file.sections)
  <2>1. DOMAIN file.sections = 0 .. n - 1 /\ n \in Nat /\ file.sections[c] \in Section
    BY FS_CardinalityType DEF IsFile
  <2> HIDE DEF n
  <2> QED
    BY <2>1
<1>2. section \in Section /\ section.header = file.sections[c].header
      /\ section.records = chunk.records
  BY <1>1 DEF Section, Chunk
<1>3. new = WithSection(file, c, section)
  BY DEF WithRecords
<1> HIDE DEF section, new
<1>4. /\ IsFile(new)
      /\ new.exists = file.exists
      /\ new.superblock = file.superblock
      /\ DOMAIN new.sections = DOMAIN file.sections \cup 0 .. c
      /\ new.sections[c] = section
      /\ \A k \in DOMAIN file.sections : k # c => new.sections[k] = file.sections[k]
  BY <1>1, <1>2, <1>3, WithSectionTyped
<1>5. DOMAIN new.sections = DOMAIN file.sections
  BY <1>1, <1>4
<1> QED
  BY <1>2, <1>4, <1>5 DEF new

(* So does a write of the records that is cut short.                         *)
LEMMA WithSomeRecordsTyped ==
  ASSUME NEW file, IsFile(file), NEW c \in DOMAIN file.sections, NEW chunk \in Chunk, NEW n \in Nat,
         file.sections[c].records # NoRecords
  PROVE  LET new == WithSomeRecords(file, c, chunk, n) IN
         /\ IsFile(new)
         /\ new.exists = file.exists
         /\ new.superblock = file.superblock
         /\ DOMAIN new.sections = DOMAIN file.sections
         /\ new.sections[c].header = file.sections[c].header
         /\ \A k \in DOMAIN file.sections : k # c => new.sections[k] = file.sections[k]
         /\ new.sections[c].records # NoRecords
         /\ \A s \in Slots : new.sections[c].records[s] \in {file.sections[c].records[s], chunk.records[s]}
<1> DEFINE old == file.sections[c].records
           records == [s \in Slots |-> IF s < n THEN chunk.records[s] ELSE old[s]]
           half == [chunk EXCEPT !.records = records]
           new == WithSomeRecords(file, c, chunk, n)
<1>1. file.sections[c] \in Section /\ old \in [Slots -> SlotRecord \cup {ZeroRecord}]
  BY DEF IsFile, Section
<1>2. records \in [Slots -> SlotRecord \cup {ZeroRecord}]
  BY <1>1 DEF Chunk
<1>3. half \in Chunk /\ half.records = records
  <2> HIDE DEF records
  <2> QED
    BY <1>2 DEF Chunk
<1>4. new = WithRecords(file, c, half)
  <2>1. new = WithSection(file, c, [file.sections[c] EXCEPT !.records = records])
    BY <1>1 DEF WithSomeRecords, Section
  <2> HIDE DEF half, records
  <2> QED
    BY <1>3, <2>1 DEF WithRecords
<1>5. records # NoRecords /\ \A s \in Slots : records[s] \in {old[s], chunk.records[s]}
  <2>1. records # NoRecords
    <3> HIDE DEF records
    <3> QED
      BY <1>2, CutAssumption
  <2> QED
    BY <2>1
<1> HIDE DEF half, new, records
<1>6. /\ IsFile(new)
      /\ new.exists = file.exists
      /\ new.superblock = file.superblock
      /\ DOMAIN new.sections = DOMAIN file.sections
      /\ new.sections[c].header = file.sections[c].header
      /\ new.sections[c].records = records
      /\ \A k \in DOMAIN file.sections : k # c => new.sections[k] = file.sections[k]
  BY <1>3, <1>4, WithRecordsTyped
<1> QED
  BY <1>5, <1>6 DEF new

(* Another superblock leaves the sections alone.                             *)
LEMMA SuperblockChanged ==
  ASSUME NEW file, IsFile(file), NEW manager, IsChunkManager(manager)
  PROVE  LET new == [file EXCEPT !.superblock = Superblock(manager)] IN
         /\ IsFile(new)
         /\ new.exists = file.exists
         /\ new.sections = file.sections
         /\ new.superblock = Superblock(manager)
         /\ new.superblock \in FileSuperblock
<1> DEFINE superblock == Superblock(manager)
           new == [file EXCEPT !.superblock = superblock]
<1>1. superblock \in FileSuperblock
  BY DEF Superblock, FileSuperblock, IsChunkManager
<1> HIDE DEF superblock
<1>2. file = [exists |-> file.exists, superblock |-> file.superblock, sections |-> file.sections]
  BY DEF IsFile
<1>3. /\ new.exists = file.exists
      /\ new.sections = file.sections
      /\ new.superblock = superblock
      /\ new = [exists |-> new.exists, superblock |-> new.superblock, sections |-> new.sections]
  BY <1>2
<1> HIDE DEF new
<1>4. IsFile(new)
  BY <1>1, <1>3 DEF IsFile
<1> QED
  BY <1>1, <1>3, <1>4 DEF new, superblock

(* A loaded manager is clean, and on disk as it is in memory.                *)
LEMMA LoadedTyped ==
  ASSUME NEW file, IsFile(file), Loadable(file)
  PROVE  /\ IsChunkManager(Loaded(file))
         /\ \A c \in ChunkIds(Loaded(file)) : SectionHolds(file, c, Loaded(file).chunks[c])
<1> DEFINE new == Loaded(file)
           n == file.superblock.chunk_count
<1>1. /\ file.superblock \in FileSuperblock
      /\ n \in Nat
      /\ new.chunk_count = n
  BY DEF Loadable, ValidSuperblock, IsFile, FileSuperblock, Loaded
<1>2. ASSUME NEW c \in 0 .. n - 1
      PROVE  /\ c \in DOMAIN file.sections
             /\ file.sections[c] \in Section
             /\ file.sections[c].records \in [Slots -> SlotRecord \cup {ZeroRecord}]
             /\ file.sections[c].records # NoRecords
             /\ file.sections[c].header \in FileHeader
             /\ file.sections[c].header.chunk_id = c
  BY DEF Loadable, SectionIds, ReadableSection, IsFile, Section
<1>3. ASSUME NEW c \in 0 .. n - 1
      PROVE  /\ new.chunks[c] = [records    |-> file.sections[c].records,
                                 used_slots |-> file.sections[c].header.used_slots,
                                 tombstones |-> file.sections[c].header.tombstones,
                                 dirty      |-> FALSE]
             /\ new.chunks[c] \in Chunk
  <2>1. new.chunks[c] = [records    |-> file.sections[c].records,
                         used_slots |-> file.sections[c].header.used_slots,
                         tombstones |-> file.sections[c].header.tombstones,
                         dirty      |-> FALSE]
    BY DEF Loaded, SectionIds
  <2> HIDE DEF new
  <2> QED
    BY <1>2, <2>1 DEF Chunk, FileHeader
<1>4. new \in [chunks           : [0 .. n - 1 -> Chunk],
               chunk_count      : Nat,
               total_used_slots : Nat,
               total_tombstones : Nat]
  <2>1. new.chunks \in [0 .. n - 1 -> Chunk]
    <3>1. new.chunks = [c \in 0 .. n - 1 |-> new.chunks[c]]
      BY DEF Loaded, SectionIds
    <3> HIDE DEF new
    <3> QED
      BY <1>3, <3>1
  <2>2. new = [chunks           |-> new.chunks,
               chunk_count      |-> n,
               total_used_slots |-> file.superblock.total_used_slots,
               total_tombstones |-> file.superblock.total_tombstones]
    BY DEF Loaded
  <2> HIDE DEF new
  <2> QED
    BY <1>1, <2>1, <2>2 DEF FileSuperblock
<1>5. ASSUME NEW c \in ChunkIds(new)
      PROVE  SectionHolds(file, c, new.chunks[c])
  <2>1. c \in 0 .. n - 1
    BY <1>1, <1>5 DEF ChunkIds
  <2>2. file.sections[c].header
          = Header(c, file.sections[c].header.used_slots, file.sections[c].header.tombstones)
    BY <1>2, <2>1 DEF FileHeader, Header
  <2> HIDE DEF new
  <2>3. /\ new.chunks[c].records = file.sections[c].records
        /\ new.chunks[c].used_slots = file.sections[c].header.used_slots
        /\ new.chunks[c].tombstones = file.sections[c].header.tombstones
    <3>1. new.chunks[c] = [records    |-> file.sections[c].records,
                           used_slots |-> file.sections[c].header.used_slots,
                           tombstones |-> file.sections[c].header.tombstones,
                           dirty      |-> FALSE]
      BY <1>3, <2>1
    <3> QED
      BY <3>1
  <2>4. c \in DOMAIN file.sections /\ file.sections[c].records # NoRecords
    BY <1>2, <2>1
  <2> QED
    BY <2>2, <2>3, <2>4 DEF SectionHolds
<1> HIDE DEF new
<1>6. IsChunkManager(new)
  BY <1>1, <1>4 DEF IsChunkManager
<1> QED
  BY <1>5, <1>6 DEF new

(* The chunks that a compacted file needs all have a record to hold.         *)
LEMMA CeilDivNatural ==
  ASSUME NEW n \in Nat
  PROVE  /\ CeilDiv(n, ChunkCapacity) \in Nat
         /\ \A c \in 0 .. CeilDiv(n, ChunkCapacity) - 1 : n - c * ChunkCapacity \in Nat \ {0}
<1>1. CASE n = 0
  BY <1>1 DEF CeilDiv
<1>2. CASE n # 0
  <2> DEFINE q == (n - 1) \div ChunkCapacity
             r == (n - 1) % ChunkCapacity
  <2>1. n - 1 \in Nat
    BY <1>2
  <2>2. q \in Nat /\ r \in Nat /\ n - 1 = ChunkCapacity * q + r
    <3>1. q \in Nat /\ r \in 0 .. ChunkCapacity - 1
      BY <2>1, NextSlot, CapacityAssumption
    <3>2. n - 1 = ChunkCapacity * q + r
      BY <2>1, CapacityAssumption
    <3> QED
      BY <3>1, <3>2, CapacityAssumption
  <2>3. CeilDiv(n, ChunkCapacity) = 1 + q
    BY <1>2 DEF CeilDiv
  <2> HIDE DEF q, r
  <2>4. ASSUME NEW c \in 0 .. q
        PROVE  n - c * ChunkCapacity \in Nat \ {0}
    <3>1. PICK d \in Nat : q = c + d
      <4>1. q - c \in Nat /\ q = c + (q - c)
        BY <2>2
      <4> QED
        BY <4>1
    <3>2. ChunkCapacity * q = c * ChunkCapacity + ChunkCapacity * d
      BY <3>1, CapacityAssumption
    <3>3. ChunkCapacity * d \in Nat /\ c * ChunkCapacity \in Nat
      BY <2>2, CapacityAssumption
    <3> DEFINE x == ChunkCapacity * q
               y == c * ChunkCapacity
               z == ChunkCapacity * d
    <3> HIDE DEF x, y, z
    <3>4. y \in Nat /\ z \in Nat /\ x = y + z /\ n - 1 = x + r
      BY <2>2, <3>2, <3>3 DEF x, y, z
    <3>5. n - y \in Nat \ {0}
      BY <2>2, <3>4
    <3> QED
      BY <3>5 DEF y
  <2> QED
    BY <2>2, <2>3, <2>4
<1> QED
  BY <1>1, <1>2

(* The file that compaction writes.                                          *)
LEMMA CompactedTyped ==
  ASSUME NEW file, IsFile(file), ValidSuperblock(file.superblock),
         \A c \in SectionIds(file) : ReadableSection(file, c)
  PROVE  IsFile(Compacted(file)) /\ Compacted(file).exists
<1> DEFINE active == file.superblock.total_used_slots - file.superblock.total_tombstones
           records == LiveRecords(file)
           n == Len(records)
           UsedOf(c) == IF n - c * ChunkCapacity < ChunkCapacity THEN n - c * ChunkCapacity ELSE ChunkCapacity
           content(c) == [s \in Slots |-> IF s < UsedOf(c) THEN records[c * ChunkCapacity + s + 1]
                                         ELSE ZeroRecord]
           sections == [c \in 0 .. CeilDiv(n, ChunkCapacity) - 1 |->
                         [header |-> Header(c, UsedOf(c), 0), records |-> content(c)]]
           superblock == [chunk_count      |-> CeilDiv(active, ChunkCapacity),
                          total_used_slots |-> active,
                          total_tombstones |-> 0]
<1>1. file.superblock \in FileSuperblock
  BY DEF IsFile, ValidSuperblock
<1>2. records \in Seq(Unburied) /\ n \in Nat
  BY <1>1, LiveRecordsTyped
<1>3. Compacted(file) = [exists |-> TRUE, superblock |-> superblock, sections |-> sections]
  BY DEF Compacted
<1>4. superblock \in FileSuperblock
  <2>1. active \in Nat
    BY <1>1 DEF FileSuperblock, ValidSuperblock
  <2> HIDE DEF active
  <2> QED
    BY <2>1, CeilDivNatural DEF FileSuperblock
<1> HIDE DEF records, superblock
<1>5. ASSUME NEW c \in 0 .. CeilDiv(n, ChunkCapacity) - 1
      PROVE  sections[c] \in Section
  <2> DEFINE left == n - c * ChunkCapacity
             used == UsedOf(c)
  <2>1. left \in Nat \ {0} /\ c \in Nat /\ c * ChunkCapacity \in Nat
    <3>1. CeilDiv(n, ChunkCapacity) \in Nat
          /\ \A k \in 0 .. CeilDiv(n, ChunkCapacity) - 1 : n - k * ChunkCapacity \in Nat \ {0}
      BY <1>2, CeilDivNatural
    <3>2. c \in Nat
      BY <3>1
    <3>3. c * ChunkCapacity \in Nat
      BY <3>2, CapacityAssumption
    <3> QED
      BY <3>1, <3>2, <3>3
  <2>2. used \in 0 .. ChunkCapacity /\ used <= left
    <3> HIDE DEF left
    <3>1. used = IF left < ChunkCapacity THEN left ELSE ChunkCapacity
      BY DEF left
    <3> HIDE DEF used
    <3> QED
      BY <2>1, <3>1, CapacityAssumption
  <2>3. ASSUME NEW s \in Slots, s < used
        PROVE  records[c * ChunkCapacity + s + 1] \in FileRecord
    <3> DEFINE y == c * ChunkCapacity
    <3>1. y \in Nat /\ left = n - y /\ s \in Nat
      BY <2>1, CapacityAssumption DEF Slots
    <3> HIDE DEF left, used, y
    <3>2. y + s + 1 \in 1 .. n
      BY <1>2, <2>1, <2>2, <2>3, <3>1, CapacityAssumption
    <3>3. records[y + s + 1] \in FileRecord
      <4> DEFINE i == y + s + 1
      <4> HIDE DEF i
      <4>1. i \in 1 .. Len(records)
        BY <3>2 DEF i
      <4>2. records[i] \in FileRecord
        BY <1>2, <4>1, ElementOfSeq DEF Unburied
      <4> QED
        BY <4>2 DEF i
    <3> QED
      BY <3>3 DEF y
  <2>4. content(c) \in [Slots -> FileRecord]
    <3>1. ZeroRecord \in FileRecord
      BY DEF FileRecord
    <3>2. content(c) = [s \in Slots |-> IF s < used THEN records[c * ChunkCapacity + s + 1] ELSE ZeroRecord]
      OBVIOUS
    <3> HIDE DEF used, content
    <3> QED
      BY <2>3, <3>1, <3>2
  <2>5. Header(c, used, 0) \in FileHeader
    <3> HIDE DEF used
    <3> QED
      BY <2>1, <2>2 DEF Header, FileHeader
  <2>6. sections[c] = [header |-> Header(c, used, 0), records |-> content(c)]
    OBVIOUS
  <2> HIDE DEF used, content, sections
  <2> QED
    BY <2>4, <2>5, <2>6 DEF Section, FileRecord
<1>6. DOMAIN sections = 0 .. Cardinality(DOMAIN sections) - 1 /\ IsFiniteSet(DOMAIN sections)
  <2>1. DOMAIN sections = 0 .. CeilDiv(n, ChunkCapacity) - 1 /\ CeilDiv(n, ChunkCapacity) \in Nat
    BY <1>2, CeilDivNatural
  <2> HIDE DEF sections
  <2> QED
    BY <2>1, SectionNumbers, FS_Interval
<1>7. \A c \in DOMAIN sections : sections[c] \in Section
  BY <1>5
<1> HIDE DEF sections
<1> QED
  BY <1>3, <1>4, <1>6, <1>7 DEF IsFile

-----------------------------------------------------------------------------
(* Types *)

(* Which operation is at which step, and what the step may rely on.          *)
IoSound ==
  /\ io.pc \in {"create", "create_write"} => io.then \in {"save", "load"}
  /\ io.pc \in {"save", "save_records", "save_end"} => io.then = "save"
  /\ io.pc \in {"compact", "remove", "rename", "load"} => io.then = "load"
  /\ io.then = "save" => running
  /\ io.then = "load" => ~running
  /\ At("save_records") => io.next \in ChunkIds(cm) /\ io.next \in DOMAIN disk.sections
  /\ At("compact") => ValidSuperblock(disk.superblock)

TInv == TypeOK /\ IoSound

IoType == [pc : IoPcs, next : Nat, then : {"none", "save", "load"}]

Results == {"NONE", "OK", "FILE_IO", "COMPACTION_FAILED"}

(* A chunk manager without chunks.                                           *)
LEMMA EmptyManagerTyped == IsChunkManager(EmptyManager) /\ ChunkIds(EmptyManager) = {}
BY DEF EmptyManager, IsChunkManager, ChunkIds

(* The fields of io after the ways it is set.                                *)
LEMMA IoSteps ==
  ASSUME io \in IoType
  PROVE  /\ IdleIo \in IoType /\ IdleIo.pc = "idle" /\ IdleIo.then = "none"
         /\ \A pc \in IoPcs : /\ [io EXCEPT !.pc = pc] \in IoType
                              /\ [io EXCEPT !.pc = pc].pc = pc
                              /\ [io EXCEPT !.pc = pc].next = io.next
                              /\ [io EXCEPT !.pc = pc].then = io.then
         /\ \A pc \in IoPcs : \A then \in {"none", "save", "load"} :
              LET new == [pc |-> pc, next |-> 0, then |-> then] IN
              new \in IoType /\ new.pc = pc /\ new.then = then
BY DEF IoType, IoPcs, IdleIo

(* Steps that move on, and write nothing of their own.                       *)
LEMMA BeginTyped ==
  ASSUME TInv, BeginSave \/ BeginSaveByCreating \/ BootWithoutStats \/ BootWithStats
  PROVE  TInv'
<1>1. TypeOK /\ IoSound /\ io \in IoType
  BY DEF TInv, TypeOK, IoType
<1>2. CASE BeginSave \/ BeginSaveByCreating
  <2>1. PICK pc \in {"save", "create"} : io' = [pc |-> pc, next |-> 0, then |-> "save"] /\ running
    BY <1>2 DEF BeginSave, BeginSaveByCreating, Begin
  <2>2. UNCHANGED <<running, cm, disk, tmp, result>>
    BY <1>2 DEF BeginSave, BeginSaveByCreating
  <2>3. io' \in IoType /\ io'.pc = pc /\ io'.then = "save"
    BY <2>1 DEF IoType, IoPcs
  <2> QED
    BY <1>1, <2>1, <2>2, <2>3 DEF TInv, TypeOK, IoSound, IoType, At
<1>3. CASE BootWithoutStats \/ BootWithStats
  <2>1. PICK pc \in {"compact", "load"} :
          /\ io' = [pc |-> pc, next |-> 0, then |-> "load"]
          /\ ~running
          /\ pc = "compact" => ValidSuperblock(disk.superblock)
    BY <1>3 DEF BootWithoutStats, BootWithStats, Begin
  <2>2. UNCHANGED <<running, cm, disk, tmp, result>>
    BY <1>3 DEF BootWithoutStats, BootWithStats
  <2>3. io' \in IoType /\ io'.pc = pc /\ io'.then = "load"
    BY <2>1 DEF IoType, IoPcs
  <2>4. ValidSuperblock(disk'.superblock) <=> ValidSuperblock(disk.superblock)
    BY <2>2
  <2> QED
    BY <1>1, <2>1, <2>2, <2>3, <2>4 DEF TInv, TypeOK, IoSound, IoType, At
<1> QED
  BY <1>2, <1>3

(* Steps that end an operation, whatever they answer.                        *)
LEMMA ReturnTyped ==
  ASSUME TInv, FailCreate \/ FinishSave \/ FailSave \/ FailBoot \/ FailCompact \/ FailRename
               \/ Load \/ RefuseLoad \/ Stop
  PROVE  TInv'
<1>1. TypeOK /\ IoSound /\ io \in IoType
  BY DEF TInv, TypeOK, IoType
<1>2. io' = IdleIo /\ result' \in Results
  BY DEF FailCreate, FinishSave, FailSave, FailBoot, FailCompact, FailRename, Load, RefuseLoad, Stop,
         Return, Results
<1>3. io' \in IoType /\ io'.pc = "idle" /\ io'.then = "none"
  BY <1>1, <1>2, IoSteps
<1>4. disk' = disk /\ (tmp' = tmp \/ tmp' = Missing)
  BY DEF FailCreate, FinishSave, FailSave, FailBoot, FailCompact, FailRename, Load, RefuseLoad, Stop
<1>5. running' \in BOOLEAN
  BY <1>1 DEF TypeOK, FailCreate, FinishSave, FailSave, FailBoot, FailCompact, FailRename, Load,
              RefuseLoad, Stop
<1>6. IsChunkManager(cm')
  <2>1. CASE FinishSave
    BY <1>1, <2>1, MarkChunksCleanTouches DEF FinishSave, TypeOK
  <2>2. CASE Load
    BY <1>1, <2>2, LoadedTyped DEF Load, Bootable, TypeOK
  <2>3. CASE Stop
    BY <2>3, EmptyManagerTyped DEF Stop
  <2>4. CASE FailCreate \/ FailSave \/ FailBoot \/ FailCompact \/ FailRename \/ RefuseLoad
    <3>1. cm' = cm
      BY <2>4 DEF FailCreate, FailSave, FailBoot, FailCompact, FailRename, RefuseLoad
    <3> QED
      BY <1>1, <3>1 DEF TypeOK
  <2> QED
    BY <2>1, <2>2, <2>3, <2>4
<1>7. IsFile(disk') /\ IsFile(tmp')
  BY <1>1, <1>4, MissingIsFile DEF TypeOK
<1>8. TypeOK'
  BY <1>2, <1>3, <1>5, <1>6, <1>7 DEF TypeOK, IoType, Results
<1>9. IoSound'
  BY <1>3 DEF IoSound, At
<1> QED
  BY <1>8, <1>9 DEF TInv

(* The steps of file_io_create_empty_file.                                   *)
LEMMA CreateTyped ==
  ASSUME TInv, TruncateFile \/ WriteEmptySuperblock
  PROVE  TInv'
<1>1. TypeOK /\ IoSound /\ io \in IoType
  BY DEF TInv, TypeOK, IoType
<1>2. CASE TruncateFile
  <2>1. disk' = ZeroLength /\ io' = [io EXCEPT !.pc = "create_write"] /\ At("create")
        /\ UNCHANGED <<running, cm, tmp, result>>
    BY <1>2 DEF TruncateFile, Goto
  <2>2. io' \in IoType /\ io'.pc = "create_write" /\ io'.then = io.then
    BY <1>1, <2>1, IoSteps DEF IoPcs
  <2>3. io.then \in {"save", "load"}
    BY <1>1, <2>1 DEF IoSound, At
  <2>4. IsFile(disk')
    BY <2>1, MissingIsFile
  <2> QED
    BY <1>1, <2>1, <2>2, <2>3, <2>4 DEF TInv, TypeOK, IoSound, IoType, At
<1>3. CASE WriteEmptySuperblock
  <2>1. disk' = [disk EXCEPT !.superblock = Superblock(EmptyManager)]
        /\ io' = [io EXCEPT !.pc = io.then] /\ At("create_write")
        /\ UNCHANGED <<running, cm, tmp, result>>
    BY <1>3 DEF WriteEmptySuperblock, Goto
  <2>2. io.then \in {"save", "load"}
    BY <1>1, <2>1 DEF IoSound, At
  <2>3. io' \in IoType /\ io'.pc = io.then /\ io'.then = io.then
    <3> DEFINE pc == io.then
    <3>1. pc \in IoPcs /\ io' = [io EXCEPT !.pc = pc]
      BY <2>1, <2>2 DEF IoPcs
    <3> HIDE DEF pc
    <3>2. io' \in IoType /\ io'.pc = pc /\ io'.then = io.then
      BY <1>1, <3>1, IoSteps
    <3> QED
      BY <3>2 DEF pc
  <2>4. IsFile(disk')
    BY <1>1, <2>1, SuperblockChanged, EmptyManagerTyped DEF TypeOK
  <2> QED
    BY <1>1, <2>1, <2>2, <2>3, <2>4 DEF TInv, TypeOK, IoSound, IoType, At
<1> QED
  BY <1>2, <1>3

(* The steps of file_io_compact, and a load that has to create the file.     *)
LEMMA CompactTyped ==
  ASSUME TInv, Compact \/ RemoveOld \/ RenameTemporary \/ LoadByCreating
  PROVE  TInv'
<1>1. TypeOK /\ IoSound /\ io \in IoType
  BY DEF TInv, TypeOK, IoType
<1>2. PICK pc \in {"remove", "rename", "load", "create"} : io' = [io EXCEPT !.pc = pc]
  BY DEF Compact, RemoveOld, RenameTemporary, LoadByCreating, Goto
<1>3. io' \in IoType /\ io'.pc = pc /\ io'.then = io.then
  <2>1. pc \in IoPcs
    BY DEF IoPcs
  <2> QED
    BY <1>1, <1>2, <2>1, IoSteps
<1>4. UNCHANGED <<running, cm, result>>
  BY DEF Compact, RemoveOld, RenameTemporary, LoadByCreating
<1>5. io.then = "load" /\ ~running
  BY <1>1 DEF Compact, RemoveOld, RenameTemporary, LoadByCreating, IoSound, At
<1>6. IsFile(disk') /\ IsFile(tmp')
  <2>1. CASE Compact
    <3>1. ValidSuperblock(disk.superblock) /\ IsFile(disk)
      BY <1>1, <2>1 DEF Compact, IoSound, TypeOK
    <3>2. IsFile(Compacted(disk))
      BY <2>1, <3>1, CompactedTyped DEF Compact
    <3> QED
      BY <2>1, <3>1, <3>2 DEF Compact
  <2>2. CASE RemoveOld
    BY <1>1, <2>2, MissingIsFile DEF RemoveOld, TypeOK
  <2>3. CASE RenameTemporary
    BY <1>1, <2>3, MissingIsFile DEF RenameTemporary, TypeOK
  <2>4. CASE LoadByCreating
    BY <1>1, <2>4 DEF LoadByCreating, TypeOK
  <2> QED
    BY <2>1, <2>2, <2>3, <2>4
<1>7. TypeOK'
  BY <1>1, <1>3, <1>4, <1>6 DEF TypeOK, IoType
<1>8. IoSound'
  BY <1>3, <1>4, <1>5 DEF IoSound, At
<1> QED
  BY <1>7, <1>8 DEF TInv

(* A save writes the dirty chunks in order: none is left between the last    *)
(* and the next.                                                             *)
LEMMA DirtyFromLeast ==
  ASSUME IsChunkManager(cm), NEW n \in Nat, DirtyFrom(n) # {}
  PROVE  LET c == Min(DirtyFrom(n)) IN
         /\ c \in ChunkIds(cm) /\ c \in Nat /\ c >= n /\ cm.chunks[c].dirty
         /\ \A k \in ChunkIds(cm) : k >= n /\ k < c => ~cm.chunks[k].dirty
<1>1. DirtyFrom(n) \subseteq Nat /\ ChunkIds(cm) \subseteq Nat
  BY DEF DirtyFrom, ChunkIds
<1> DEFINE c == Min(DirtyFrom(n))
<1>2. c \in DirtyFrom(n) /\ \A k \in DirtyFrom(n) : c <= k
  BY <1>1, MinIsLeast
<1> HIDE DEF c
<1>3. \A k \in ChunkIds(cm) : k >= n /\ k < c => ~cm.chunks[k].dirty
  BY <1>1, <1>2 DEF DirtyFrom
<1> QED
  BY <1>1, <1>2, <1>3 DEF DirtyFrom, c

(* The writes of file_io_save.                                               *)
LEMMA WriteTyped ==
  ASSUME TInv, WriteHeader \/ WriteSomeRecords \/ WriteRecords \/ WriteSuperblock
  PROVE  TInv'
<1>1. TypeOK /\ IoSound /\ io \in IoType /\ IsFile(disk) /\ IsChunkManager(cm)
  BY DEF TInv, TypeOK, IoType
<1>2. UNCHANGED <<running, cm, tmp, result>>
  BY DEF WriteHeader, WriteSomeRecords, WriteRecords, WriteSuperblock
<1>3. io.then = "save" /\ running
  BY <1>1 DEF WriteHeader, WriteSomeRecords, WriteRecords, WriteSuperblock, IoSound, At
<1>4. io.next \in Nat
  BY <1>1 DEF IoType
<1>5. CASE WriteHeader
  <2> DEFINE c == Min(DirtyFrom(io.next))
  <2>1. disk' = WithHeader(disk, c, cm.chunks[c])
        /\ io' = [io EXCEPT !.pc = "save_records", !.next = c]
        /\ DirtyFrom(io.next) # {}
    BY <1>5 DEF WriteHeader
  <2>2. c \in ChunkIds(cm) /\ c \in Nat
    BY <1>1, <1>4, <2>1, DirtyFromLeast
  <2> HIDE DEF c
  <2>3. io' \in IoType /\ io'.pc = "save_records" /\ io'.next = c /\ io'.then = "save"
    BY <1>1, <1>3, <2>1, <2>2 DEF IoType, IoPcs
  <2>4. IsFile(disk') /\ c \in DOMAIN disk'.sections
    <3>1. cm.chunks[c] \in Chunk
      BY <1>1, <2>2, ChunkTyped
    <3> DEFINE new == WithHeader(disk, c, cm.chunks[c])
    <3>2. IsFile(new) /\ DOMAIN new.sections = DOMAIN disk.sections \cup 0 .. c
      BY <1>1, <2>2, <3>1, WithHeaderTyped
    <3> HIDE DEF new
    <3>3. c \in DOMAIN new.sections
      BY <2>2, <3>2
    <3> QED
      BY <2>1, <3>2, <3>3 DEF new
  <2>5. c \in ChunkIds(cm)'
    BY <1>2, <2>2 DEF ChunkIds
  <2> QED
    BY <1>1, <1>2, <1>3, <2>3, <2>4, <2>5 DEF TInv, TypeOK, IoSound, IoType, At
<1>6. CASE WriteSomeRecords
  <2>1. PICK n \in 1 .. ChunkCapacity - 1 :
          disk' = WithSomeRecords(disk, io.next, cm.chunks[io.next], n)
    BY <1>6 DEF WriteSomeRecords
  <2>2. io' = io /\ At("save_records") /\ disk.sections[io.next].records # NoRecords
    BY <1>6 DEF WriteSomeRecords
  <2>3. io.next \in ChunkIds(cm) /\ io.next \in DOMAIN disk.sections
    BY <1>1, <2>2 DEF IoSound
  <2>4. cm.chunks[io.next] \in Chunk /\ n \in Nat
    BY <1>1, <2>3, ChunkTyped, CapacityAssumption
  <2>5. IsFile(disk') /\ DOMAIN disk'.sections = DOMAIN disk.sections
    BY <1>1, <2>1, <2>2, <2>3, <2>4, WithSomeRecordsTyped
  <2>6. io.next \in ChunkIds(cm)'
    BY <1>2, <2>3 DEF ChunkIds
  <2> QED
    BY <1>1, <1>2, <1>3, <2>2, <2>3, <2>5, <2>6 DEF TInv, TypeOK, IoSound, IoType, At
<1>7. CASE WriteRecords
  <2>1. disk' = WithRecords(disk, io.next, cm.chunks[io.next])
        /\ io' = [io EXCEPT !.pc = "save", !.next = @ + 1] /\ At("save_records")
    BY <1>7 DEF WriteRecords
  <2>2. io.next \in ChunkIds(cm) /\ io.next \in DOMAIN disk.sections
    BY <1>1, <2>1 DEF IoSound
  <2>3. cm.chunks[io.next] \in Chunk
    BY <1>1, <2>2, ChunkTyped
  <2>4. IsFile(disk')
    BY <1>1, <2>1, <2>2, <2>3, WithRecordsTyped
  <2>5. io' \in IoType /\ io'.pc = "save" /\ io'.then = "save"
    <3> DEFINE n == io.next + 1
    <3>1. n \in Nat /\ io' = [io EXCEPT !.pc = "save", !.next = n]
      BY <1>1, <1>4, <2>1 DEF IoType
    <3> HIDE DEF n
    <3> QED
      BY <1>1, <1>3, <3>1 DEF IoType, IoPcs
  <2> QED
    BY <1>1, <1>2, <1>3, <2>4, <2>5 DEF TInv, TypeOK, IoSound, IoType, At
<1>8. CASE WriteSuperblock
  <2>1. disk' = [disk EXCEPT !.superblock = Superblock(cm)] /\ io' = [io EXCEPT !.pc = "save_end"]
    BY <1>8 DEF WriteSuperblock, Goto
  <2>2. IsFile(disk')
    BY <1>1, <2>1, SuperblockChanged
  <2>3. io' \in IoType /\ io'.pc = "save_end" /\ io'.then = io.then
    BY <1>1, <2>1, IoSteps DEF IoPcs
  <2> QED
    BY <1>1, <1>2, <1>3, <2>2, <2>3 DEF TInv, TypeOK, IoSound, IoType, At
<1> QED
  BY <1>5, <1>6, <1>7, <1>8

(* Calls in memory.                                                          *)
LEMMA ChangeTyped ==
  ASSUME TInv,
         \/ \E batch \in Batches : Insert(batch)
         \/ \E loc \in Reachable(cm) : Delete(loc) \/ \E gpa \in Gpas : UpdateGpa(loc, gpa)
  PROVE  TInv' /\ CleanUntouched(cm', cm) /\ UNCHANGED <<running, disk, tmp, io, result>> /\ Changing
<1>1. TypeOK /\ IoSound /\ IsChunkManager(cm)
  BY DEF TInv, TypeOK
<1>2. UNCHANGED <<running, disk, tmp, io, result>> /\ Changing
  BY DEF Insert, Delete, UpdateGpa
<1>3. IsChunkManager(cm') /\ CleanUntouched(cm', cm)
  <2>1. CASE \E batch \in Batches : Insert(batch)
    <3>1. PICK batch \in Batches : cm' = Appended(cm, batch)
      BY <2>1 DEF Insert
    <3>2. batch \in Seq(Record)
      BY BatchAssumption
    <3> QED
      BY <1>1, <3>1, <3>2, AppendedTouches
  <2>2. CASE \E loc \in Reachable(cm) : Delete(loc) \/ \E gpa \in Gpas : UpdateGpa(loc, gpa)
    <3>1. PICK loc \in Reachable(cm) : Delete(loc) \/ \E gpa \in Gpas : UpdateGpa(loc, gpa)
      BY <2>2
    <3>2. cm' = BuryRecord(cm, loc) \/ \E gpa \in Gpas : cm' = WriteGpa(cm, loc, gpa)
      BY <3>1 DEF Delete, UpdateGpa
    <3> QED
      BY <1>1, <3>2, RewriteTouches
  <2> QED
    BY <2>1, <2>2
<1>4. TypeOK'
  BY <1>1, <1>2, <1>3 DEF TypeOK
<1>5. IoSound'
  BY <1>1, <1>2 DEF IoSound, At, Changing
<1> QED
  BY <1>2, <1>3, <1>4, <1>5 DEF TInv

(* Before the first boot there is neither a file nor a process.              *)
THEOREM InitTyped == Init => TInv
<1> SUFFICES ASSUME Init PROVE TInv
  OBVIOUS
<1>1. TypeOK
  BY MissingIsFile, EmptyManagerTyped DEF Init, TypeOK, IdleIo, IoPcs
<1>2. IoSound
  BY DEF Init, IoSound, IdleIo, At
<1> QED
  BY <1>1, <1>2 DEF TInv

(* Every action keeps the types, and the pc with its locals.                 *)
THEOREM NextTyped == TInv /\ [Next]_vars => TInv'
<1> SUFFICES ASSUME TInv, [Next]_vars PROVE TInv'
  OBVIOUS
<1>1. CASE UNCHANGED vars
  BY <1>1 DEF vars, TInv, TypeOK, IoSound, At, ChunkIds
<1>2. CASE Next
  BY <1>2, BeginTyped, ReturnTyped, CreateTyped, CompactTyped, WriteTyped, ChangeTyped DEF Next
<1> QED
  BY <1>1, <1>2

(* The types, and what the pc says about them, hold in every state.          *)
THEOREM Typed == Spec => []TInv
BY InitTyped, NextTyped, PTL DEF Spec

(* Every variable keeps its type, whatever is read from a file that a        *)
(* stopped or refused save left behind, compacted or not.                    *)
THEOREM TypeCorrect == Spec => []TypeOK
<1>1. TInv => TypeOK
  BY DEF TInv
<1> QED
  BY <1>1, Typed, PTL

-----------------------------------------------------------------------------
(* Clean chunks are on disk *)

(* The chunks that a load, a save that was completed, or the save in         *)
(* progress so far have brought into agreement with the file.                *)
Settled(c) ==
  \/ ~cm.chunks[c].dirty
  \/ io.pc \in {"save", "save_records"} /\ c < io.next
  \/ At("save_end")

HeaderWritten ==
  /\ cm.chunks[io.next].dirty
  /\ disk.sections[io.next].header =
       Header(io.next, cm.chunks[io.next].used_slots, cm.chunks[io.next].tombstones)

SaveSound ==
  running =>
    /\ disk.exists
    /\ io.pc \in {"idle", "save", "save_records", "save_end"}
    /\ \A c \in ChunkIds(cm) : Settled(c) => SectionHolds(disk, c, cm.chunks[c])
    /\ At("save_records") => HeaderWritten

(* A section that is not written holds what it held.                         *)
LEMMA HoldsStays ==
  ASSUME NEW file, NEW new, NEW c, NEW chunk, SectionHolds(file, c, chunk),
         c \in DOMAIN new.sections, new.sections[c] = file.sections[c]
  PROVE  SectionHolds(new, c, chunk)
BY DEF SectionHolds

(* What a file holds of a chunk does not depend on its flag.                 *)
LEMMA HoldsUnflagged ==
  ASSUME NEW file, NEW c, NEW a, NEW b, SectionHolds(file, c, a),
         a.records = b.records, a.used_slots = b.used_slots, a.tombstones = b.tombstones
  PROVE  SectionHolds(file, c, b)
BY DEF SectionHolds

(* Nothing is to be shown of a process without an engine, and nothing new of *)
(* one that leaves chunks, file and operation alone.                         *)
LEMMA SaveSoundUnchanged ==
  ASSUME SaveSound, UNCHANGED <<running, cm, disk, io>>
  PROVE  SaveSound'
BY DEF SaveSound, Settled, HeaderWritten, At, ChunkIds

(* A save that has begun has written nothing, and the file is still there.   *)
LEMMA BeginSaveSound ==
  ASSUME SaveSound, "open" \notin Faults, BeginSave \/ BeginSaveByCreating
  PROVE  SaveSound'
<1>1. running /\ disk.exists /\ At("idle")
  BY DEF BeginSave, BeginSaveByCreating, SaveSound
<1>2. BeginSave
  BY <1>1 DEF BeginSaveByCreating, MayNotOpen
<1>3. io' = [pc |-> "save", next |-> 0, then |-> "save"] /\ UNCHANGED <<running, cm, disk>>
  BY <1>2 DEF BeginSave, Begin
<1>4. io'.pc = "save" /\ io'.next = 0
  BY <1>3
<1>5. \A c \in ChunkIds(cm)' : Settled(c)' => Settled(c)
  BY <1>3, <1>4 DEF Settled, At, ChunkIds
<1> QED
  BY <1>1, <1>3, <1>4, <1>5 DEF SaveSound, At, ChunkIds

(* The header is that of a dirty chunk, which the file need not hold.        *)
LEMMA WriteHeaderSound ==
  ASSUME TInv, SaveSound, WriteHeader
  PROVE  SaveSound'
<1> DEFINE c == Min(DirtyFrom(io.next))
<1>1. /\ running /\ disk.exists /\ At("save")
      /\ IsFile(disk) /\ IsChunkManager(cm) /\ io \in IoType /\ io.next \in Nat
  BY DEF WriteHeader, TInv, TypeOK, IoSound, IoType, At, SaveSound
<1>2. /\ DirtyFrom(io.next) # {}
      /\ disk' = WithHeader(disk, c, cm.chunks[c])
      /\ io' = [io EXCEPT !.pc = "save_records", !.next = c]
      /\ UNCHANGED <<running, cm>>
  BY DEF WriteHeader
<1>3. /\ c \in ChunkIds(cm) /\ c \in Nat /\ c >= io.next /\ cm.chunks[c].dirty
      /\ \A k \in ChunkIds(cm) : k >= io.next /\ k < c => ~cm.chunks[k].dirty
  BY <1>1, <1>2, DirtyFromLeast
<1> HIDE DEF c
<1>4. cm.chunks[c] \in Chunk
  BY <1>1, <1>3, ChunkTyped
<1>5. /\ disk'.exists = disk.exists
      /\ DOMAIN disk'.sections = DOMAIN disk.sections \cup 0 .. c
      /\ disk'.sections[c].header = Header(c, cm.chunks[c].used_slots, cm.chunks[c].tombstones)
      /\ \A k \in DOMAIN disk.sections : k # c => disk'.sections[k] = disk.sections[k]
  <2> DEFINE chunk == cm.chunks[c]
             new == WithHeader(disk, c, chunk)
  <2>1. disk' = new /\ chunk \in Chunk
    BY <1>2, <1>4
  <2> HIDE DEF chunk
  <2>2. IsFile(disk) /\ c \in Nat /\ chunk \in Chunk
    BY <1>1, <1>3, <2>1
  <2>3. new.exists = disk.exists
    BY ONLY <2>2, WithHeaderTyped
  <2>4. DOMAIN new.sections = DOMAIN disk.sections \cup 0 .. c
    BY ONLY <2>2, WithHeaderTyped
  <2>5. new.sections[c].header = Header(c, chunk.used_slots, chunk.tombstones)
    BY ONLY <2>2, WithHeaderTyped
  <2>6. \A k \in DOMAIN disk.sections : k # c => new.sections[k] = disk.sections[k]
    BY ONLY <2>2, WithHeaderTyped
  <2> HIDE DEF new
  <2> QED
    BY <2>1, <2>3, <2>4, <2>5, <2>6 DEF chunk
<1>6. io'.pc = "save_records" /\ io'.next = c
  BY <1>1, <1>2 DEF IoType
<1>7. ASSUME NEW k \in ChunkIds(cm), ~cm.chunks[k].dirty \/ k < c
      PROVE  SectionHolds(disk', k, cm.chunks[k])
  <2>1. k # c /\ k \in Nat
    BY <1>3, <1>7 DEF ChunkIds
  <2>2. Settled(k)
    BY <1>1, <1>3, <1>7, <2>1 DEF Settled, At
  <2>3. SectionHolds(disk, k, cm.chunks[k])
    BY <1>1, <2>2 DEF SaveSound
  <2>4. k \in DOMAIN disk.sections
    BY <2>3 DEF SectionHolds
  <2>5. k \in DOMAIN disk'.sections /\ disk'.sections[k] = disk.sections[k]
    BY <1>5, <2>1, <2>4
  <2> QED
    BY <2>3, <2>5, HoldsStays
<1>8. HeaderWritten'
  BY <1>2, <1>3, <1>5, <1>6 DEF HeaderWritten
<1>9. \A k \in ChunkIds(cm)' : Settled(k)' => SectionHolds(disk, k, cm.chunks[k])'
  BY <1>2, <1>6, <1>7 DEF Settled, At, ChunkIds, SectionHolds
<1> QED
  BY <1>1, <1>2, <1>5, <1>6, <1>8, <1>9 DEF SaveSound, At

(* A cut write disturbs the section of a dirty chunk only.                   *)
LEMMA WriteSomeRecordsSound ==
  ASSUME TInv, SaveSound, WriteSomeRecords
  PROVE  SaveSound'
<1> DEFINE c == io.next
<1>1. /\ running /\ disk.exists /\ At("save_records") /\ HeaderWritten
      /\ IsFile(disk) /\ IsChunkManager(cm)
      /\ c \in ChunkIds(cm) /\ c \in DOMAIN disk.sections
  BY DEF WriteSomeRecords, TInv, TypeOK, IoSound, At, SaveSound
<1>2. /\ disk.sections[c].records # NoRecords
      /\ UNCHANGED <<running, cm, io>>
  BY DEF WriteSomeRecords
<1>3. PICK n \in 1 .. ChunkCapacity - 1 : disk' = WithSomeRecords(disk, c, cm.chunks[c], n)
  BY DEF WriteSomeRecords
<1>4. cm.chunks[c] \in Chunk /\ n \in Nat
  BY <1>1, ChunkTyped, CapacityAssumption
<1> HIDE DEF c
<1>5. /\ disk'.exists = disk.exists
      /\ DOMAIN disk'.sections = DOMAIN disk.sections
      /\ disk'.sections[c].header = disk.sections[c].header
      /\ \A k \in DOMAIN disk.sections : k # c => disk'.sections[k] = disk.sections[k]
  <2> DEFINE chunk == cm.chunks[c]
             new == WithSomeRecords(disk, c, chunk, n)
  <2>1. disk' = new /\ chunk \in Chunk
    BY <1>3, <1>4
  <2> HIDE DEF chunk
  <2>2. IsFile(disk) /\ c \in DOMAIN disk.sections /\ chunk \in Chunk
        /\ n \in Nat /\ disk.sections[c].records # NoRecords
    BY <1>1, <1>2, <1>4, <2>1
  <2>3. new.exists = disk.exists
    BY ONLY <2>2, WithSomeRecordsTyped
  <2>4. DOMAIN new.sections = DOMAIN disk.sections
    BY ONLY <2>2, WithSomeRecordsTyped
  <2>5. new.sections[c].header = disk.sections[c].header
    BY ONLY <2>2, WithSomeRecordsTyped
  <2>6. \A k \in DOMAIN disk.sections : k # c => new.sections[k] = disk.sections[k]
    BY ONLY <2>2, WithSomeRecordsTyped
  <2> HIDE DEF new
  <2> QED
    BY <2>1, <2>3, <2>4, <2>5, <2>6 DEF chunk
<1>6. ASSUME NEW k \in ChunkIds(cm), Settled(k)
      PROVE  SectionHolds(disk', k, cm.chunks[k])
  <2>1. k # c
    <3>1. cm.chunks[c].dirty /\ c \in Nat
      BY <1>1 DEF HeaderWritten, c, ChunkIds
    <3> QED
      BY <1>1, <1>6, <3>1 DEF Settled, At, c
  <2>2. SectionHolds(disk, k, cm.chunks[k])
    BY <1>1, <1>6 DEF SaveSound
  <2>3. k \in DOMAIN disk.sections
    BY <2>2 DEF SectionHolds
  <2> QED
    BY <1>5, <2>1, <2>2, <2>3, HoldsStays
<1>7. HeaderWritten'
  BY <1>1, <1>2, <1>5 DEF HeaderWritten, c
<1>8. \A k \in ChunkIds(cm)' : Settled(k)' => SectionHolds(disk, k, cm.chunks[k])'
  BY <1>2, <1>6 DEF Settled, At, ChunkIds, SectionHolds
<1> QED
  BY <1>1, <1>2, <1>5, <1>7, <1>8 DEF SaveSound, At

(* With its records written the file holds the chunk that the save is at.    *)
LEMMA WriteRecordsSound ==
  ASSUME TInv, SaveSound, WriteRecords
  PROVE  SaveSound'
<1> DEFINE c == io.next
<1>1. /\ running /\ disk.exists /\ At("save_records") /\ HeaderWritten
      /\ IsFile(disk) /\ IsChunkManager(cm) /\ io \in IoType
      /\ c \in ChunkIds(cm) /\ c \in DOMAIN disk.sections /\ c \in Nat
  BY DEF WriteRecords, TInv, TypeOK, IoSound, IoType, At, SaveSound
<1>2. /\ disk' = WithRecords(disk, c, cm.chunks[c])
      /\ io' = [io EXCEPT !.pc = "save", !.next = c + 1]
      /\ UNCHANGED <<running, cm>>
  BY DEF WriteRecords
<1>3. cm.chunks[c] \in Chunk /\ cm.chunks[c].records \in [Slots -> SlotRecord \cup {ZeroRecord}]
  BY <1>1, ChunkTyped
<1>4. io'.pc = "save" /\ io'.next = c + 1
  BY <1>1, <1>2 DEF IoType
<1> HIDE DEF c
<1>5. /\ disk'.exists = disk.exists
      /\ DOMAIN disk'.sections = DOMAIN disk.sections
      /\ disk'.sections[c].header = disk.sections[c].header
      /\ disk'.sections[c].records = cm.chunks[c].records
      /\ \A k \in DOMAIN disk.sections : k # c => disk'.sections[k] = disk.sections[k]
  <2> DEFINE chunk == cm.chunks[c]
             new == WithRecords(disk, c, chunk)
  <2>1. disk' = new /\ chunk \in Chunk
    BY <1>2, <1>3
  <2> HIDE DEF chunk
  <2>2. IsFile(disk) /\ c \in DOMAIN disk.sections /\ chunk \in Chunk
    BY <1>1, <2>1
  <2>3. new.exists = disk.exists
    BY ONLY <2>2, WithRecordsTyped
  <2>4. DOMAIN new.sections = DOMAIN disk.sections
    BY ONLY <2>2, WithRecordsTyped
  <2>5. new.sections[c].header = disk.sections[c].header
    BY ONLY <2>2, WithRecordsTyped
  <2>6. \A k \in DOMAIN disk.sections : k # c => new.sections[k] = disk.sections[k]
    BY ONLY <2>2, WithRecordsTyped
  <2>7. new.sections[c].records = chunk.records
    BY ONLY <2>2, WithRecordsTyped
  <2> HIDE DEF new
  <2> QED
    BY <2>1, <2>3, <2>4, <2>5, <2>6, <2>7 DEF chunk
<1>6. SectionHolds(disk', c, cm.chunks[c])
  <2>1. disk'.sections[c].header = Header(c, cm.chunks[c].used_slots, cm.chunks[c].tombstones)
    BY <1>1, <1>5 DEF HeaderWritten, c
  <2>2. disk'.sections[c].records # NoRecords
    BY <1>3, <1>5, CutAssumption
  <2> QED
    BY <1>1, <1>5, <2>1, <2>2 DEF SectionHolds
<1>7. ASSUME NEW k \in ChunkIds(cm), ~cm.chunks[k].dirty \/ k < c + 1
      PROVE  SectionHolds(disk', k, cm.chunks[k])
  <2>1. CASE k = c
    BY <1>6, <2>1
  <2>2. CASE k # c
    <3>1. k < c \/ ~cm.chunks[k].dirty
      BY <1>1, <1>7, <2>2 DEF ChunkIds
    <3>2. Settled(k)
      BY <1>1, <3>1 DEF Settled, At, c
    <3>3. SectionHolds(disk, k, cm.chunks[k])
      BY <1>1, <3>2 DEF SaveSound
    <3>4. k \in DOMAIN disk.sections
      BY <3>3 DEF SectionHolds
    <3> QED
      BY <1>5, <2>2, <3>3, <3>4, HoldsStays
  <2> QED
    BY <2>1, <2>2
<1>8. \A k \in ChunkIds(cm)' : Settled(k)' => SectionHolds(disk, k, cm.chunks[k])'
  BY <1>2, <1>4, <1>7 DEF Settled, At, ChunkIds, SectionHolds
<1> QED
  BY <1>1, <1>2, <1>4, <1>5, <1>8 DEF SaveSound, At

(* When no dirty chunk is left, the file holds them all.                     *)
LEMMA WriteSuperblockSound ==
  ASSUME TInv, SaveSound, WriteSuperblock
  PROVE  SaveSound'
<1>1. /\ running /\ disk.exists /\ At("save")
      /\ IsFile(disk) /\ IsChunkManager(cm) /\ io \in IoType /\ io.next \in Nat
  BY DEF WriteSuperblock, TInv, TypeOK, IoSound, IoType, At, SaveSound
<1>2. /\ DirtyFrom(io.next) = {}
      /\ disk' = [disk EXCEPT !.superblock = Superblock(cm)]
      /\ io' = [io EXCEPT !.pc = "save_end"]
      /\ UNCHANGED <<running, cm>>
  BY DEF WriteSuperblock, Goto
<1>3. disk'.exists = disk.exists /\ disk'.sections = disk.sections
  BY <1>1, <1>2, SuperblockChanged
<1>4. io'.pc = "save_end"
  BY <1>1, <1>2 DEF IoType
<1>5. ASSUME NEW k \in ChunkIds(cm)
      PROVE  SectionHolds(disk', k, cm.chunks[k])
  <2>1. k \in Nat
    BY DEF ChunkIds
  <2>2. ~cm.chunks[k].dirty \/ k < io.next
    BY <1>1, <1>2, <2>1 DEF DirtyFrom
  <2>3. Settled(k)
    BY <1>1, <2>2 DEF Settled, At
  <2>4. SectionHolds(disk, k, cm.chunks[k])
    BY <1>1, <2>3 DEF SaveSound
  <2> QED
    BY <1>3, <2>4 DEF SectionHolds
<1>6. \A k \in ChunkIds(cm)' : SectionHolds(disk, k, cm.chunks[k])'
  BY <1>2, <1>5 DEF ChunkIds, SectionHolds
<1> QED
  BY <1>1, <1>2, <1>3, <1>4, <1>6 DEF SaveSound, At

(* So they may be marked clean.                                              *)
LEMMA FinishSaveSound ==
  ASSUME TInv, SaveSound, FinishSave
  PROVE  SaveSound'
<1>1. running /\ disk.exists /\ At("save_end") /\ IsChunkManager(cm)
  BY DEF FinishSave, TInv, TypeOK, IoSound, At, SaveSound
<1>2. cm' = MarkChunksClean(cm) /\ io' = IdleIo /\ UNCHANGED <<running, disk>>
  BY DEF FinishSave, Return
<1>3. \A k \in ChunkIds(cm) : SectionHolds(disk, k, cm.chunks[k])
  BY <1>1 DEF SaveSound, Settled
<1>4. ChunkIds(cm)' = ChunkIds(cm)
      /\ \A k \in ChunkIds(cm) : /\ cm'.chunks[k].records = cm.chunks[k].records
                                 /\ cm'.chunks[k].used_slots = cm.chunks[k].used_slots
                                 /\ cm'.chunks[k].tombstones = cm.chunks[k].tombstones
  BY <1>1, <1>2, MarkChunksCleanTouches
<1>5. ASSUME NEW k \in ChunkIds(cm)
      PROVE  SectionHolds(disk, k, cm'.chunks[k])
  BY <1>3, <1>4, HoldsUnflagged
<1>6. \A k \in ChunkIds(cm)' : SectionHolds(disk, k, cm.chunks[k])'
  BY <1>2, <1>4, <1>5 DEF SectionHolds
<1>7. io'.pc = "idle"
  BY <1>2 DEF IdleIo
<1> QED
  BY <1>1, <1>2, <1>6, <1>7 DEF SaveSound, At

(* A save that fails keeps the flags of the chunks it did not get to, and    *)
(* of those that it did.                                                     *)
LEMMA FailSaveSound ==
  ASSUME SaveSound, FailSave
  PROVE  SaveSound'
<1>1. UNCHANGED <<running, cm, disk>> /\ io' = IdleIo
  BY DEF FailSave, Return
<1>2. io'.pc = "idle"
  BY <1>1 DEF IdleIo
<1>3. \A k \in ChunkIds(cm)' : Settled(k)' => Settled(k)
  BY <1>1, <1>2 DEF Settled, At, ChunkIds
<1> QED
  BY <1>1, <1>2, <1>3 DEF SaveSound, At, ChunkIds

(* A boot makes the chunks what the file holds.                              *)
LEMMA LoadSound ==
  ASSUME TInv, Load
  PROVE  SaveSound'
<1>1. cm' = Loaded(disk) /\ disk' = disk /\ io' = IdleIo /\ Loadable(disk) /\ IsFile(disk)
  BY DEF Load, Return, Bootable, TInv, TypeOK
<1>2. disk'.exists /\ io'.pc = "idle"
  BY <1>1 DEF Loadable, IdleIo
<1>3. \A k \in ChunkIds(Loaded(disk)) : SectionHolds(disk, k, Loaded(disk).chunks[k])
  BY <1>1, LoadedTyped
<1> HIDE DEF Loaded
<1>4. \A k \in ChunkIds(cm)' : SectionHolds(disk, k, cm.chunks[k])'
  BY <1>1, <1>3 DEF SectionHolds, ChunkIds
<1> QED
  BY <1>2, <1>4 DEF SaveSound, At

(* Calls in memory make every chunk dirty that they change.                  *)
LEMMA ChangeSound ==
  ASSUME SaveSound, CleanUntouched(cm', cm), UNCHANGED <<running, disk, io>>, Changing
  PROVE  SaveSound'
<1>1. running /\ At("idle")
  BY DEF Changing
<1>2. ASSUME NEW k \in ChunkIds(cm'), ~cm'.chunks[k].dirty
      PROVE  SectionHolds(disk, k, cm'.chunks[k])
  <2>1. k \in ChunkIds(cm) /\ cm'.chunks[k] = cm.chunks[k]
    BY <1>2 DEF CleanUntouched
  <2> QED
    BY <1>1, <1>2, <2>1 DEF SaveSound, Settled
<1>3. \A k \in ChunkIds(cm)' : Settled(k)' => SectionHolds(disk, k, cm.chunks[k])'
  BY <1>1, <1>2 DEF Settled, At, ChunkIds, SectionHolds
<1> QED
  BY <1>1, <1>3 DEF SaveSound, At

(* Every action keeps what the file holds of the settled chunks, where the   *)
(* file opens.                                                               *)
THEOREM NextSettled ==
  ASSUME "open" \notin Faults
  PROVE  TInv /\ SaveSound /\ [Next]_vars => SaveSound'
<1> SUFFICES ASSUME TInv, SaveSound, [Next]_vars PROVE SaveSound'
  OBVIOUS
<1>1. CASE UNCHANGED vars
  BY <1>1, SaveSoundUnchanged DEF vars
<1>2. CASE BeginSave \/ BeginSaveByCreating
  BY <1>2, BeginSaveSound
<1>3. CASE WriteHeader \/ WriteSomeRecords \/ WriteRecords \/ WriteSuperblock \/ FinishSave \/ FailSave
  BY <1>3, WriteHeaderSound, WriteSomeRecordsSound, WriteRecordsSound, WriteSuperblockSound,
     FinishSaveSound, FailSaveSound
<1>4. CASE Load
  BY <1>4, LoadSound
<1>5. CASE \/ \E batch \in Batches : Insert(batch)
           \/ \E loc \in Reachable(cm) : Delete(loc) \/ \E gpa \in Gpas : UpdateGpa(loc, gpa)
  BY <1>5, ChangeTyped, ChangeSound
<1>6. CASE Stop
  BY <1>6 DEF Stop, SaveSound
<1>7. CASE \/ TruncateFile \/ WriteEmptySuperblock \/ FailCreate
           \/ BootWithoutStats \/ BootWithStats \/ FailBoot
           \/ Compact \/ FailCompact \/ RemoveOld \/ RenameTemporary \/ FailRename
           \/ LoadByCreating \/ RefuseLoad
  <2>1. running' = running
    BY <1>7 DEF TruncateFile, WriteEmptySuperblock, FailCreate, BootWithoutStats, BootWithStats,
                FailBoot, Compact, FailCompact, RemoveOld, RenameTemporary, FailRename,
                LoadByCreating, RefuseLoad
  <2>2. ~running
    <3>1. \/ ~running
          \/ io.pc \in {"create", "create_write", "compact", "remove", "rename", "load"}
      BY <1>7 DEF TruncateFile, WriteEmptySuperblock, FailCreate, BootWithoutStats, BootWithStats,
                  FailBoot, Compact, FailCompact, RemoveOld, RenameTemporary, FailRename,
                  LoadByCreating, RefuseLoad, At
    <3> QED
      BY <3>1 DEF SaveSound
  <2> QED
    BY <2>1, <2>2 DEF SaveSound
<1> QED
  BY <1>1, <1>2, <1>3, <1>4, <1>5, <1>6, <1>7 DEF Next

(* The file holds the settled chunks in every state, where it can always be  *)
(* opened.                                                                   *)
THEOREM Settlement ==
  ASSUME "open" \notin Faults
  PROVE  Spec => [](TInv /\ SaveSound)
<1>1. Init => SaveSound
  BY DEF Init, SaveSound
<1>2. TInv /\ SaveSound /\ [Next]_vars => SaveSound'
  BY NextSettled
<1> QED
  BY <1>1, <1>2, InitTyped, NextTyped, PTL DEF Spec

(* As long as the existing file can be opened, a chunk that is not marked    *)
(* dirty is on disk as it is in memory: at every step of every save, after   *)
(* saves that failed, were retried or cut short by an earlier process.       *)
THEOREM CleanIsOnDisk ==
  ASSUME "open" \notin Faults
  PROVE  Spec => []CleanChunksAreOnDisk
<1>1. SaveSound => CleanChunksAreOnDisk
  BY DEF SaveSound, Settled, CleanChunksAreOnDisk
<1>2. Spec => [](TInv /\ SaveSound)
  BY Settlement
<1> QED
  BY <1>1, <1>2, PTL
-----------------------------------------------------------------------------
(* Sums over the chunks *)

(* What the loop adds up.                                                    *)
LEMMA SumMeaning ==
  ASSUME NEW n \in Nat, NEW local, \A k \in 0 .. n - 1 : local[k] \in Int
  PROVE  \E sum \in [0 .. n -> Int] :
           /\ sum[0] = 0
           /\ \A k \in 1 .. n : sum[k] = sum[k - 1] + local[k - 1]
           /\ SumOf(local, n) = sum[n]
<1> DEFINE step == [x \in (1 .. n) \X Int |-> x[2] + local[x[1] - 1]]
           Is(g) == g = [k \in 0 .. n |-> IF k = 0 THEN 0 ELSE g[k - 1] + local[k - 1]]
           sum == CHOOSE g : Is(g)
<1>1. step \in StepsOn(Int, n) /\ 0 \in Int
  <2>1. \A x \in (1 .. n) \X Int : x[2] \in Int /\ local[x[1] - 1] \in Int
    <3>1. \A k \in 1 .. n : k - 1 \in 0 .. n - 1
      OBVIOUS
    <3> QED
      BY <3>1
  <2> QED
    BY <2>1 DEF StepsOn
<1>2. PICK f \in [0 .. n -> Int] : Follows(f, n, 0, step)
  <2> HIDE DEF step, sum, Is
  <2> QED
    BY ONLY <1>1, n \in Nat, Recursion
<1>3. Is(f)
  <2>1. ASSUME NEW k \in 0 .. n
        PROVE  f[k] = IF k = 0 THEN 0 ELSE f[k - 1] + local[k - 1]
    <3>1. k # 0 => k \in 1 .. n /\ f[k - 1] \in Int
      OBVIOUS
    <3> QED
      BY <1>2, <3>1 DEF Follows
  <2> QED
    BY <2>1
<1>4. Is(sum)
  BY ONLY <1>3
<1>5. SumOf(local, n) = sum[n]
  BY DEF SumOf
<1> HIDE DEF sum
<1>6. \A k \in 0 .. n : sum[k] = IF k = 0 THEN 0 ELSE sum[k - 1] + local[k - 1]
  BY ONLY <1>4
<1>7. sum = [k \in 0 .. n |-> sum[k]]
  BY ONLY <1>4
<1> HIDE DEF Is, step
<1>8. sum[0] = 0 /\ \A k \in 1 .. n : sum[k] = sum[k - 1] + local[k - 1]
  BY <1>6
<1> DEFINE T == {k \in 0 .. n : sum[k] \in Int}
<1>9. 0 .. n \subseteq T
  <2>1. 0 \in T
    BY <1>8
  <2>2. ASSUME NEW k \in 1 .. n, k - 1 \in T
        PROVE  k \in T
    <3>1. local[k - 1] \in Int
      OBVIOUS
    <3> QED
      BY <1>8, <2>2, <3>1
  <2> HIDE DEF T
  <2> QED
    BY <2>1, <2>2, Reaches
<1>10. sum \in [0 .. n -> Int]
  BY <1>7, <1>9
<1> QED
  BY <1>5, <1>8, <1>10

(* The gap between two sums grows with each pair of terms.                   *)
LEMMA GapGrows ==
  ASSUME NEW below \in Int, NEW above \in Int, NEW less \in Int, NEW more \in Int, less <= more,
         NEW below1, NEW above1, below1 = below + less, above1 = above + more
  PROVE  /\ above - below \in Int /\ above1 - below1 \in Int
         /\ above - below <= above1 - below1
OBVIOUS

(* It is at least the gap between the last pair of terms.                    *)
LEMMA LastGap ==
  ASSUME NEW below \in Int, NEW above \in Int, NEW less \in Int, NEW more \in Int, below <= above,
         NEW below1, NEW above1, below1 = below + less, above1 = above + more
  PROVE  more - less <= above1 - below1
OBVIOUS

(* Sums of the same numbers, and of numbers none of which is smaller.        *)
LEMMA SumSqueeze ==
  ASSUME NEW n \in Nat, NEW a, NEW b,
         \A k \in 0 .. n - 1 : a[k] \in Int /\ b[k] \in Int /\ a[k] <= b[k],
         SumOf(a, n) = SumOf(b, n)
  PROVE  \A k \in 0 .. n - 1 : a[k] = b[k]
<1>1. PICK s \in [0 .. n -> Int] : /\ s[0] = 0
                                   /\ \A k \in 1 .. n : s[k] = s[k - 1] + a[k - 1]
                                   /\ SumOf(a, n) = s[n]
  BY SumMeaning
<1>2. PICK t \in [0 .. n -> Int] : /\ t[0] = 0
                                   /\ \A k \in 1 .. n : t[k] = t[k - 1] + b[k - 1]
                                   /\ SumOf(b, n) = t[n]
  BY SumMeaning
<1> DEFINE T == {k \in 0 .. n : /\ s[k] <= t[k]
                                /\ \A j \in 0 .. k - 1 : b[j] - a[j] <= t[k] - s[k]}
<1>3. 0 \in T
  BY <1>1, <1>2
<1>4. ASSUME NEW k \in 1 .. n, k - 1 \in T
      PROVE  k \in T
  <2>1. k - 1 \in 0 .. n - 1 /\ k \in 0 .. n /\ k - 1 \in 0 .. n
    OBVIOUS
  <2>2. s[k] = s[k - 1] + a[k - 1] /\ t[k] = t[k - 1] + b[k - 1]
    BY <1>1, <1>2
  <2>3. a[k - 1] \in Int /\ b[k - 1] \in Int /\ a[k - 1] <= b[k - 1]
        /\ s[k - 1] \in Int /\ t[k - 1] \in Int /\ s[k] \in Int /\ t[k] \in Int
    BY <2>1
  <2>4. s[k - 1] <= t[k - 1]
        /\ \A j \in 0 .. (k - 1) - 1 : b[j] - a[j] <= t[k - 1] - s[k - 1]
    BY <1>4
  <2>5. ASSUME NEW j \in 0 .. k - 1
        PROVE  b[j] - a[j] <= t[k] - s[k]
    <3>1. CASE j = k - 1
      <4>1. /\ s[k] = s[k - 1] + a[j] /\ t[k] = t[k - 1] + b[j]
            /\ a[j] \in Int /\ b[j] \in Int
        BY <2>2, <2>3, <3>1
      <4> QED
        BY <2>3, <2>4, <4>1, LastGap
    <3>2. CASE j # k - 1
      <4>1. j \in 0 .. (k - 1) - 1 /\ j \in 0 .. n - 1
        BY <3>2
      <4>2. a[j] \in Int /\ b[j] \in Int /\ b[j] - a[j] <= t[k - 1] - s[k - 1]
        BY <2>4, <4>1
      <4> DEFINE was == t[k - 1] - s[k - 1]
                 is == t[k] - s[k]
      <4>3. was \in Int /\ is \in Int /\ was <= is
        BY <2>2, <2>3, GapGrows
      <4>4. b[j] - a[j] <= was
        BY <4>2
      <4>5. b[j] - a[j] \in Int
        BY <4>2
      <4> HIDE DEF was, is
      <4>6. b[j] - a[j] <= is
        BY <4>3, <4>4, <4>5
      <4> QED
        BY <4>6 DEF is
    <3> QED
      BY <3>1, <3>2
  <2>6. s[k] <= t[k]
    BY <2>2, <2>3, <2>4
  <2> QED
    BY <2>1, <2>5, <2>6
<1>5. n \in T
  <2> HIDE DEF T
  <2>1. 0 .. n \subseteq T
    BY <1>3, <1>4, Reaches
  <2> QED
    BY <2>1
<1>6. ASSUME NEW j \in 0 .. n - 1
      PROVE  a[j] = b[j]
  <2>1. b[j] - a[j] <= t[n] - s[n] /\ t[n] = s[n] /\ s[n] \in Int
    BY <1>1, <1>2, <1>5
  <2>2. a[j] \in Int /\ b[j] \in Int /\ a[j] <= b[j]
    OBVIOUS
  <2> QED
    BY <2>1, <2>2
<1> QED
  BY <1>6

(* Counting locations chunk by chunk counts them all.                        *)
LEMMA CountedByChunks ==
  ASSUME NEW n \in Nat, NEW X, X \subseteq [chunk_id : 0 .. n - 1, slot_index : Slots],
         NEW local,
         \A c \in 0 .. n - 1 : local[c] = Cardinality({s \in Slots : LocationOf(c, s) \in X})
  PROVE  IsFiniteSet(X) /\ Cardinality(X) = SumOf(local, n)
<1> DEFINE Of(c) == {x \in X : x.chunk_id = c}
           Below(k) == {x \in X : x.chunk_id < k}
<1>1. ASSUME NEW c \in 0 .. n - 1
      PROVE  IsFiniteSet(Of(c)) /\ Cardinality(Of(c)) = local[c] /\ local[c] \in Nat
  <2> DEFINE S == {s \in Slots : LocationOf(c, s) \in X}
             f == [s \in S |-> LocationOf(c, s)]
  <2>1. IsFiniteSet(Slots) /\ S \in SUBSET Slots
    BY FS_Interval, CapacityAssumption DEF Slots
  <2>2. IsFiniteSet(S)
    BY <2>1, FS_Subset
  <2>3. f \in [S -> Of(c)]
    BY DEF LocationOf
  <2>4. \A a, b \in S : f[a] = f[b] => a = b
    BY DEF LocationOf
  <2>5. \A x \in Of(c) : \E s \in S : f[s] = x
    <3> SUFFICES ASSUME NEW x \in Of(c) PROVE \E s \in S : f[s] = x
      OBVIOUS
    <3>1. x \in [chunk_id : 0 .. n - 1, slot_index : Slots] /\ x.chunk_id = c /\ x \in X
      OBVIOUS
    <3>2. x = LocationOf(c, x.slot_index) /\ x.slot_index \in Slots
      BY <3>1 DEF LocationOf
    <3>3. x.slot_index \in S
      BY <3>1, <3>2
    <3> QED
      BY <3>2, <3>3
  <2> HIDE DEF f, Of
  <2>6. f \in Bijection(S, Of(c))
    BY <2>3, <2>4, <2>5 DEF Bijection, Injection, Surjection, IsInjective
  <2>7. IsFiniteSet(Of(c)) /\ Cardinality(Of(c)) = Cardinality(S)
    BY <2>2, <2>6, FS_Bijection DEF ExistsBijection
  <2> QED
    BY <2>2, <2>7, FS_CardinalityType
<1>2. \A k \in 0 .. n - 1 : local[k] \in Int
  <2> HIDE DEF Of
  <2> QED
    BY <1>1
<1>3. PICK sum \in [0 .. n -> Int] : /\ sum[0] = 0
                                     /\ \A k \in 1 .. n : sum[k] = sum[k - 1] + local[k - 1]
                                     /\ SumOf(local, n) = sum[n]
  BY <1>2, SumMeaning
<1> DEFINE T == {k \in 0 .. n : IsFiniteSet(Below(k)) /\ Cardinality(Below(k)) = sum[k]}
<1>4. \A x \in X : x.chunk_id \in 0 .. n - 1
  OBVIOUS
<1>5. 0 \in T
  <2>1. Below(0) = {}
    BY <1>4
  <2> HIDE DEF Below
  <2>2. IsFiniteSet(Below(0)) /\ Cardinality(Below(0)) = 0
    BY ONLY <2>1, FS_EmptySet
  <2> QED
    BY <1>3, <2>2
<1>6. ASSUME NEW k \in 1 .. n, k - 1 \in T
      PROVE  k \in T
  <2>1. Below(k) = Below(k - 1) \cup Of(k - 1) /\ Below(k - 1) \cap Of(k - 1) = {}
    BY <1>4
  <2>2. IsFiniteSet(Below(k - 1)) /\ Cardinality(Below(k - 1)) = sum[k - 1]
    BY <1>6
  <2>3. k - 1 \in 0 .. n - 1 /\ k \in 0 .. n /\ k - 1 \in 0 .. n
    OBVIOUS
  <2>4. IsFiniteSet(Of(k - 1)) /\ Cardinality(Of(k - 1)) = local[k - 1] /\ local[k - 1] \in Nat
    BY <1>1, <2>3
  <2> HIDE DEF Below, Of
  <2>5. IsFiniteSet(Below(k))
        /\ Cardinality(Below(k)) = Cardinality(Below(k - 1)) + Cardinality(Of(k - 1)) - Cardinality({})
    <3> DEFINE a == Below(k - 1)
               b == Of(k - 1)
    <3>1. IsFiniteSet(a) /\ IsFiniteSet(b)
      BY <2>2, <2>4
    <3>2. IsFiniteSet(a \cup b) /\ Cardinality(a \cup b) = Cardinality(a) + Cardinality(b) - Cardinality(a \cap b)
      <4> HIDE DEF a, b
      <4> QED
        BY ONLY <3>1, FS_Union
    <3> QED
      BY <2>1, <3>2
  <2>6. sum[k] = sum[k - 1] + local[k - 1] /\ sum[k - 1] \in Int
    BY <1>3, <2>3
  <2> QED
    BY <2>2, <2>3, <2>4, <2>5, <2>6, FS_EmptySet
<1>7. n \in T
  <2> HIDE DEF T
  <2>1. 0 .. n \subseteq T
    BY <1>5, <1>6, Reaches
  <2> QED
    BY <2>1
<1>8. Below(n) = X
  BY <1>4
<1> HIDE DEF Below, Of
<1> QED
  BY <1>3, <1>7, <1>8

(* The slots in use of a manager, added up.                                  *)
LEMMA UsedIsSum ==
  ASSUME NEW manager, IsChunkManager(manager)
  PROVE  Cardinality(UsedLocations(manager))
           = SumOf([c \in ChunkIds(manager) |-> manager.chunks[c].used_slots], manager.chunk_count)
<1> DEFINE n == manager.chunk_count
           local == [c \in ChunkIds(manager) |-> manager.chunks[c].used_slots]
           X == UsedLocations(manager)
<1>1. n \in Nat /\ ChunkIds(manager) = 0 .. n - 1
  BY DEF IsChunkManager, ChunkIds
<1>2. X \subseteq [chunk_id : 0 .. n - 1, slot_index : Slots]
  BY <1>1 DEF UsedLocations
<1>3. ASSUME NEW c \in 0 .. n - 1
      PROVE  local[c] = Cardinality({s \in Slots : LocationOf(c, s) \in X})
  <2>1. manager.chunks[c].used_slots \in 0 .. ChunkCapacity
    BY <1>1, ChunkTyped
  <2>2. \A s \in Slots : LocationOf(c, s) \in X <=> s < manager.chunks[c].used_slots
    BY <1>1 DEF UsedLocations, Resolves, LocationOf
  <2>3. {s \in Slots : LocationOf(c, s) \in X} = 0 .. manager.chunks[c].used_slots - 1
    BY <2>1, <2>2, CapacityAssumption DEF Slots
  <2>4. \A u \in Nat : Cardinality(0 .. u - 1) = u
    BY FirstNumbers
  <2>5. manager.chunks[c].used_slots \in Nat /\ local[c] = manager.chunks[c].used_slots
    BY <1>1, <2>1, CapacityAssumption
  <2> HIDE DEF local, X
  <2> QED
    BY <2>3, <2>4, <2>5
<1> HIDE DEF local, X
<1>4. Cardinality(X) = SumOf(local, n)
  BY <1>1, <1>2, <1>3, CountedByChunks
<1> QED
  BY <1>4 DEF local, X

(* The tombstones of a manager whose chunks count theirs, added up.          *)
LEMMA TombstonesAreSum ==
  ASSUME NEW manager, IsChunkManager(manager),
         \A c \in ChunkIds(manager) :
           manager.chunks[c].tombstones = Cardinality(TombstoneSlots(manager, c))
  PROVE  Cardinality(Tombstones(manager))
           = SumOf([c \in ChunkIds(manager) |-> manager.chunks[c].tombstones], manager.chunk_count)
<1> DEFINE n == manager.chunk_count
           local == [c \in ChunkIds(manager) |-> manager.chunks[c].tombstones]
           X == Tombstones(manager)
<1>1. n \in Nat /\ ChunkIds(manager) = 0 .. n - 1
  BY DEF IsChunkManager, ChunkIds
<1>2. X \subseteq [chunk_id : 0 .. n - 1, slot_index : Slots]
  BY <1>1 DEF UsedLocations, Tombstones
<1>3. ASSUME NEW c \in 0 .. n - 1
      PROVE  local[c] = Cardinality({s \in Slots : LocationOf(c, s) \in X})
  BY <1>1, TombstonesOfChunk
<1> HIDE DEF local, X
<1>4. Cardinality(X) = SumOf(local, n)
  BY <1>1, <1>2, <1>3, CountedByChunks
<1> QED
  BY <1>4 DEF local, X
-----------------------------------------------------------------------------
(* Managers that are as an engine keeps them *)

(* Every live record is a valid one, under an id of its own.                 *)
LiveValid(manager) ==
  /\ \A loc \in LiveLocations(manager) : RecordAt(manager, loc) \in Record
  /\ \A a, b \in LiveLocations(manager) : RecordAt(manager, a).id = RecordAt(manager, b).id => a = b

Exact(manager) == CountersExact(manager) /\ ChunksPacked(manager)

SoundManager(manager) == IsChunkManager(manager) /\ Exact(manager) /\ LiveValid(manager)

(* Chunks and counts only grow, and a slot that was used keeps its id or is  *)
(* buried.                                                                   *)
Grown(new, old) ==
  /\ old.chunk_count <= new.chunk_count
  /\ \A c \in ChunkIds(old) :
       /\ old.chunks[c].used_slots <= new.chunks[c].used_slots
       /\ old.chunks[c].tombstones <= new.chunks[c].tombstones
       /\ \A s \in 0 .. old.chunks[c].used_slots - 1 :
            new.chunks[c].records[s].id \in {old.chunks[c].records[s].id, TombstoneId}

(* Growing once and growing again is growing.                                *)
LEMMA GrownTransitive ==
  ASSUME NEW a, IsChunkManager(a), NEW b, IsChunkManager(b), NEW c, IsChunkManager(c),
         Grown(b, a), Grown(c, b)
  PROVE  Grown(c, a)
<1>1. a.chunk_count \in Nat /\ b.chunk_count \in Nat /\ c.chunk_count \in Nat
  BY DEF IsChunkManager
<1>2. a.chunk_count <= c.chunk_count /\ ChunkIds(a) \subseteq ChunkIds(b) /\ ChunkIds(b) \subseteq ChunkIds(c)
  <2>1. a.chunk_count <= b.chunk_count /\ b.chunk_count <= c.chunk_count
    BY DEF Grown
  <2> QED
    BY <1>1, <2>1 DEF ChunkIds
<1>3. ASSUME NEW k \in ChunkIds(a)
      PROVE  /\ a.chunks[k].used_slots <= c.chunks[k].used_slots
             /\ a.chunks[k].tombstones <= c.chunks[k].tombstones
             /\ \A s \in 0 .. a.chunks[k].used_slots - 1 :
                  c.chunks[k].records[s].id \in {a.chunks[k].records[s].id, TombstoneId}
  <2>1. /\ a.chunks[k].used_slots \in Nat /\ b.chunks[k].used_slots \in Nat /\ c.chunks[k].used_slots \in Nat
        /\ a.chunks[k].tombstones \in Nat /\ b.chunks[k].tombstones \in Nat /\ c.chunks[k].tombstones \in Nat
    BY <1>2, ChunkTyped
  <2>2. /\ a.chunks[k].used_slots <= b.chunks[k].used_slots
        /\ a.chunks[k].tombstones <= b.chunks[k].tombstones
        /\ b.chunks[k].used_slots <= c.chunks[k].used_slots
        /\ b.chunks[k].tombstones <= c.chunks[k].tombstones
    BY <1>2 DEF Grown
  <2>3. ASSUME NEW s \in 0 .. a.chunks[k].used_slots - 1
        PROVE  c.chunks[k].records[s].id \in {a.chunks[k].records[s].id, TombstoneId}
    <3>1. s \in 0 .. b.chunks[k].used_slots - 1
      BY <2>1, <2>2
    <3>2. b.chunks[k].records[s].id \in {a.chunks[k].records[s].id, TombstoneId}
      BY DEF Grown
    <3>3. c.chunks[k].records[s].id \in {b.chunks[k].records[s].id, TombstoneId}
      BY <1>2, <3>1 DEF Grown
    <3> QED
      BY <3>2, <3>3
  <2>4. a.chunks[k].used_slots <= c.chunks[k].used_slots /\ a.chunks[k].tombstones <= c.chunks[k].tombstones
    BY <2>1, <2>2
  <2> QED
    BY <2>3, <2>4
<1> QED
  BY <1>2, <1>3 DEF Grown

(* What has grown has the chunks it had.                                     *)
LEMMA GrownChunks ==
  ASSUME NEW a, IsChunkManager(a), NEW b, IsChunkManager(b), Grown(b, a)
  PROVE  ChunkIds(a) \subseteq ChunkIds(b)
<1>1. a.chunk_count \in Nat /\ b.chunk_count \in Nat
  BY DEF IsChunkManager
<1>2. a.chunk_count <= b.chunk_count
  BY DEF Grown
<1> QED
  BY <1>1, <1>2 DEF ChunkIds

(* A manager has grown from one with the same chunks but for the flags.      *)
LEMMA SameIsGrown ==
  ASSUME NEW new, NEW old, IsChunkManager(old), new.chunk_count = old.chunk_count,
         \A c \in ChunkIds(old) : /\ new.chunks[c].used_slots = old.chunks[c].used_slots
                                  /\ new.chunks[c].tombstones = old.chunks[c].tombstones
                                  /\ new.chunks[c].records = old.chunks[c].records
  PROVE  Grown(new, old)
<1>1. old.chunk_count <= new.chunk_count
  BY DEF IsChunkManager
<1>2. \A c \in ChunkIds(old) : old.chunks[c].used_slots \in Nat /\ old.chunks[c].tombstones \in Nat
  BY ChunkTyped
<1>3. \A c \in ChunkIds(old) : /\ old.chunks[c].used_slots <= new.chunks[c].used_slots
                               /\ old.chunks[c].tombstones <= new.chunks[c].tombstones
  BY <1>2
<1> QED
  BY <1>1, <1>3 DEF Grown

(* What is kept where it lay, and what is changed to a tombstone, has grown. *)
LEMMA KeptIsGrown ==
  ASSUME NEW new, IsChunkManager(new), NEW old, IsChunkManager(old),
         old.chunk_count <= new.chunk_count,
         \A c \in ChunkIds(old) : /\ old.chunks[c].used_slots <= new.chunks[c].used_slots
                                  /\ old.chunks[c].tombstones <= new.chunks[c].tombstones,
         \A loc \in RecordLocation : Resolves(old, loc) =>
           RecordAt(new, loc).id \in {RecordAt(old, loc).id, TombstoneId}
  PROVE  Grown(new, old)
<1> SUFFICES ASSUME NEW c \in ChunkIds(old), NEW s \in 0 .. old.chunks[c].used_slots - 1
             PROVE  new.chunks[c].records[s].id \in {old.chunks[c].records[s].id, TombstoneId}
  BY DEF Grown
<1>1. old.chunk_count \in Nat /\ old.chunks[c].used_slots \in 0 .. ChunkCapacity
  BY ChunkTyped DEF IsChunkManager
<1>2. s \in Slots /\ c \in Nat /\ c < old.chunk_count /\ s < old.chunks[c].used_slots
  BY <1>1, CapacityAssumption DEF Slots, ChunkIds
<1>3. LocationOf(c, s) \in RecordLocation /\ Resolves(old, LocationOf(c, s))
      /\ RecordAt(new, LocationOf(c, s)) = new.chunks[c].records[s]
      /\ RecordAt(old, LocationOf(c, s)) = old.chunks[c].records[s]
  BY <1>2 DEF LocationOf, RecordLocation, Resolves, RecordAt
<1> QED
  BY <1>3

(* A chunk that counts the same as it did, both times what there is.         *)
SameExactCounts(new, old, c) ==
  /\ new.chunks[c].used_slots = old.chunks[c].used_slots
  /\ new.chunks[c].tombstones = old.chunks[c].tombstones
  /\ new.chunks[c].tombstones = Cardinality(TombstoneSlots(new, c))
  /\ old.chunks[c].tombstones = Cardinality(TombstoneSlots(old, c))

(* Counts that are exact and did not grow count the same tombstones, so that *)
(* every slot in use has the id it had.                                      *)
LEMMA EqualCounts ==
  ASSUME NEW new, NEW old, Grown(new, old), NEW c \in ChunkIds(old), IsChunkManager(old),
         SameExactCounts(new, old, c), NEW s \in Slots, s < old.chunks[c].used_slots
  PROVE  new.chunks[c].records[s].id = old.chunks[c].records[s].id
<1> DEFINE S == 0 .. old.chunks[c].used_slots - 1
           A == TombstoneSlots(old, c)
           B == TombstoneSlots(new, c)
<1>1. old.chunks[c].used_slots \in Nat
  BY ChunkTyped
<1>2. IsFiniteSet(S)
  BY <1>1, FS_Interval
<1>3. \A k \in S : new.chunks[c].records[k].id \in {old.chunks[c].records[k].id, TombstoneId}
  BY DEF Grown
<1>4. A \subseteq B /\ B \subseteq S
  BY <1>3 DEF TombstoneSlots, SameExactCounts
<1>5. Cardinality(A) = Cardinality(B) /\ new.chunks[c].used_slots = old.chunks[c].used_slots
  BY DEF SameExactCounts
<1>6. A = B
  <2> HIDE DEF A, B, S
  <2>1. IsFiniteSet(B)
    BY <1>2, <1>4, FS_Subset
  <2> QED
    BY <1>4, <1>5, <2>1, FS_Subset
<1>7. \A k \in S : (k \in A <=> old.chunks[c].records[k].id = TombstoneId)
                   /\ (k \in B <=> new.chunks[c].records[k].id = TombstoneId)
  <2>1. S = 0 .. new.chunks[c].used_slots - 1
    BY <1>5
  <2>2. ASSUME NEW k \in S
        PROVE  /\ k \in A <=> old.chunks[c].records[k].id = TombstoneId
               /\ k \in B <=> new.chunks[c].records[k].id = TombstoneId
    BY <2>1, <2>2 DEF TombstoneSlots
  <2> QED
    BY <2>2
<1>8. s \in S
  BY <1>1, CapacityAssumption DEF Slots
<1> HIDE DEF A, B
<1> QED
  BY <1>3, <1>6, <1>7, <1>8

(* An append makes one location live and leaves the others as they were.     *)
LEMMA AppendLives ==
  ASSUME NEW manager, IsChunkManager(manager), NEW record \in Record
  PROVE  LET new == AppendToTail(PrepareInsertTail(manager), record)
             loc == NextLocation(manager)
         IN /\ IsChunkManager(new)
            /\ Grown(new, manager)
            /\ LiveLocations(new) = LiveLocations(manager) \cup {loc}
            /\ loc \notin LiveLocations(manager)
            /\ RecordAt(new, loc) = record
            /\ \A other \in LiveLocations(manager) : RecordAt(new, other) = RecordAt(manager, other)
<1> DEFINE mid == PrepareInsertTail(manager)
           new == AppendToTail(mid, record)
           loc == NextLocation(manager)
<1>1. IsChunkManager(mid) /\ ~NeedsTailChunk(mid) /\ NextLocation(mid) = loc /\ Extends(mid, manager)
      /\ SameUsed(mid, manager)
  BY PrepareInsertTailExtends, PrepareInsertTailUses
<1>2. \A c \in ChunkIds(manager) : mid.chunks[c].tombstones = manager.chunks[c].tombstones
      /\ c \in ChunkIds(mid)
  <2>1. CASE ~NeedsTailChunk(manager)
    BY <2>1 DEF PrepareInsertTail
  <2>2. CASE NeedsTailChunk(manager)
    <3>1. manager.chunk_count \in Nat
      BY DEF IsChunkManager
    <3>2. manager \in [chunks           : [0 .. manager.chunk_count - 1 -> Chunk],
                       chunk_count      : Nat,
                       total_used_slots : Nat,
                       total_tombstones : Nat]
      BY DEF IsChunkManager
    <3>3. mid.chunk_count = manager.chunk_count + 1
          /\ \A c \in ChunkIds(manager) : mid.chunks[c] = manager.chunks[c]
      BY <2>2, <3>1, <3>2 DEF PrepareInsertTail, CreateEmptyTailChunk, ChunkIds
    <3> HIDE DEF mid
    <3> QED
      BY <3>1, <3>3 DEF ChunkIds
  <2> QED
    BY <2>1, <2>2
<1> HIDE DEF mid, loc
<1>3. IsChunkManager(new) /\ Extends(new, mid) /\ loc \in RecordLocation /\ Resolves(new, loc)
      /\ RecordAt(new, loc) = record
  BY <1>1, AppendToTailExtends
<1>4. /\ ~Resolves(mid, loc)
      /\ \A l \in RecordLocation : Resolves(new, l) <=> Resolves(mid, l) \/ l = loc
      /\ \A c \in ChunkIds(mid) : new.chunks[c].tombstones = mid.chunks[c].tombstones
  BY <1>1, AppendToTailUses
<1> HIDE DEF new
<1>5. Extends(new, manager)
  BY <1>1, <1>3, ExtendsTransitive
<1>6. Grown(new, manager)
  <2>1. \A c \in ChunkIds(manager) : manager.chunks[c].tombstones \in Nat
          /\ manager.chunks[c].tombstones <= new.chunks[c].tombstones
    BY <1>2, <1>4, ChunkTyped
  <2>2. \A l \in RecordLocation : Resolves(manager, l) => RecordAt(new, l) = RecordAt(manager, l)
    BY <1>5 DEF Extends, Keeps
  <2> QED
    BY <1>3, <1>5, <2>1, <2>2, KeptIsGrown DEF Extends
<1>7. record.id # TombstoneId
  BY IdAssumption DEF Record
<1>8. \A l \in RecordLocation : Resolves(manager, l) =>
        Resolves(new, l) /\ RecordAt(new, l) = RecordAt(manager, l)
  BY <1>5 DEF Extends, Keeps
<1>9. ~Resolves(manager, loc)
      /\ \A l \in RecordLocation : Resolves(new, l) <=> Resolves(manager, l) \/ l = loc
  BY <1>1, <1>3, <1>4 DEF SameUsed
<1>10. /\ LiveLocations(new) = {l \in RecordLocation : Resolves(new, l) /\ RecordAt(new, l).id # TombstoneId}
       /\ LiveLocations(manager) =
            {l \in RecordLocation : Resolves(manager, l) /\ RecordAt(manager, l).id # TombstoneId}
  BY <1>3, UsedMeaning
<1>11. LiveLocations(new) = LiveLocations(manager) \cup {loc}
  BY <1>3, <1>7, <1>8, <1>9, <1>10
<1>12. loc \notin LiveLocations(manager)
       /\ \A other \in LiveLocations(manager) : RecordAt(new, other) = RecordAt(manager, other)
  BY <1>8, <1>9, <1>10
<1> QED
  BY <1>3, <1>6, <1>11, <1>12 DEF new, mid, loc

(* An append keeps a manager sound, if its id is new.                        *)
LEMMA AppendSound ==
  ASSUME NEW manager, SoundManager(manager), NEW record \in Record, record.id \notin LiveIds(manager)
  PROVE  LET new == AppendToTail(PrepareInsertTail(manager), record) IN
         /\ SoundManager(new)
         /\ Grown(new, manager)
         /\ LiveIds(new) = LiveIds(manager) \cup {record.id}
<1> DEFINE mid == PrepareInsertTail(manager)
           new == AppendToTail(mid, record)
           loc == NextLocation(manager)
<1>1. IsChunkManager(manager) /\ Exact(manager) /\ LiveValid(manager)
  BY DEF SoundManager
<1>2. Exact(new)
  <2>1. Exact(mid)
    BY <1>1, PrepareInsertTailCounts DEF Exact
  <2>2. IsChunkManager(mid) /\ ~NeedsTailChunk(mid)
    BY <1>1, PrepareInsertTailExtends
  <2> HIDE DEF mid
  <2> QED
    BY <2>1, <2>2, AppendToTailCounts DEF Exact
<1>3. /\ IsChunkManager(new)
      /\ Grown(new, manager)
      /\ LiveLocations(new) = LiveLocations(manager) \cup {loc}
      /\ loc \notin LiveLocations(manager)
      /\ RecordAt(new, loc) = record
      /\ \A other \in LiveLocations(manager) : RecordAt(new, other) = RecordAt(manager, other)
  BY <1>1, AppendLives
<1> HIDE DEF new, loc
<1>4. LiveIds(new) = LiveIds(manager) \cup {record.id}
  BY <1>3 DEF LiveIds
<1>5. LiveValid(new)
  <2>1. \A l \in LiveLocations(new) : RecordAt(new, l) \in Record
    BY <1>1, <1>3 DEF LiveValid
  <2>2. ASSUME NEW a \in LiveLocations(new), NEW b \in LiveLocations(new),
               RecordAt(new, a).id = RecordAt(new, b).id
        PROVE  a = b
    <3>1. \A l \in LiveLocations(manager) : RecordAt(manager, l).id # record.id
      BY DEF LiveIds
    <3>2. CASE a = loc \/ b = loc
      BY <1>3, <2>2, <3>1, <3>2
    <3>3. CASE a # loc /\ b # loc
      BY <1>1, <1>3, <2>2, <3>3 DEF LiveValid
    <3> QED
      BY <3>2, <3>3
  <2> QED
    BY <2>1, <2>2 DEF LiveValid
<1>6. SoundManager(new)
  BY <1>2, <1>3, <1>5 DEF SoundManager
<1> QED
  BY <1>3, <1>4, <1>6 DEF new
(* The managers that the insertion of a batch goes through.                  *)
LEMMA AppendedUnfolds ==
  ASSUME NEW manager, IsChunkManager(manager), NEW batch \in Seq(Record)
  PROVE  \E after \in [0 .. Len(batch) -> Managers] :
           /\ after[0] = manager
           /\ \A n \in 1 .. Len(batch) : after[n] = AppendToTail(PrepareInsertTail(after[n - 1]), batch[n])
           /\ Appended(manager, batch) = after[Len(batch)]
<1> DEFINE N == Len(batch)
           Put(m, n) == AppendToTail(PrepareInsertTail(m), batch[n])
           step == [x \in (1 .. N) \X Managers |-> Put(x[2], x[1])]
           Is(g) == g = [n \in 0 .. N |-> IF n = 0 THEN manager ELSE Put(g[n - 1], n)]
           after == CHOOSE g : Is(g)
<1>1. N \in Nat /\ (\A n \in 1 .. N : batch[n] \in Record) /\ manager \in Managers
  BY ManagersMeaning
<1>2. ASSUME NEW n \in 1 .. N, NEW m \in Managers
      PROVE  Put(m, n) \in Managers
  <2>1. IsChunkManager(m) /\ batch[n] \in Record
    BY <1>1, ManagersMeaning
  <2>2. IsChunkManager(Put(m, n))
    BY <2>1, AppendTouches
  <2> HIDE DEF Put
  <2> QED
    BY <2>2, ManagersMeaning
<1> HIDE DEF Put
<1>3. step \in StepsOn(Managers, N)
  BY <1>2 DEF StepsOn
<1> HIDE DEF N
<1>4. PICK f \in [0 .. N -> Managers] : Follows(f, N, manager, step)
  <2> HIDE DEF step, after, Is
  <2> QED
    BY ONLY <1>1, <1>3, Recursion
<1>5. Is(f)
  <2>1. ASSUME NEW n \in 0 .. N
        PROVE  f[n] = IF n = 0 THEN manager ELSE Put(f[n - 1], n)
    <3>1. n # 0 => n \in 1 .. N /\ f[n - 1] \in Managers
      BY <1>1
    <3> QED
      BY <1>4, <3>1 DEF Follows
  <2> QED
    BY <2>1
<1>6. Is(after)
  BY ONLY <1>5
<1>7. Appended(manager, batch) = after[N]
  BY DEF Appended, Put, N
<1> HIDE DEF after
<1>8. after = [n \in 0 .. N |-> after[n]]
      /\ \A n \in 0 .. N : after[n] = IF n = 0 THEN manager ELSE Put(after[n - 1], n)
  BY ONLY <1>6
<1> HIDE DEF Is, step
<1> DEFINE T == {n \in 0 .. N : after[n] \in Managers}
<1>9. 0 .. N \subseteq T
  <2>1. 0 \in T
    BY <1>1, <1>8
  <2>2. ASSUME NEW n \in 1 .. N, n - 1 \in T
        PROVE  n \in T
    BY <1>1, <1>2, <1>8, <2>2
  <2> HIDE DEF T
  <2> QED
    BY <1>1, <2>1, <2>2, Reaches
<1>10. after \in [0 .. N -> Managers]
  BY <1>8, <1>9
<1>11. after[0] = manager /\ \A n \in 1 .. N : after[n] = Put(after[n - 1], n)
  BY <1>1, <1>8
<1> QED
  BY <1>7, <1>10, <1>11 DEF N, Put

(* A batch of new and different ids keeps a manager sound.                   *)
LEMMA AppendedSound ==
  ASSUME NEW manager, SoundManager(manager), NEW batch \in Seq(Record),
         \A i \in DOMAIN batch : /\ batch[i].id \notin LiveIds(manager)
                                 /\ \A j \in 1 .. i - 1 : batch[j].id # batch[i].id
  PROVE  SoundManager(Appended(manager, batch)) /\ Grown(Appended(manager, batch), manager)
<1> DEFINE N == Len(batch)
<1>0. IsChunkManager(manager) /\ N \in Nat /\ DOMAIN batch = 1 .. N
  BY DEF SoundManager
<1>1. PICK after \in [0 .. N -> Managers] :
           /\ after[0] = manager
           /\ \A n \in 1 .. N : after[n] = AppendToTail(PrepareInsertTail(after[n - 1]), batch[n])
           /\ Appended(manager, batch) = after[N]
  BY <1>0, AppendedUnfolds
<1> DEFINE Seen(n) == {batch[i].id : i \in 1 .. n}
           T == {n \in 0 .. N : /\ SoundManager(after[n])
                                /\ Grown(after[n], manager)
                                /\ LiveIds(after[n]) \subseteq LiveIds(manager) \cup Seen(n)}
<1> HIDE DEF N
<1>2. 0 \in T
  <2>1. Grown(manager, manager)
    BY <1>0, SameIsGrown
  <2> QED
    BY <1>0, <1>1, <2>1
<1>3. ASSUME NEW n \in 1 .. N, n - 1 \in T
      PROVE  n \in T
  <2> DEFINE old == after[n - 1]
             new == AppendToTail(PrepareInsertTail(old), batch[n])
  <2>0. after[n] = new
    BY <1>1
  <2>1. after[n] = new /\ n \in 0 .. N /\ n - 1 \in 0 .. N /\ n \in Nat
    <3> HIDE DEF new, old
    <3> QED
      BY <1>0, <2>0
  <2>2. /\ SoundManager(old)
        /\ Grown(old, manager)
        /\ LiveIds(old) \subseteq LiveIds(manager) \cup Seen(n - 1)
    BY <1>3
  <2>3. batch[n] \in Record /\ batch[n].id \notin LiveIds(manager)
        /\ \A j \in 1 .. n - 1 : batch[j].id # batch[n].id
    BY <1>0 DEF N
  <2>4. batch[n].id \notin LiveIds(old)
    BY <2>2, <2>3
  <2> HIDE DEF old
  <2>5. SoundManager(new) /\ Grown(new, old) /\ LiveIds(new) = LiveIds(old) \cup {batch[n].id}
    BY <2>2, <2>3, <2>4, AppendSound
  <2> HIDE DEF new
  <2>6. Grown(new, manager)
    BY <1>0, <2>2, <2>5, GrownTransitive DEF SoundManager
  <2>7. LiveIds(new) \subseteq LiveIds(manager) \cup Seen(n)
    <3>1. Seen(n - 1) \cup {batch[n].id} \subseteq Seen(n)
      BY <2>1
    <3> QED
      BY <2>2, <2>5, <3>1
  <2> QED
    BY <2>1, <2>5, <2>6, <2>7
<1>4. N \in T
  <2> HIDE DEF T
  <2>1. 0 .. N \subseteq T
    BY <1>0, <1>2, <1>3, Reaches
  <2> QED
    BY <1>0, <2>1
<1> QED
  BY <1>1, <1>4

(* A location that the indexes lead to.                                      *)
LEMMA ReachableMeaning ==
  ASSUME NEW manager, IsChunkManager(manager), NEW loc \in Reachable(manager)
  PROVE  /\ loc \in RecordLocation /\ Resolves(manager, loc) /\ RecordAt(manager, loc) \in Record
         /\ loc \in LiveLocations(manager)
BY UsedMeaning DEF Reachable

(* A delete buries one live record and leaves the others as they were.       *)
LEMMA BurySound ==
  ASSUME NEW manager, SoundManager(manager), NEW loc \in Reachable(manager)
  PROVE  SoundManager(BuryRecord(manager, loc)) /\ Grown(BuryRecord(manager, loc), manager)
<1> DEFINE new == BuryRecord(manager, loc)
           buried == [RecordAt(manager, loc) EXCEPT !.id = TombstoneId]
<1>1. IsChunkManager(manager) /\ Exact(manager) /\ LiveValid(manager)
  BY DEF SoundManager
<1>2. loc \in RecordLocation /\ Resolves(manager, loc) /\ RecordAt(manager, loc) \in Record
  BY <1>1, ReachableMeaning
<1>3. Rewrites(new, manager, loc, buried)
  BY <1>1, <1>2, BuryRecordRewrites
<1>4. Exact(new)
  BY <1>1, <1>2, BuryRecordCounts DEF Exact
<1>5. buried.id = TombstoneId
  BY <1>2 DEF Record
<1>6. \A c \in ChunkIds(manager) : manager.chunks[c].tombstones <= new.chunks[c].tombstones
  <2> SUFFICES ASSUME NEW c \in ChunkIds(manager)
               PROVE  manager.chunks[c].tombstones <= new.chunks[c].tombstones
    OBVIOUS
  <2> DEFINE mine == loc.chunk_id
             put == WithChunk(manager, mine, Buried(manager.chunks[mine], loc.slot_index))
  <2>1. mine \in ChunkIds(manager) /\ \A k \in ChunkIds(manager) : manager.chunks[k].tombstones \in Nat
        /\ manager.chunks[k] \in Chunk
    BY <1>1, <1>2, ChunkTyped DEF Resolves, RecordLocation, ChunkIds, IsChunkManager
  <2>2. new = [put EXCEPT !.total_tombstones = put.total_tombstones + 1]
    BY DEF BuryRecord
  <2>3. manager.chunks \in [ChunkIds(manager) -> Chunk]
        /\ manager \in [chunks           : [0 .. manager.chunk_count - 1 -> Chunk],
                        chunk_count      : Nat,
                        total_used_slots : Nat,
                        total_tombstones : Nat]
    BY <1>1 DEF IsChunkManager, ChunkIds
  <2>4. new.chunks = [manager.chunks EXCEPT ![mine] = Buried(manager.chunks[mine], loc.slot_index)]
    BY <2>2, <2>3 DEF WithChunk
  <2> HIDE DEF put, new
  <2>5. new.chunks[c] = IF c = mine THEN Buried(manager.chunks[mine], loc.slot_index) ELSE manager.chunks[c]
    BY <2>3, <2>4
  <2>6. Buried(manager.chunks[mine], loc.slot_index).tombstones = manager.chunks[mine].tombstones + 1
    BY <2>1 DEF Buried, Chunk
  <2> QED
    BY <2>1, <2>5, <2>6
<1> HIDE DEF new, buried
<1>7. /\ IsChunkManager(new)
      /\ new.chunk_count = manager.chunk_count
      /\ \A c \in ChunkIds(manager) : new.chunks[c].used_slots = manager.chunks[c].used_slots
      /\ \A l \in RecordLocation : Resolves(manager, l) =>
           Resolves(new, l) /\ RecordAt(new, l) = IF l = loc THEN buried ELSE RecordAt(manager, l)
  BY <1>3 DEF Rewrites
<1>8. Grown(new, manager)
  <2>1. \A c \in ChunkIds(manager) : manager.chunks[c].used_slots <= new.chunks[c].used_slots
    BY <1>1, <1>7, ChunkTyped
  <2>2. manager.chunk_count <= new.chunk_count
    BY <1>1, <1>7 DEF IsChunkManager
  <2>3. \A l \in RecordLocation : Resolves(manager, l) =>
          RecordAt(new, l).id \in {RecordAt(manager, l).id, TombstoneId}
    BY <1>5, <1>7
  <2> QED
    BY <1>1, <1>6, <1>7, <2>1, <2>2, <2>3, KeptIsGrown
<1>9. SameUsed(new, manager)
  BY <1>1, <1>3, RewritesUses
<1>10. \A l \in LiveLocations(new) :
         l # loc /\ l \in LiveLocations(manager) /\ RecordAt(new, l) = RecordAt(manager, l)
  BY <1>1, <1>5, <1>7, <1>9, UsedMeaning DEF SameUsed
<1>11. LiveValid(new)
  BY <1>1, <1>10 DEF LiveValid
<1> QED
  BY <1>4, <1>7, <1>8, <1>11 DEF SoundManager, new

(* A new grade leaves every id and every count as it was.                    *)
LEMMA WriteGpaSound ==
  ASSUME NEW manager, SoundManager(manager), NEW loc \in Reachable(manager), NEW gpa \in Gpas
  PROVE  SoundManager(WriteGpa(manager, loc, gpa)) /\ Grown(WriteGpa(manager, loc, gpa), manager)
<1> DEFINE new == WriteGpa(manager, loc, gpa)
           graded == [RecordAt(manager, loc) EXCEPT !.gpa = gpa]
<1>1. IsChunkManager(manager) /\ Exact(manager) /\ LiveValid(manager)
  BY DEF SoundManager
<1>2. loc \in RecordLocation /\ Resolves(manager, loc) /\ RecordAt(manager, loc) \in Record
      /\ loc \in LiveLocations(manager)
  BY <1>1, ReachableMeaning
<1>3. Rewrites(new, manager, loc, graded)
  BY <1>1, <1>2, WriteGpaRewrites
<1>4. Exact(new)
  BY <1>1, <1>2, WritesCount DEF Exact
<1>5. graded.id = RecordAt(manager, loc).id /\ graded \in Record
  BY <1>2 DEF Record
<1>6. \A c \in ChunkIds(manager) : new.chunks[c].tombstones = manager.chunks[c].tombstones
  <2> DEFINE mine == loc.chunk_id
             chunk == [manager.chunks[mine] EXCEPT !.records[loc.slot_index].gpa = gpa, !.dirty = TRUE]
  <2>1. mine \in ChunkIds(manager) /\ manager.chunks[mine] \in Chunk
    BY <1>1, <1>2, ChunkTyped DEF Resolves, RecordLocation, ChunkIds, IsChunkManager
  <2>2. chunk.tombstones = manager.chunks[mine].tombstones
    BY <2>1 DEF Chunk
  <2>3. new = WithChunk(manager, mine, chunk)
    BY DEF WriteGpa
  <2> HIDE DEF chunk, new
  <2> QED
    BY <1>1, <2>1, <2>2, <2>3, WithChunkTotals
<1> HIDE DEF new, graded
<1>7. /\ IsChunkManager(new)
      /\ new.chunk_count = manager.chunk_count
      /\ \A c \in ChunkIds(manager) : new.chunks[c].used_slots = manager.chunks[c].used_slots
      /\ \A l \in RecordLocation : Resolves(manager, l) =>
           Resolves(new, l) /\ RecordAt(new, l) = IF l = loc THEN graded ELSE RecordAt(manager, l)
  BY <1>3 DEF Rewrites
<1>8. Grown(new, manager)
  <2>1. \A c \in ChunkIds(manager) : /\ manager.chunks[c].used_slots <= new.chunks[c].used_slots
                                     /\ manager.chunks[c].tombstones <= new.chunks[c].tombstones
    BY <1>1, <1>6, <1>7, ChunkTyped
  <2>2. manager.chunk_count <= new.chunk_count
    BY <1>1, <1>7 DEF IsChunkManager
  <2>3. \A l \in RecordLocation : Resolves(manager, l) =>
          RecordAt(new, l).id \in {RecordAt(manager, l).id, TombstoneId}
    BY <1>5, <1>7
  <2> QED
    BY <1>1, <1>7, <2>1, <2>2, <2>3, KeptIsGrown
<1>9. SameUsed(new, manager)
  BY <1>1, <1>3, RewritesUses
<1>10. \A l \in LiveLocations(new) :
         /\ l \in LiveLocations(manager)
         /\ RecordAt(new, l).id = RecordAt(manager, l).id
         /\ RecordAt(new, l) = graded \/ RecordAt(new, l) = RecordAt(manager, l)
  BY <1>1, <1>5, <1>7, <1>9, UsedMeaning DEF SameUsed
<1>11. LiveValid(new)
  BY <1>1, <1>5, <1>10 DEF LiveValid
<1> QED
  BY <1>4, <1>7, <1>8, <1>11 DEF SoundManager, new
-----------------------------------------------------------------------------
(* Files that hold a manager *)

(* The same slots in use, with the same ids in them.                         *)
SameIds(a, b) ==
  /\ a.chunk_count = b.chunk_count
  /\ a.total_used_slots = b.total_used_slots
  /\ a.total_tombstones = b.total_tombstones
  /\ \A c \in ChunkIds(b) :
       /\ a.chunks[c].used_slots = b.chunks[c].used_slots
       /\ a.chunks[c].tombstones = b.chunks[c].tombstones
       /\ \A s \in 0 .. b.chunks[c].used_slots - 1 :
            a.chunks[c].records[s].id = b.chunks[c].records[s].id

(* The same is live in them, and their counters are exact together.          *)
LEMMA SameIdsMeaning ==
  ASSUME NEW a, IsChunkManager(a), NEW b, IsChunkManager(b), SameIds(a, b)
  PROVE  /\ UsedLocations(a) = UsedLocations(b)
         /\ LiveLocations(a) = LiveLocations(b)
         /\ \A loc \in LiveLocations(b) : RecordAt(a, loc).id = RecordAt(b, loc).id
         /\ LiveIds(a) = LiveIds(b)
         /\ Exact(b) => Exact(a)
<1>1. ChunkIds(a) = ChunkIds(b) /\ b.chunk_count \in Nat
  BY DEF SameIds, ChunkIds, IsChunkManager
<1>2. \A loc \in RecordLocation : Resolves(a, loc) <=> Resolves(b, loc)
  BY <1>1 DEF SameIds, Resolves, RecordLocation, ChunkIds
<1>3. ASSUME NEW loc \in RecordLocation, Resolves(b, loc)
      PROVE  RecordAt(a, loc).id = RecordAt(b, loc).id
  <2>1. loc.chunk_id \in ChunkIds(b) /\ loc.slot_index \in 0 .. b.chunks[loc.chunk_id].used_slots - 1
    <3>1. loc.chunk_id \in ChunkIds(b) /\ loc.slot_index \in Nat
      BY <1>1, <1>3, CapacityAssumption DEF Resolves, RecordLocation, ChunkIds, Slots
    <3>2. b.chunks[loc.chunk_id].used_slots \in Nat
      BY <3>1, ChunkTyped
    <3> QED
      BY <1>3, <3>1, <3>2 DEF Resolves
  <2> QED
    BY <2>1 DEF SameIds, RecordAt
<1>4. UsedLocations(a) = UsedLocations(b)
  BY <1>2, UsedMeaning
<1>5. LiveLocations(a) = LiveLocations(b)
  BY <1>2, <1>3, UsedMeaning
<1>6. \A loc \in LiveLocations(b) : RecordAt(a, loc).id = RecordAt(b, loc).id
  BY <1>3, UsedMeaning
<1>7. LiveIds(a) = LiveIds(b)
  BY <1>5, <1>6 DEF LiveIds
<1>8. ASSUME Exact(b)
      PROVE  Exact(a)
  <2>1. \A c \in ChunkIds(b) : TombstoneSlots(a, c) = TombstoneSlots(b, c)
    BY DEF SameIds, TombstoneSlots
  <2>2. Tombstones(a) = Tombstones(b)
    BY <1>4, <1>5 DEF Tombstones
  <2>3. CountersExact(a)
    <3>1. \A c \in ChunkIds(b) : b.chunks[c].tombstones = Cardinality(TombstoneSlots(b, c))
      BY <1>8 DEF Exact, CountersExact, TombstoneSlots
    <3>2. \A c \in ChunkIds(a) : a.chunks[c].tombstones = Cardinality(TombstoneSlots(a, c))
      BY <1>1, <2>1, <3>1 DEF SameIds
    <3>3. a.total_used_slots = Cardinality(UsedLocations(a)) /\ a.total_tombstones = Cardinality(Tombstones(a))
      BY <1>4, <1>8, <2>2 DEF SameIds, Exact, CountersExact
    <3> QED
      BY <3>2, <3>3, CountersMeaning
  <2>4. ChunksPacked(a)
    BY <1>1, <1>8 DEF SameIds, Exact, ChunksPacked
  <2> QED
    BY <2>3, <2>4 DEF Exact
<1> QED
  BY <1>4, <1>5, <1>6, <1>7, <1>8

(* What is exact can be counted in its chunks, and there is room for it.     *)
LEMMA ExactBounds ==
  ASSUME NEW manager, IsChunkManager(manager), CountersExact(manager)
  PROVE  /\ manager.total_tombstones <= manager.total_used_slots
         /\ manager.total_used_slots <= manager.chunk_count * ChunkCapacity
         /\ \A c \in ChunkIds(manager) : manager.chunks[c].tombstones <= manager.chunks[c].used_slots
         /\ Cardinality(LiveLocations(manager)) = ActiveCount(manager)
<1> DEFINE used == UsedLocations(manager)
           pairs == ChunkIds(manager) \X Slots
           pair == [loc \in used |-> <<loc.chunk_id, loc.slot_index>>]
<1>1. IsFiniteSet(used)
  BY UsedFinite
<1>2. Tombstones(manager) \subseteq used /\ LiveLocations(manager) = used \ Tombstones(manager)
  BY DEF Tombstones, LiveLocations
<1>3. manager.total_used_slots = Cardinality(used)
      /\ manager.total_tombstones = Cardinality(Tombstones(manager))
  BY DEF CountersExact
<1>4. used \subseteq [chunk_id : ChunkIds(manager), slot_index : Slots]
  BY DEF UsedLocations
<1>5. pair \in Injection(used, pairs)
  BY <1>4 DEF Injection, IsInjective
<1>6. IsFiniteSet(ChunkIds(manager)) /\ Cardinality(ChunkIds(manager)) = manager.chunk_count
  <2>1. manager.chunk_count \in Nat
    BY DEF IsChunkManager
  <2> QED
    BY <2>1, FirstNumbers DEF ChunkIds
<1>7. IsFiniteSet(Slots) /\ Cardinality(Slots) = ChunkCapacity
  BY CapacityAssumption, FirstNumbers DEF Slots
<1> HIDE DEF pair, used
<1>8. IsFiniteSet(pairs) /\ Cardinality(pairs) = manager.chunk_count * ChunkCapacity
  BY <1>6, <1>7, FS_Product
<1> HIDE DEF pairs
<1>9. Cardinality(used) <= Cardinality(pairs)
  BY <1>5, <1>8, FS_Injection
<1>10. Cardinality(Tombstones(manager)) <= Cardinality(used)
  BY <1>1, <1>2, FS_Subset
<1>11. Cardinality(LiveLocations(manager)) = Cardinality(used) - Cardinality(Tombstones(manager))
  <2>1. used \cap Tombstones(manager) = Tombstones(manager)
    BY <1>2
  <2> QED
    BY <1>1, <1>2, <2>1, FS_Difference
<1>12. ASSUME NEW c \in ChunkIds(manager)
       PROVE  manager.chunks[c].tombstones <= manager.chunks[c].used_slots
  <2> DEFINE u == manager.chunks[c].used_slots
             S == 0 .. u - 1
  <2>1. u \in Nat
    BY ChunkTyped
  <2>2. IsFiniteSet(S) /\ Cardinality(S) = u
    <3> HIDE DEF u
    <3> QED
      BY <2>1, FirstNumbers
  <2>3. TombstoneSlots(manager, c) \subseteq S
    BY DEF TombstoneSlots
  <2>4. manager.chunks[c].tombstones = Cardinality(TombstoneSlots(manager, c))
    BY DEF CountersExact, TombstoneSlots
  <2>5. Cardinality(TombstoneSlots(manager, c)) <= Cardinality(S)
    <3> HIDE DEF S
    <3> QED
      BY <2>2, <2>3, FS_Subset
  <2> QED
    BY <2>2, <2>4, <2>5
<1> QED
  BY <1>3, <1>8, <1>9, <1>10, <1>11, <1>12 DEF ActiveCount

(* Hydration finds no defect in a sound manager, and what it finds none in   *)
(* is sound if it was exact.                                                 *)
LEMMA HydrationMeaning ==
  ASSUME NEW image, IsChunkManager(image), Exact(image)
  PROVE  HydrateDefects(image) = {} <=> LiveValid(image)
<1>1. /\ image.total_tombstones <= image.total_used_slots
      /\ Cardinality(LiveLocations(image)) = ActiveCount(image)
  BY ExactBounds DEF Exact
<1>2. image.total_tombstones \in Nat /\ image.total_used_slots \in Nat
  BY DEF IsChunkManager
<1>3. CASE ActiveCount(image) = 0
  <2>1. LiveLocations(image) = {}
    BY <1>3, NoneLive DEF Exact
  <2> QED
    BY <1>1, <1>2, <1>3, <2>1 DEF HydrateDefects, LiveValid
<1>4. CASE ActiveCount(image) # 0
  <2>1. HydrateDefects(image) = (IF WrongRecords(image) THEN {"INVALID_STATE"} ELSE {}) \cup
                                (IF RepeatedId(image) THEN {"DUPLICATE_ID"} ELSE {})
    BY <1>1, <1>2, <1>4 DEF HydrateDefects
  <2>2. HydrateDefects(image) = {} <=> ~WrongRecords(image) /\ ~RepeatedId(image)
    BY <2>1
  <2>3. ~WrongRecords(image) <=> \A loc \in LiveLocations(image) : RecordAt(image, loc) \in Record
    BY <1>1 DEF WrongRecords
  <2>4. ~RepeatedId(image) <=> \A a, b \in LiveLocations(image) :
                                 RecordAt(image, a).id = RecordAt(image, b).id => a = b
    BY DEF RepeatedId
  <2> QED
    BY <2>2, <2>3, <2>4 DEF LiveValid
<1> QED
  BY <1>3, <1>4

(* The fields of a manager that was loaded.                                  *)
LEMMA LoadedFields ==
  ASSUME NEW file
  PROVE  LET new == Loaded(file) IN
         /\ new.chunk_count = file.superblock.chunk_count
         /\ new.total_used_slots = file.superblock.total_used_slots
         /\ new.total_tombstones = file.superblock.total_tombstones
         /\ ChunkIds(new) = SectionIds(file)
         /\ \A c \in SectionIds(file) :
              /\ new.chunks[c].records = file.sections[c].records
              /\ new.chunks[c].used_slots = file.sections[c].header.used_slots
              /\ new.chunks[c].tombstones = file.sections[c].header.tombstones
              /\ new.chunks[c].dirty = FALSE
BY DEF Loaded, ChunkIds, SectionIds

(* The sums of the totals check are those of the loaded manager.             *)
LEMMA TotalsMeaning ==
  ASSUME NEW file
  PROVE  LET new == Loaded(file) IN
         TotalsAgree(file) <=>
           /\ new.total_used_slots = SumOf([c \in ChunkIds(new) |-> new.chunks[c].used_slots], new.chunk_count)
           /\ new.total_tombstones = SumOf([c \in ChunkIds(new) |-> new.chunks[c].tombstones], new.chunk_count)
<1> DEFINE new == Loaded(file)
           used == [c \in SectionIds(file) |-> file.sections[c].header.used_slots]
           tombs == [c \in SectionIds(file) |-> file.sections[c].header.tombstones]
           used1 == [c \in ChunkIds(new) |-> new.chunks[c].used_slots]
           tombs1 == [c \in ChunkIds(new) |-> new.chunks[c].tombstones]
<1>1. used = used1 /\ tombs = tombs1
  <2>1. /\ ChunkIds(new) = SectionIds(file)
        /\ \A c \in SectionIds(file) :
             /\ new.chunks[c].used_slots = file.sections[c].header.used_slots
             /\ new.chunks[c].tombstones = file.sections[c].header.tombstones
    BY LoadedFields
  <2> HIDE DEF new
  <2> QED
    BY <2>1
<1>2. TotalsAgree(file) <=> /\ file.superblock.total_used_slots = SumOf(used, file.superblock.chunk_count)
                            /\ file.superblock.total_tombstones = SumOf(tombs, file.superblock.chunk_count)
  BY DEF TotalsAgree
<1>3. /\ new.chunk_count = file.superblock.chunk_count
      /\ new.total_used_slots = file.superblock.total_used_slots
      /\ new.total_tombstones = file.superblock.total_tombstones
  BY LoadedFields
<1> HIDE DEF used, tombs
<1>4. TotalsAgree(file) <=> /\ new.total_used_slots = SumOf(used1, new.chunk_count)
                            /\ new.total_tombstones = SumOf(tombs1, new.chunk_count)
  BY <1>1, <1>2, <1>3
<1> QED
  BY <1>4

(* A file holds a manager when its superblock and its sections do.           *)
FileHolds(file, manager) ==
  /\ file.exists
  /\ file.superblock = Superblock(manager)
  /\ \A c \in ChunkIds(manager) : SectionHolds(file, c, manager.chunks[c])

(* A file that holds a sound manager boots, and what it boots into shows     *)
(* what the manager shows.                                                   *)
LEMMA HeldBoots ==
  ASSUME NEW file, IsFile(file), NEW manager, SoundManager(manager), FileHolds(file, manager)
  PROVE  /\ Bootable(file)
         /\ SoundManager(Loaded(file))
         /\ SameIds(Loaded(file), manager)
         /\ LiveSet(Loaded(file)) = LiveSet(manager)
         /\ Visible(Loaded(file)) = Visible(MarkChunksClean(manager))
<1> DEFINE new == Loaded(file)
           n == manager.chunk_count
<1>1. IsChunkManager(manager) /\ Exact(manager) /\ LiveValid(manager) /\ n \in Nat
  BY DEF SoundManager, IsChunkManager
<1>2. /\ file.superblock # NoSuperblock
      /\ file.superblock.chunk_count = n
      /\ file.superblock.total_used_slots = manager.total_used_slots
      /\ file.superblock.total_tombstones = manager.total_tombstones
      /\ SectionIds(file) = ChunkIds(manager)
  <2>1. Superblock(manager) \in FileSuperblock
    BY DEF Superblock, FileSuperblock, SoundManager, IsChunkManager
  <2> QED
    BY <2>1, SuperblockAssumption DEF FileHolds, Superblock, SectionIds, ChunkIds
<1>3. ASSUME NEW c \in ChunkIds(manager)
      PROVE  /\ c \in DOMAIN file.sections
             /\ file.sections[c].header = Header(c, manager.chunks[c].used_slots, manager.chunks[c].tombstones)
             /\ file.sections[c].header.chunk_id = c
             /\ file.sections[c].header.used_slots = manager.chunks[c].used_slots
             /\ file.sections[c].header.tombstones = manager.chunks[c].tombstones
             /\ file.sections[c].records # NoRecords
             /\ \A s \in 0 .. manager.chunks[c].used_slots - 1 :
                  file.sections[c].records[s] = manager.chunks[c].records[s]
  <2>1. SectionHolds(file, c, manager.chunks[c])
    BY DEF FileHolds
  <2> QED
    BY <2>1 DEF SectionHolds, Header
<1>4. ValidSuperblock(file.superblock)
  BY <1>1, <1>2, ExactBounds DEF ValidSuperblock, Exact
<1>5. \A c \in SectionIds(file) : ReadableSection(file, c)
  BY <1>1, <1>2, <1>3, ExactBounds DEF ReadableSection, Exact
<1>6. /\ new.chunk_count = n
      /\ new.total_used_slots = manager.total_used_slots
      /\ new.total_tombstones = manager.total_tombstones
      /\ ChunkIds(new) = ChunkIds(manager)
      /\ \A c \in ChunkIds(manager) :
           /\ new.chunks[c].used_slots = manager.chunks[c].used_slots
           /\ new.chunks[c].tombstones = manager.chunks[c].tombstones
           /\ new.chunks[c].dirty = FALSE
           /\ \A s \in 0 .. manager.chunks[c].used_slots - 1 :
                new.chunks[c].records[s] = manager.chunks[c].records[s]
  <2>1. /\ new.chunk_count = file.superblock.chunk_count
        /\ new.total_used_slots = file.superblock.total_used_slots
        /\ new.total_tombstones = file.superblock.total_tombstones
        /\ ChunkIds(new) = SectionIds(file)
        /\ \A c \in SectionIds(file) :
             /\ new.chunks[c].records = file.sections[c].records
             /\ new.chunks[c].used_slots = file.sections[c].header.used_slots
             /\ new.chunks[c].tombstones = file.sections[c].header.tombstones
             /\ new.chunks[c].dirty = FALSE
    BY LoadedFields
  <2> HIDE DEF new
  <2> QED
    BY <1>2, <1>3, <2>1
<1>7. TotalsAgree(file)
  <2> DEFINE used == [c \in ChunkIds(manager) |-> manager.chunks[c].used_slots]
             tombs == [c \in ChunkIds(manager) |-> manager.chunks[c].tombstones]
  <2>1. /\ manager.total_used_slots = Cardinality(UsedLocations(manager))
        /\ manager.total_tombstones = Cardinality(Tombstones(manager))
        /\ \A c \in ChunkIds(manager) :
             manager.chunks[c].tombstones = Cardinality(TombstoneSlots(manager, c))
    BY <1>1 DEF Exact, CountersExact, TombstoneSlots
  <2>2. manager.total_used_slots = SumOf(used, n) /\ manager.total_tombstones = SumOf(tombs, n)
    BY <1>1, <2>1, UsedIsSum, TombstonesAreSum
  <2>3. used = [c \in ChunkIds(new) |-> new.chunks[c].used_slots]
        /\ tombs = [c \in ChunkIds(new) |-> new.chunks[c].tombstones]
    BY <1>6
  <2> HIDE DEF used, tombs
  <2>4. /\ new.total_used_slots = SumOf([c \in ChunkIds(new) |-> new.chunks[c].used_slots], new.chunk_count)
        /\ new.total_tombstones = SumOf([c \in ChunkIds(new) |-> new.chunks[c].tombstones], new.chunk_count)
    BY <1>6, <2>2, <2>3
  <2> QED
    BY <2>4, TotalsMeaning
<1>8. Loadable(file)
  BY <1>4, <1>5, <1>7 DEF Loadable, FileHolds
<1>9. IsChunkManager(new)
  BY <1>8, LoadedTyped
<1> HIDE DEF new
<1>10. SameIds(new, manager)
  BY <1>6 DEF SameIds
<1>11. /\ UsedLocations(new) = UsedLocations(manager)
       /\ LiveLocations(new) = LiveLocations(manager)
       /\ Exact(new)
  BY <1>1, <1>9, <1>10, SameIdsMeaning
<1>12. ASSUME NEW loc \in LiveLocations(manager)
       PROVE  RecordAt(new, loc) = RecordAt(manager, loc)
  <2>1. loc.chunk_id \in ChunkIds(manager) /\ loc.slot_index \in Slots /\ Resolves(manager, loc)
    BY DEF LiveLocations, UsedLocations
  <2>2. loc.slot_index \in 0 .. manager.chunks[loc.chunk_id].used_slots - 1
    BY <1>1, <2>1, ChunkTyped, CapacityAssumption DEF Slots, Resolves
  <2> QED
    BY <1>6, <2>1, <2>2 DEF RecordAt
<1>13. LiveValid(new)
  BY <1>1, <1>11, <1>12 DEF LiveValid
<1>14. SoundManager(new)
  BY <1>9, <1>11, <1>13 DEF SoundManager
<1>15. Bootable(file)
  BY <1>8, <1>9, <1>11, <1>13, HydrationMeaning DEF Bootable, new
<1>16. LiveSet(new) = LiveSet(manager)
  BY <1>11, <1>12 DEF LiveSet
<1>17. Visible(new) = Visible(MarkChunksClean(manager))
  <2> DEFINE clean == MarkChunksClean(manager)
  <2>1. IsChunkManager(clean) /\ ChunkIds(clean) = ChunkIds(manager)
        /\ \A c \in ChunkIds(manager) :
              /\ ~clean.chunks[c].dirty
              /\ clean.chunks[c].records = manager.chunks[c].records
              /\ clean.chunks[c].used_slots = manager.chunks[c].used_slots
              /\ clean.chunks[c].tombstones = manager.chunks[c].tombstones
    BY <1>1, MarkChunksCleanTouches
  <2>2. /\ clean.chunk_count = n
        /\ clean.total_used_slots = manager.total_used_slots
        /\ clean.total_tombstones = manager.total_tombstones
    BY <1>1 DEF MarkChunksClean, IsChunkManager
  <2> HIDE DEF clean
  <2>3. \A c \in ChunkIds(manager) : clean.chunks[c].dirty = FALSE
    <3>1. \A c \in ChunkIds(manager) : clean.chunks[c].dirty \in BOOLEAN
      BY <2>1, ChunkTyped DEF Chunk
    <3> QED
      BY <2>1, <3>1
  <2>4. SameVisible(new, clean)
    <3>1. ASSUME NEW c \in ChunkIds(clean)
          PROVE  /\ new.chunks[c].used_slots = clean.chunks[c].used_slots
                 /\ new.chunks[c].tombstones = clean.chunks[c].tombstones
                 /\ new.chunks[c].dirty = clean.chunks[c].dirty
                 /\ \A s \in 0 .. clean.chunks[c].used_slots - 1 :
                      new.chunks[c].records[s] = clean.chunks[c].records[s]
      <4>1. c \in ChunkIds(manager)
        BY <2>1
      <4> QED
        BY <1>6, <2>1, <2>3, <4>1
    <3> QED
      BY <1>6, <2>2, <3>1 DEF SameVisible
  <2>5. Visible(new) = Visible(clean)
    BY <1>9, <2>1, <2>4, SameVisibleShown
  <2> QED
    BY <2>5 DEF clean
<1> QED
  BY <1>10, <1>14, <1>15, <1>16, <1>17 DEF new
-----------------------------------------------------------------------------
(* Files between two saves                                                   *)
(*                                                                           *)
(* While an engine runs, the superblock is that of the manager base that was *)
(* loaded or saved in full last, and the section of a chunk of base is, with *)
(* respect to its header, somewhere between base and what is in memory now.  *)
(* A load that finds the sums of the headers to be those of base finds no    *)
(* header that has moved on: so it finds the ids of base.                    *)

Between(c, base, file, manager, seen) ==
  /\ c \in DOMAIN file.sections
  /\ base.chunks[c].used_slots <= file.sections[c].header.used_slots
  /\ base.chunks[c].tombstones <= file.sections[c].header.tombstones
  /\ file.sections[c].header.used_slots <= manager.chunks[c].used_slots
  /\ file.sections[c].header.tombstones <= manager.chunks[c].tombstones
  /\ /\ file.sections[c].header.used_slots = base.chunks[c].used_slots
     /\ file.sections[c].header.tombstones = base.chunks[c].tombstones
     => /\ file.sections[c].records # NoRecords
        /\ \A s \in 0 .. base.chunks[c].used_slots - 1 :
             /\ file.sections[c].records[s].id = base.chunks[c].records[s].id
             /\ file.sections[c].records[s].id # TombstoneId =>
                  file.sections[c].records[s] \in UNION seen

Covers(base, file, manager, seen) ==
  /\ SoundManager(base)
  /\ file.exists
  /\ file.superblock = Superblock(base)
  /\ Grown(manager, base)
  /\ \E saved \in seen : LiveIds(base) = IdsOf(saved)
  /\ \A c \in ChunkIds(base) : Between(c, base, file, manager, seen)

(* The ids of the live records, said in two ways.                            *)
LEMMA LiveIdsMeaning ==
  ASSUME NEW manager
  PROVE  LiveIds(manager) = IdsOf(LiveSet(manager))
BY DEF LiveIds, IdsOf, LiveSet

(* The numbers of a section.                                                 *)
LEMMA SectionTyped ==
  ASSUME NEW file, IsFile(file), NEW c \in DOMAIN file.sections
  PROVE  /\ file.sections[c] \in Section
         /\ file.sections[c].header \in FileHeader
         /\ file.sections[c].header.used_slots \in 0 .. ChunkCapacity
         /\ file.sections[c].header.used_slots \in Nat
         /\ file.sections[c].header.tombstones \in Nat
BY CapacityAssumption DEF IsFile, Section, FileHeader

(* A slot in use that is no tombstone is a live location.                    *)
LEMMA SlotLives ==
  ASSUME NEW manager, IsChunkManager(manager), NEW c \in ChunkIds(manager),
         NEW s \in 0 .. manager.chunks[c].used_slots - 1
  PROVE  /\ s \in Slots
         /\ manager.chunks[c].records[s].id # TombstoneId =>
              /\ LocationOf(c, s) \in LiveLocations(manager)
              /\ manager.chunks[c].records[s] \in LiveSet(manager)
<1>1. manager.chunk_count \in Nat /\ manager.chunks[c].used_slots \in 0 .. ChunkCapacity
  BY ChunkTyped DEF IsChunkManager
<1>2. s \in Slots /\ c \in Nat /\ c < manager.chunk_count /\ s < manager.chunks[c].used_slots
  BY <1>1, CapacityAssumption DEF Slots, ChunkIds
<1>3. LocationOf(c, s) \in RecordLocation /\ Resolves(manager, LocationOf(c, s))
      /\ RecordAt(manager, LocationOf(c, s)) = manager.chunks[c].records[s]
  BY <1>2 DEF LocationOf, RecordLocation, Resolves, RecordAt
<1>4. ASSUME manager.chunks[c].records[s].id # TombstoneId
      PROVE  LocationOf(c, s) \in LiveLocations(manager)
  BY <1>3, <1>4, UsedMeaning
<1> QED
  BY <1>2, <1>3, <1>4 DEF LiveSet

(* A file that holds a manager covers it.                                    *)
LEMMA CoversSelf ==
  ASSUME NEW file, NEW manager, SoundManager(manager), FileHolds(file, manager),
         NEW seen, LiveSet(manager) \in seen,
         NEW new, IsChunkManager(new), Grown(new, manager)
  PROVE  Covers(manager, file, new, seen)
<1>1. IsChunkManager(manager)
  BY DEF SoundManager
<1>2. ASSUME NEW c \in ChunkIds(manager)
      PROVE  Between(c, manager, file, new, seen)
  <2>1. SectionHolds(file, c, manager.chunks[c])
    BY DEF FileHolds
  <2>2. /\ c \in DOMAIN file.sections
        /\ file.sections[c].header.used_slots = manager.chunks[c].used_slots
        /\ file.sections[c].header.tombstones = manager.chunks[c].tombstones
        /\ file.sections[c].records # NoRecords
        /\ \A s \in 0 .. manager.chunks[c].used_slots - 1 :
             file.sections[c].records[s] = manager.chunks[c].records[s]
    BY <2>1 DEF SectionHolds, Header
  <2>3. manager.chunks[c].used_slots \in Nat /\ manager.chunks[c].tombstones \in Nat
    BY <1>1, ChunkTyped
  <2>4. manager.chunks[c].used_slots <= new.chunks[c].used_slots
        /\ manager.chunks[c].tombstones <= new.chunks[c].tombstones
    BY DEF Grown
  <2>5. \A s \in 0 .. manager.chunks[c].used_slots - 1 :
          manager.chunks[c].records[s].id # TombstoneId => manager.chunks[c].records[s] \in UNION seen
    <3> SUFFICES ASSUME NEW s \in 0 .. manager.chunks[c].used_slots - 1,
                        manager.chunks[c].records[s].id # TombstoneId
                 PROVE  manager.chunks[c].records[s] \in UNION seen
      OBVIOUS
    <3>1. manager.chunks[c].records[s] \in LiveSet(manager)
      BY <1>1, SlotLives
    <3> QED
      BY <3>1
  <2> QED
    BY <2>2, <2>3, <2>4, <2>5 DEF Between
<1>3. \E saved \in seen : LiveIds(manager) = IdsOf(saved)
  BY LiveIdsMeaning
<1> QED
  BY <1>2, <1>3 DEF Covers, FileHolds

(* What grows in memory, and more that was seen, change nothing in the file. *)
LEMMA CoversGrows ==
  ASSUME NEW base, NEW file, IsFile(file), NEW old, IsChunkManager(old), NEW seen, Covers(base, file, old, seen),
         NEW new, IsChunkManager(new), Grown(new, old), NEW more, seen \subseteq more
  PROVE  Covers(base, file, new, more)
<1>1. IsChunkManager(base) /\ Grown(old, base)
  BY DEF Covers, SoundManager
<1>2. Grown(new, base)
  BY <1>1, GrownTransitive
<1>3. ASSUME NEW c \in ChunkIds(base)
      PROVE  Between(c, base, file, new, more)
  <2>1. Between(c, base, file, old, seen)
    BY DEF Covers
  <2>2. c \in ChunkIds(old) /\ c \in ChunkIds(new)
    BY <1>1, <1>2, GrownChunks
  <2>3. /\ old.chunks[c].used_slots \in Nat /\ new.chunks[c].used_slots \in Nat
        /\ old.chunks[c].tombstones \in Nat /\ new.chunks[c].tombstones \in Nat
    BY <2>2, ChunkTyped
  <2>4. old.chunks[c].used_slots <= new.chunks[c].used_slots
        /\ old.chunks[c].tombstones <= new.chunks[c].tombstones
    BY <2>2 DEF Grown
  <2>5. file.sections[c].header.used_slots \in Nat /\ file.sections[c].header.tombstones \in Nat
    BY <2>1, SectionTyped DEF Between
  <2>6. file.sections[c].header.used_slots <= old.chunks[c].used_slots
        /\ file.sections[c].header.tombstones <= old.chunks[c].tombstones
    BY <2>1 DEF Between
  <2>7. file.sections[c].header.used_slots <= new.chunks[c].used_slots
        /\ file.sections[c].header.tombstones <= new.chunks[c].tombstones
    BY <2>3, <2>4, <2>5, <2>6
  <2>8. UNION seen \subseteq UNION more
    OBVIOUS
  <2> QED
    BY <2>1, <2>7, <2>8 DEF Between
<1>4. \E saved \in more : LiveIds(base) = IdsOf(saved)
  BY DEF Covers
<1> QED
  BY <1>2, <1>3, <1>4 DEF Covers

(* A write of a header, or of some or all records of a section whose header  *)
(* was written, leaves the file between base and memory.                     *)
LEMMA CoversWrites ==
  ASSUME NEW base, NEW file, IsFile(file), NEW manager, SoundManager(manager), NEW seen,
         Covers(base, file, manager, seen), LiveSet(manager) \in seen,
         NEW c \in ChunkIds(manager), NEW new,
         new.exists = file.exists, new.superblock = file.superblock,
         \A k \in DOMAIN file.sections : k \in DOMAIN new.sections,
         \A k \in DOMAIN file.sections : k # c => new.sections[k] = file.sections[k],
         new.sections[c].header = Header(c, manager.chunks[c].used_slots, manager.chunks[c].tombstones),
         c \in DOMAIN file.sections /\ file.sections[c].records # NoRecords =>
           /\ new.sections[c].records # NoRecords
           /\ \A s \in Slots : new.sections[c].records[s] \in {file.sections[c].records[s],
                                                               manager.chunks[c].records[s]}
  PROVE  Covers(base, new, manager, seen)
<1>1. IsChunkManager(base) /\ Exact(base) /\ Grown(manager, base) /\ IsChunkManager(manager) /\ Exact(manager)
  BY DEF Covers, SoundManager
<1>2. ASSUME NEW k \in ChunkIds(base), k # c
      PROVE  Between(k, base, new, manager, seen)
  <2>1. Between(k, base, file, manager, seen)
    BY DEF Covers
  <2>2. k \in DOMAIN new.sections /\ new.sections[k] = file.sections[k]
    BY <1>2, <2>1 DEF Between
  <2> QED
    BY <2>1, <2>2 DEF Between
<1>3. ASSUME c \in ChunkIds(base)
      PROVE  Between(c, base, new, manager, seen)
  <2>1. Between(c, base, file, manager, seen)
    BY <1>3 DEF Covers
  <2>2. c \in DOMAIN file.sections /\ c \in DOMAIN new.sections
    BY <2>1 DEF Between
  <2>3. new.sections[c].header.used_slots = manager.chunks[c].used_slots
        /\ new.sections[c].header.tombstones = manager.chunks[c].tombstones
    BY DEF Header
  <2>4. /\ manager.chunks[c].used_slots \in Nat /\ manager.chunks[c].tombstones \in Nat
        /\ base.chunks[c].used_slots \in Nat /\ base.chunks[c].tombstones \in Nat
        /\ file.sections[c].header.used_slots \in Nat /\ file.sections[c].header.tombstones \in Nat
    BY <1>1, <1>3, <2>2, ChunkTyped, SectionTyped
  <2>5. base.chunks[c].used_slots <= manager.chunks[c].used_slots
        /\ base.chunks[c].tombstones <= manager.chunks[c].tombstones
    BY <1>1, <1>3 DEF Grown
  <2>6. ASSUME manager.chunks[c].used_slots = base.chunks[c].used_slots,
               manager.chunks[c].tombstones = base.chunks[c].tombstones
        PROVE  /\ new.sections[c].records # NoRecords
               /\ \A s \in 0 .. base.chunks[c].used_slots - 1 :
                    /\ new.sections[c].records[s].id = base.chunks[c].records[s].id
                    /\ new.sections[c].records[s].id # TombstoneId =>
                         new.sections[c].records[s] \in UNION seen
    <3>1. file.sections[c].header.used_slots = base.chunks[c].used_slots
          /\ file.sections[c].header.tombstones = base.chunks[c].tombstones
      <4>1. /\ base.chunks[c].used_slots <= file.sections[c].header.used_slots
            /\ base.chunks[c].tombstones <= file.sections[c].header.tombstones
            /\ file.sections[c].header.used_slots <= manager.chunks[c].used_slots
            /\ file.sections[c].header.tombstones <= manager.chunks[c].tombstones
        BY <2>1 DEF Between
      <4> QED
        BY <2>4, <2>6, <4>1
    <3>2. /\ file.sections[c].records # NoRecords
          /\ \A s \in 0 .. base.chunks[c].used_slots - 1 :
             /\ file.sections[c].records[s].id = base.chunks[c].records[s].id
             /\ file.sections[c].records[s].id # TombstoneId =>
                  file.sections[c].records[s] \in UNION seen
      BY <2>1, <3>1 DEF Between
    <3>3. ASSUME NEW s \in 0 .. base.chunks[c].used_slots - 1
          PROVE  manager.chunks[c].records[s].id = base.chunks[c].records[s].id
      <4>1. manager.chunks[c].tombstones = Cardinality(TombstoneSlots(manager, c))
            /\ base.chunks[c].tombstones = Cardinality(TombstoneSlots(base, c))
        BY <1>1, <1>3 DEF Exact, CountersExact, TombstoneSlots
      <4>2. Grown(manager, base) /\ c \in ChunkIds(base) /\ IsChunkManager(base)
            /\ manager.chunks[c].used_slots = base.chunks[c].used_slots
            /\ manager.chunks[c].tombstones = base.chunks[c].tombstones
        BY <1>1, <1>3, <2>6
      <4>3. s \in Slots /\ s < base.chunks[c].used_slots
        BY <1>1, <1>3, <2>4, SlotLives
      <4>4. SameExactCounts(manager, base, c)
        BY <4>1, <4>2 DEF SameExactCounts
      <4> QED
        BY ONLY <4>2, <4>3, <4>4, EqualCounts
    <3>4. /\ new.sections[c].records # NoRecords
          /\ \A s \in Slots : new.sections[c].records[s] \in {file.sections[c].records[s],
                                                              manager.chunks[c].records[s]}
      BY <2>2, <3>2
    <3>5. ASSUME NEW s \in 0 .. base.chunks[c].used_slots - 1
          PROVE  /\ new.sections[c].records[s].id = base.chunks[c].records[s].id
                 /\ new.sections[c].records[s].id # TombstoneId =>
                      new.sections[c].records[s] \in UNION seen
      <4>1. s \in Slots /\ s \in 0 .. manager.chunks[c].used_slots - 1
        BY <1>1, <2>6, <3>5, SlotLives
      <4>2. CASE new.sections[c].records[s] = file.sections[c].records[s]
        BY <3>2, <4>2
      <4>3. CASE new.sections[c].records[s] = manager.chunks[c].records[s]
        <5>1. manager.chunks[c].records[s].id # TombstoneId => manager.chunks[c].records[s] \in LiveSet(manager)
          BY <1>1, <4>1, SlotLives
        <5>2. new.sections[c].records[s].id # TombstoneId => new.sections[c].records[s] \in UNION seen
          BY <4>3, <5>1
        <5> QED
          BY <3>3, <4>3, <5>2
      <4> QED
        BY <3>4, <4>1, <4>2, <4>3
    <3> QED
      BY <3>4, <3>5
  <2>7. manager.chunks[c].used_slots <= manager.chunks[c].used_slots
        /\ manager.chunks[c].tombstones <= manager.chunks[c].tombstones
    BY <2>4
  <2> QED
    BY <2>2, <2>3, <2>5, <2>6, <2>7 DEF Between
<1> QED
  BY <1>2, <1>3 DEF Covers
(* The counts of a section between two are between theirs.                   *)
LEMMA BetweenCounts ==
  ASSUME NEW base, NEW file, NEW manager, NEW seen, Covers(base, file, manager, seen), Loadable(file)
  PROVE  LET new == Loaded(file) IN
         /\ new.chunk_count = base.chunk_count
         /\ ChunkIds(new) = ChunkIds(base)
         /\ new.total_used_slots = base.total_used_slots
         /\ new.total_tombstones = base.total_tombstones
         /\ \A c \in ChunkIds(base) :
              /\ Between(c, base, file, manager, seen)
              /\ new.chunks[c].records = file.sections[c].records
              /\ new.chunks[c].used_slots = file.sections[c].header.used_slots
              /\ new.chunks[c].tombstones = file.sections[c].header.tombstones
              /\ base.chunks[c].used_slots <= new.chunks[c].used_slots
              /\ base.chunks[c].tombstones <= new.chunks[c].tombstones
<1> DEFINE new == Loaded(file)
<1>1. /\ new.chunk_count = file.superblock.chunk_count
      /\ new.total_used_slots = file.superblock.total_used_slots
      /\ new.total_tombstones = file.superblock.total_tombstones
      /\ ChunkIds(new) = SectionIds(file)
      /\ \A c \in SectionIds(file) :
           /\ new.chunks[c].records = file.sections[c].records
           /\ new.chunks[c].used_slots = file.sections[c].header.used_slots
           /\ new.chunks[c].tombstones = file.sections[c].header.tombstones
  BY LoadedFields
<1> HIDE DEF new
<1>2. file.superblock = Superblock(base) /\ \A c \in ChunkIds(base) : Between(c, base, file, manager, seen)
  BY DEF Covers
<1>3. /\ new.chunk_count = base.chunk_count
      /\ new.total_used_slots = base.total_used_slots
      /\ new.total_tombstones = base.total_tombstones
      /\ ChunkIds(new) = ChunkIds(base)
  BY <1>1, <1>2 DEF Superblock, ChunkIds
<1>4. \A c \in ChunkIds(base) :
        /\ base.chunks[c].used_slots <= new.chunks[c].used_slots
        /\ base.chunks[c].tombstones <= new.chunks[c].tombstones
  BY <1>1, <1>2, <1>3 DEF Between
<1> QED
  BY <1>1, <1>2, <1>3, <1>4 DEF new

(* A file that covers a manager and that a load accepts has its ids, and     *)
(* nothing that was not seen.                                                *)
LEMMA CoversFileSound ==
  ASSUME NEW base, NEW file, IsFile(file), NEW manager, IsChunkManager(manager), NEW seen,
         Covers(base, file, manager, seen), Loadable(file)
  PROVE  /\ Exact(Loaded(file))
         /\ \E saved \in seen : LiveIds(Loaded(file)) = IdsOf(saved)
         /\ LiveSet(Loaded(file)) \subseteq UNION seen
<1> DEFINE new == Loaded(file)
           n == base.chunk_count
           usedB == [c \in ChunkIds(base) |-> base.chunks[c].used_slots]
           usedN == [c \in ChunkIds(base) |-> new.chunks[c].used_slots]
           tombB == [c \in ChunkIds(base) |-> base.chunks[c].tombstones]
           tombN == [c \in ChunkIds(base) |-> new.chunks[c].tombstones]
<1>1. IsChunkManager(base) /\ Exact(base) /\ n \in Nat
  BY DEF Covers, SoundManager, IsChunkManager
<1>2. IsChunkManager(new)
  BY LoadedTyped
<1>3. /\ new.chunk_count = n
      /\ ChunkIds(new) = ChunkIds(base)
      /\ new.total_used_slots = base.total_used_slots
      /\ new.total_tombstones = base.total_tombstones
      /\ \A c \in ChunkIds(base) :
           /\ Between(c, base, file, manager, seen)
           /\ new.chunks[c].records = file.sections[c].records
           /\ new.chunks[c].used_slots = file.sections[c].header.used_slots
           /\ new.chunks[c].tombstones = file.sections[c].header.tombstones
           /\ base.chunks[c].used_slots <= new.chunks[c].used_slots
           /\ base.chunks[c].tombstones <= new.chunks[c].tombstones
  BY BetweenCounts
<1>4. /\ new.total_used_slots = SumOf(usedN, n)
      /\ new.total_tombstones = SumOf(tombN, n)
  <2>1. TotalsAgree(file)
    BY DEF Loadable
  <2>2. /\ new.total_used_slots = SumOf([c \in ChunkIds(new) |-> new.chunks[c].used_slots], new.chunk_count)
        /\ new.total_tombstones = SumOf([c \in ChunkIds(new) |-> new.chunks[c].tombstones], new.chunk_count)
    BY <2>1, TotalsMeaning
  <2> HIDE DEF new
  <2> QED
    BY <1>3, <2>2
<1>5. /\ base.total_used_slots = SumOf(usedB, n)
      /\ base.total_tombstones = SumOf(tombB, n)
  <2>1. /\ base.total_used_slots = Cardinality(UsedLocations(base))
        /\ base.total_tombstones = Cardinality(Tombstones(base))
        /\ \A c \in ChunkIds(base) :
             base.chunks[c].tombstones = Cardinality(TombstoneSlots(base, c))
    BY <1>1 DEF Exact, CountersExact, TombstoneSlots
  <2> QED
    BY <1>1, <2>1, UsedIsSum, TombstonesAreSum
<1> HIDE DEF new
<1>6. \A c \in 0 .. n - 1 :
        /\ c \in ChunkIds(base)
        /\ base.chunks[c].used_slots \in Nat /\ base.chunks[c].tombstones \in Nat
        /\ new.chunks[c].used_slots \in Nat /\ new.chunks[c].tombstones \in Nat
  BY <1>1, <1>2, <1>3, ChunkTyped DEF ChunkIds
<1>7. /\ \A c \in 0 .. n - 1 : usedB[c] \in Int /\ usedN[c] \in Int /\ usedB[c] <= usedN[c]
      /\ \A c \in 0 .. n - 1 : tombB[c] \in Int /\ tombN[c] \in Int /\ tombB[c] <= tombN[c]
  BY <1>3, <1>6
<1>8. SumOf(usedB, n) = SumOf(usedN, n) /\ SumOf(tombB, n) = SumOf(tombN, n)
  BY <1>3, <1>4, <1>5
<1>9. /\ \A c \in 0 .. n - 1 : usedB[c] = usedN[c]
      /\ \A c \in 0 .. n - 1 : tombB[c] = tombN[c]
  <2> HIDE DEF usedB, usedN, tombB, tombN
  <2> QED
    BY <1>1, <1>7, <1>8, SumSqueeze
<1>10. ASSUME NEW c \in ChunkIds(base)
       PROVE  /\ new.chunks[c].used_slots = base.chunks[c].used_slots
              /\ new.chunks[c].tombstones = base.chunks[c].tombstones
  BY <1>9 DEF ChunkIds
<1>11. ASSUME NEW c \in ChunkIds(base), NEW s \in 0 .. base.chunks[c].used_slots - 1
       PROVE  /\ new.chunks[c].records[s].id = base.chunks[c].records[s].id
              /\ new.chunks[c].records[s].id # TombstoneId => new.chunks[c].records[s] \in UNION seen
  <2>1. /\ Between(c, base, file, manager, seen)
        /\ new.chunks[c].records = file.sections[c].records
        /\ file.sections[c].header.used_slots = base.chunks[c].used_slots
        /\ file.sections[c].header.tombstones = base.chunks[c].tombstones
    BY <1>3, <1>10
  <2> QED
    BY <2>1 DEF Between
<1>12. SameIds(new, base)
  BY <1>3, <1>10, <1>11 DEF SameIds
<1>13. LiveLocations(new) = LiveLocations(base) /\ LiveIds(new) = LiveIds(base) /\ Exact(new)
  BY <1>1, <1>2, <1>12, SameIdsMeaning
<1>14. LiveSet(new) \subseteq UNION seen
  <2> SUFFICES ASSUME NEW loc \in LiveLocations(new) PROVE RecordAt(new, loc) \in UNION seen
    BY DEF LiveSet
  <2>1. loc \in RecordLocation /\ Resolves(base, loc) /\ RecordAt(new, loc).id # TombstoneId
    BY <1>1, <1>2, <1>13, UsedMeaning
  <2>2. loc.chunk_id \in ChunkIds(base)
    BY <1>1, <2>1 DEF RecordLocation, Resolves, ChunkIds
  <2>3. loc.slot_index \in 0 .. base.chunks[loc.chunk_id].used_slots - 1
    BY <1>1, <2>1, <2>2, ChunkTyped, CapacityAssumption DEF Slots, Resolves, RecordLocation
  <2> QED
    BY <1>11, <2>1, <2>2, <2>3 DEF RecordAt
<1>15. \E saved \in seen : LiveIds(new) = IdsOf(saved)
  BY <1>13 DEF Covers
<1> QED
  BY <1>13, <1>14, <1>15 DEF new

(* A file that a load accepts, with counters that are exact, holds what it   *)
(* is loaded as, and that is sound if its records are.                       *)
LEMMA BootedSound ==
  ASSUME NEW file, IsFile(file), Loadable(file), Exact(Loaded(file))
  PROVE  /\ IsChunkManager(Loaded(file))
         /\ FileHolds(file, Loaded(file))
         /\ Bootable(file) <=> SoundManager(Loaded(file))
<1> DEFINE new == Loaded(file)
<1>1. IsChunkManager(new) /\ \A c \in ChunkIds(new) : SectionHolds(file, c, new.chunks[c])
  BY LoadedTyped
<1>2. file.exists /\ ValidSuperblock(file.superblock)
  BY DEF Loadable
<1>3. file.superblock = Superblock(new)
  <2>1. file.superblock \in FileSuperblock
    BY <1>2 DEF IsFile, ValidSuperblock
  <2> QED
    BY <2>1, LoadedFields DEF FileSuperblock, Superblock
<1>4. \A c \in ChunkIds(new) : new.chunks[c].dirty = FALSE
  BY LoadedFields
<1> HIDE DEF new
<1>5. Bootable(file) <=> LiveValid(new)
  BY <1>1, HydrationMeaning DEF Bootable, new
<1> QED
  BY <1>1, <1>2, <1>3, <1>5 DEF FileHolds, SoundManager, new
-----------------------------------------------------------------------------
(* What compaction writes *)

(* A sequence that lists, once each, what is found at a set of places.       *)
ListsBy(at, sequence, S, content) ==
  /\ at \in [1 .. Len(sequence) -> S]
  /\ \A i, j \in 1 .. Len(sequence) : at[i] = at[j] => i = j
  /\ \A x \in S : \E i \in 1 .. Len(sequence) : at[i] = x
  /\ \A i \in 1 .. Len(sequence) : sequence[i] = content[at[i]]

Lists(sequence, S, content) == \E at : ListsBy(at, sequence, S, content)

(* The empty sequence lists nothing.                                         *)
LEMMA ListsNothing ==
  ASSUME NEW content
  PROVE  Lists(<<>>, {}, content)
<1> DEFINE at == [i \in 1 .. Len(<<>>) |-> 0]
<1>1. 1 .. Len(<<>>) = {}
  OBVIOUS
<1>2. ListsBy(at, <<>>, {}, content)
  BY <1>1 DEF ListsBy
<1> QED
  BY <1>2 DEF Lists

(* Two sequences that list different places list them all together.          *)
LEMMA ListsBoth ==
  ASSUME NEW F, NEW a \in Seq(F), NEW b \in Seq(F), NEW S, NEW T, NEW content,
         Lists(a, S, content), Lists(b, T, content), S \cap T = {}
  PROVE  Lists(a \o b, S \cup T, content)
<1>1. PICK p : ListsBy(p, a, S, content)
  BY DEF Lists
<1>2. PICK q : ListsBy(q, b, T, content)
  BY DEF Lists
<1> DEFINE m == Len(a)
           n == Len(b)
           new == a \o b
           at == [i \in 1 .. m + n |-> IF i <= m THEN p[i] ELSE q[i - m]]
<1>3. m \in Nat /\ n \in Nat /\ Len(new) = m + n
      /\ \A i \in 1 .. m + n : new[i] = IF i <= m THEN a[i] ELSE b[i - m]
  BY ConcatProperties
<1>4. /\ p \in [1 .. m -> S]
      /\ \A i, j \in 1 .. m : p[i] = p[j] => i = j
      /\ \A x \in S : \E i \in 1 .. m : p[i] = x
      /\ \A i \in 1 .. m : a[i] = content[p[i]]
  BY <1>1 DEF ListsBy
<1>5. /\ q \in [1 .. n -> T]
      /\ \A i, j \in 1 .. n : q[i] = q[j] => i = j
      /\ \A x \in T : \E i \in 1 .. n : q[i] = x
      /\ \A i \in 1 .. n : b[i] = content[q[i]]
  BY <1>2 DEF ListsBy
<1> HIDE DEF m, n, new
<1>6. ASSUME NEW i \in 1 .. m + n
      PROVE  \/ i \in 1 .. m /\ at[i] = p[i] /\ at[i] \in S
             \/ i - m \in 1 .. n /\ ~(i <= m) /\ at[i] = q[i - m] /\ at[i] \in T
  <2>0. at[i] = IF i <= m THEN p[i] ELSE q[i - m]
    OBVIOUS
  <2> HIDE DEF at
  <2>1. CASE i <= m
    <3>1. i \in 1 .. m /\ at[i] = p[i]
      BY <1>3, <2>0, <2>1
    <3>2. p[i] \in S
      BY <1>4, <3>1
    <3> QED
      BY <3>1, <3>2
  <2>2. CASE ~(i <= m)
    <3>1. i - m \in 1 .. n /\ at[i] = q[i - m]
      BY <1>3, <2>0, <2>2
    <3>2. q[i - m] \in T
      BY <1>5, <3>1
    <3> QED
      BY <2>2, <3>1, <3>2
  <2> QED
    BY <2>1, <2>2
<1>7. at \in [1 .. m + n -> S \cup T]
  BY <1>6
<1>8. ASSUME NEW i \in 1 .. m + n, NEW j \in 1 .. m + n, at[i] = at[j]
      PROVE  i = j
  <2>1. CASE i \in 1 .. m /\ j \in 1 .. m
    BY <1>3, <1>4, <1>8, <2>1
  <2>2. CASE i \notin 1 .. m /\ j \notin 1 .. m
    <3>1. i - m \in 1 .. n /\ j - m \in 1 .. n /\ q[i - m] = q[j - m]
      BY <1>3, <1>6, <1>8, <2>2
    <3>2. i - m = j - m
      BY <1>5, <3>1
    <3> QED
      BY <1>3, <3>2
  <2>3. \A k \in 1 .. m + n : (k \in 1 .. m => at[k] \in S) /\ (k \notin 1 .. m => at[k] \in T)
    BY <1>3, <1>6
  <2>4. CASE i \in 1 .. m /\ j \notin 1 .. m
    BY <1>8, <2>3, <2>4
  <2>5. CASE i \notin 1 .. m /\ j \in 1 .. m
    BY <1>8, <2>3, <2>5
  <2> QED
    BY <2>1, <2>2, <2>4, <2>5
<1>9. ASSUME NEW x \in S \cup T
      PROVE  \E i \in 1 .. m + n : at[i] = x
  <2>1. CASE x \in S
    <3>1. PICK i \in 1 .. m : p[i] = x
      BY <1>4, <2>1
    <3>2. i \in 1 .. m + n /\ at[i] = x
      BY <1>3, <3>1
    <3> QED
      BY <3>2
  <2>2. CASE x \in T
    <3>1. PICK i \in 1 .. n : q[i] = x
      BY <1>5, <2>2
    <3> DEFINE k == i + m
    <3>2. k \in 1 .. m + n /\ ~(k <= m) /\ k - m = i
      BY <1>3
    <3> HIDE DEF k
    <3>3. at[k] = x
      BY <3>1, <3>2
    <3> QED
      BY <3>2, <3>3
  <2> QED
    BY <2>1, <2>2
<1>10. ASSUME NEW i \in 1 .. m + n
       PROVE  new[i] = content[at[i]]
  <2>0. new[i] = IF i <= m THEN a[i] ELSE b[i - m]
    BY <1>3
  <2> HIDE DEF at
  <2>1. CASE i \in 1 .. m /\ at[i] = p[i]
    <3>1. i <= m
      BY <1>3, <2>1
    <3> QED
      BY <1>4, <2>0, <2>1, <3>1
  <2>2. CASE i - m \in 1 .. n /\ ~(i <= m) /\ at[i] = q[i - m]
    BY <1>5, <2>0, <2>2
  <2> QED
    BY <1>6, <2>1, <2>2
<1>11. ListsBy(at, new, S \cup T, content)
  BY <1>3, <1>7, <1>8, <1>9, <1>10 DEF ListsBy
<1> QED
  BY <1>11 DEF Lists, new

(* Appending what is found at one more place.                                *)
LEMMA ListsOneMore ==
  ASSUME NEW F, NEW a \in Seq(F), NEW S, NEW content, Lists(a, S, content), NEW x, x \notin S,
         content[x] \in F
  PROVE  Lists(Append(a, content[x]), S \cup {x}, content)
<1> DEFINE b == <<content[x]>>
           at == [i \in 1 .. 1 |-> x]
<1>1. b \in Seq(F) /\ Len(b) = 1 /\ b[1] = content[x]
  OBVIOUS
<1>2. ListsBy(at, b, {x}, content)
  BY <1>1 DEF ListsBy
<1>3. Lists(b, {x}, content)
  BY <1>2 DEF Lists
<1>4. Append(a, content[x]) = a \o b
  OBVIOUS
<1> HIDE DEF b
<1>5. S \cap {x} = {}
  OBVIOUS
<1>6. Lists(a \o b, S \cup {x}, content)
  BY <1>1, <1>3, <1>5, ListsBoth
<1> QED
  BY <1>4, <1>6

(* The length of such a sequence and what is in it.                          *)
LEMMA ListsMeaning ==
  ASSUME NEW F, NEW a \in Seq(F), NEW S, NEW content, Lists(a, S, content)
  PROVE  /\ IsFiniteSet(S) /\ Cardinality(S) = Len(a)
         /\ \A i \in 1 .. Len(a) : \E x \in S : a[i] = content[x]
         /\ \A x \in S : \E i \in 1 .. Len(a) : a[i] = content[x]
<1>1. PICK at : ListsBy(at, a, S, content)
  BY DEF Lists
<1> DEFINE n == Len(a)
           I == 1 .. n
<1>2. n \in Nat
  OBVIOUS
<1>3. /\ at \in [I -> S]
      /\ \A i, j \in I : at[i] = at[j] => i = j
      /\ \A x \in S : \E i \in I : at[i] = x
      /\ \A i \in I : a[i] = content[at[i]]
  BY <1>1 DEF ListsBy
<1>4. IsFiniteSet(I) /\ Cardinality(I) = n
  <2>1. \A u \in Nat : IsFiniteSet(1 .. u) /\ Cardinality(1 .. u) = u
    BY FS_Interval
  <2> HIDE DEF n
  <2> QED
    BY <1>2, <2>1
<1> HIDE DEF I, n
<1>5. at \in Bijection(I, S)
  BY <1>3 DEF Bijection, Injection, Surjection, IsInjective
<1>6. IsFiniteSet(S) /\ Cardinality(S) = n
  BY <1>4, <1>5, FS_Bijection DEF ExistsBijection
<1>7. /\ \A i \in I : \E x \in S : a[i] = content[x]
      /\ \A x \in S : \E i \in I : a[i] = content[x]
  BY <1>3
<1> QED
  BY <1>6, <1>7 DEF I, n
(* What a manager has at its locations.                                      *)
Content(manager) == [loc \in RecordLocation |-> RecordAt(manager, loc)]

LiveIn(manager, c) == {loc \in LiveLocations(manager) : loc.chunk_id = c}

(* The loop over a section lists the live records of the chunk it is loaded  *)
(* as.                                                                       *)
LEMMA SectionLists ==
  ASSUME NEW file, IsFile(file), Loadable(file), NEW c \in SectionIds(file)
  PROVE  Lists(LiveOfSection(file.sections[c]), LiveIn(Loaded(file), c), Content(Loaded(file)))
<1> DEFINE m == Loaded(file)
           section == file.sections[c]
           N == section.header.used_slots
           Upto(n) == {loc \in LiveIn(m, c) : loc.slot_index < n}
           content == Content(m)
<1>1. IsChunkManager(m) /\ c \in ChunkIds(m) /\ c \in Nat
      /\ m.chunks[c].used_slots = N /\ m.chunks[c].records = section.records
  <2>1. c \in ChunkIds(m) /\ m.chunks[c].used_slots = N /\ m.chunks[c].records = section.records
    BY LoadedFields
  <2>2. IsChunkManager(m)
    BY LoadedTyped
  <2> QED
    BY <2>1, <2>2 DEF SectionIds
<1>2. section \in Section /\ section.records # NoRecords /\ N \in 0 .. ChunkCapacity /\ N \in Nat
      /\ section.records \in [Slots -> FileRecord]
  <2>1. c \in DOMAIN file.sections /\ section.records # NoRecords
    BY DEF Loadable, ReadableSection
  <2>2. section \in Section
    BY <2>1 DEF IsFile
  <2> QED
    BY <2>1, <2>2, CapacityAssumption DEF Section, FileHeader, FileRecord
<1>3. PICK live \in [0 .. N -> Seq(Unburied)] :
        /\ live[0] = <<>>
        /\ \A n \in 1 .. N : live[n] = IF section.records[n - 1].id = TombstoneId THEN live[n - 1]
                                       ELSE Append(live[n - 1], section.records[n - 1])
        /\ LiveOfSection(section) = live[N]
  BY <1>2, LiveOfSectionUnfolds
<1> HIDE DEF section, N, m
<1>4. \A loc : loc \in LiveIn(m, c) <=>
        /\ loc \in RecordLocation /\ loc.chunk_id = c /\ loc.slot_index < N
        /\ section.records[loc.slot_index].id # TombstoneId
  <2>1. \A loc : loc \in LiveLocations(m) <=>
          loc \in RecordLocation /\ Resolves(m, loc) /\ RecordAt(m, loc).id # TombstoneId
    BY <1>1, UsedMeaning
  <2>2. c < m.chunk_count
    BY <1>1 DEF ChunkIds, IsChunkManager
  <2> QED
    BY <1>1, <2>1, <2>2 DEF LiveIn, Resolves, RecordAt
<1> DEFINE T == {n \in 0 .. N : Lists(live[n], Upto(n), content)}
<1>5. 0 \in T
  <2>1. Upto(0) = {}
    BY <1>4, CapacityAssumption DEF RecordLocation, Slots
  <2> HIDE DEF Upto, content
  <2>2. Lists(live[0], Upto(0), content)
    BY <1>3, <2>1, ListsNothing
  <2> QED
    BY <1>2, <2>2
<1>6. ASSUME NEW n \in 1 .. N, n - 1 \in T
      PROVE  n \in T
  <2> DEFINE loc == LocationOf(c, n - 1)
  <2>1. n \in 0 .. N /\ n - 1 \in 0 .. N /\ n - 1 \in Slots /\ n \in Nat
    BY <1>2, CapacityAssumption DEF Slots
  <2>2. loc \in RecordLocation /\ loc.chunk_id = c /\ loc.slot_index = n - 1
    BY <1>1, <2>1 DEF LocationOf, RecordLocation
  <2>3. \A other \in RecordLocation : other.chunk_id = c /\ other.slot_index = n - 1 => other = loc
    BY DEF RecordLocation, LocationOf
  <2>4. \A other \in RecordLocation : other.slot_index < n <=> other.slot_index < n - 1 \/ other.slot_index = n - 1
    BY <2>1, CapacityAssumption DEF RecordLocation, Slots
  <2>5. content[loc] = section.records[n - 1]
    BY <1>1, <2>2 DEF Content, RecordAt
  <2> HIDE DEF loc
  <2>6. Lists(live[n - 1], Upto(n - 1), content) /\ live[n - 1] \in Seq(Unburied)
    BY <1>6, <2>1
  <2>7. live[n] = IF section.records[n - 1].id = TombstoneId THEN live[n - 1]
                  ELSE Append(live[n - 1], section.records[n - 1])
    BY <1>3
  <2>8. CASE section.records[n - 1].id = TombstoneId
    <3>1. Upto(n) = Upto(n - 1)
      BY <1>4, <2>1, <2>2, <2>3, <2>4, <2>8
    <3> HIDE DEF Upto, content
    <3> QED
      BY <2>1, <2>6, <2>7, <2>8, <3>1
  <2>9. CASE section.records[n - 1].id # TombstoneId
    <3>1. Upto(n) = Upto(n - 1) \cup {loc}
      <4>1. loc.slot_index < n /\ loc.slot_index < N
        BY <1>2, <2>1, <2>2
      <4>2. loc \in LiveIn(m, c)
        BY <1>4, <2>2, <2>9, <4>1
      <4> QED
        BY <1>4, <2>2, <2>3, <2>4, <4>1, <4>2
    <3>2. loc \notin Upto(n - 1)
      BY <2>1, <2>2
    <3>3. content[loc] \in Unburied
      BY <1>2, <2>1, <2>5, <2>9 DEF Unburied
    <3> HIDE DEF Upto, content
    <3>4. Lists(Append(live[n - 1], content[loc]), Upto(n - 1) \cup {loc}, content)
      BY <2>6, <3>2, <3>3, ListsOneMore
    <3>5. live[n] = Append(live[n - 1], content[loc])
      BY <2>5, <2>7, <2>9
    <3>6. Lists(live[n], Upto(n), content)
      BY <3>1, <3>4, <3>5
    <3> QED
      BY <2>1, <3>6
  <2> QED
    BY <2>8, <2>9
<1>7. Lists(live[N], Upto(N), content)
  <2> HIDE DEF T
  <2>1. 0 .. N \subseteq T
    BY <1>2, <1>5, <1>6, Reaches
  <2>2. N \in T
    BY <1>2, <2>1
  <2> QED
    BY <2>2 DEF T
<1>8. Upto(N) = LiveIn(m, c)
  BY <1>4
<1> HIDE DEF Upto, content
<1> QED
  BY <1>3, <1>7, <1>8 DEF m, section, content

(* The loop over the sections lists the live records of the manager that a   *)
(* load makes of the file.                                                   *)
LEMMA FileLists ==
  ASSUME NEW file, IsFile(file), Loadable(file)
  PROVE  /\ LiveRecords(file) \in Seq(Unburied)
         /\ Lists(LiveRecords(file), LiveLocations(Loaded(file)), Content(Loaded(file)))
<1> DEFINE m == Loaded(file)
           N == file.superblock.chunk_count
           Upto(n) == {loc \in LiveLocations(m) : loc.chunk_id < n}
           content == Content(m)
<1>1. /\ N \in Nat
      /\ file.superblock \in FileSuperblock
      /\ SectionIds(file) = 0 .. N - 1
      /\ \A c \in SectionIds(file) : ReadableSection(file, c)
  <2>1. file.superblock \in FileSuperblock
    BY DEF IsFile, Loadable, ValidSuperblock
  <2> QED
    BY <2>1 DEF FileSuperblock, Loadable, SectionIds
<1>2. PICK found \in [0 .. N -> Seq(Unburied)] :
        /\ found[0] = <<>>
        /\ \A n \in 1 .. N : found[n] = found[n - 1] \o LiveOfSection(file.sections[n - 1])
        /\ LiveRecords(file) = found[N]
  BY <1>1, LiveRecordsUnfolds
<1>3. \A loc \in LiveLocations(m) : loc.chunk_id \in 0 .. N - 1 /\ loc.chunk_id \in Nat
  <2>1. ChunkIds(m) = 0 .. N - 1
    BY <1>1, LoadedFields
  <2> HIDE DEF m
  <2> QED
    BY <1>1, <2>1 DEF LiveLocations, UsedLocations
<1> HIDE DEF m, N
<1> DEFINE T == {n \in 0 .. N : Lists(found[n], Upto(n), content)}
<1>4. 0 \in T
  <2>1. Upto(0) = {}
    BY <1>3
  <2> HIDE DEF Upto, content
  <2>2. Lists(found[0], Upto(0), content)
    BY <1>2, <2>1, ListsNothing
  <2> QED
    BY <1>1, <2>2
<1>5. ASSUME NEW n \in 1 .. N, n - 1 \in T
      PROVE  n \in T
  <2> DEFINE c == n - 1
             part == LiveOfSection(file.sections[c])
  <2>1. n \in 0 .. N /\ c \in 0 .. N /\ c \in SectionIds(file) /\ n = c + 1 /\ c \in Nat
    BY <1>1
  <2>2. found[n] = found[c] \o part /\ found[c] \in Seq(Unburied)
    BY <1>2, <2>1
  <2>3. Lists(found[c], Upto(c), content)
    BY <1>5
  <2> HIDE DEF c
  <2>4. Lists(part, LiveIn(m, c), content)
    BY <2>1, SectionLists DEF m
  <2>5. part \in Seq(Unburied)
    <3>1. file.sections[c] \in Section /\ file.sections[c].records # NoRecords
      BY <1>1, <2>1 DEF IsFile, ReadableSection
    <3> QED
      BY <3>1, LiveOfSectionTyped
  <2>6. Upto(n) = Upto(c) \cup LiveIn(m, c) /\ Upto(c) \cap LiveIn(m, c) = {}
    BY <1>3, <2>1 DEF LiveIn
  <2> HIDE DEF Upto, content, part
  <2>7. Lists(found[c] \o part, Upto(c) \cup LiveIn(m, c), content)
    BY <2>2, <2>3, <2>4, <2>5, <2>6, ListsBoth
  <2> QED
    BY <2>1, <2>2, <2>6, <2>7
<1>6. Lists(found[N], Upto(N), content)
  <2> HIDE DEF T
  <2>1. 0 .. N \subseteq T
    BY <1>1, <1>4, <1>5, Reaches
  <2>2. N \in T
    BY <1>1, <2>1
  <2> QED
    BY <2>2 DEF T
<1>7. Upto(N) = LiveLocations(m)
  BY <1>1, <1>3
<1> HIDE DEF Upto, content
<1> QED
  BY <1>1, <1>2, <1>6, <1>7 DEF m, content, N

(* So it lists the live set, and as many records as the totals promise.      *)
LEMMA FileListsMeaning ==
  ASSUME NEW file, IsFile(file), Loadable(file)
  PROVE  LET records == LiveRecords(file) IN
         /\ LiveSet(Loaded(file)) = {records[i] : i \in 1 .. Len(records)}
         /\ Cardinality(LiveLocations(Loaded(file))) = Len(records)
<1> DEFINE records == LiveRecords(file)
           m == Loaded(file)
           content == Content(m)
<1>1. records \in Seq(Unburied) /\ Lists(records, LiveLocations(m), content)
  BY FileLists
<1>2. /\ Cardinality(LiveLocations(m)) = Len(records)
      /\ \A i \in 1 .. Len(records) : \E loc \in LiveLocations(m) : records[i] = content[loc]
      /\ \A loc \in LiveLocations(m) : \E i \in 1 .. Len(records) : records[i] = content[loc]
  <2> HIDE DEF m, content, records
  <2> QED
    BY <1>1, ListsMeaning
<1>3. \A loc \in LiveLocations(m) : content[loc] = RecordAt(m, loc)
  <2>1. IsChunkManager(m)
    BY LoadedTyped
  <2>2. \A loc \in LiveLocations(m) : loc \in RecordLocation
    BY <2>1, UsedMeaning
  <2> HIDE DEF m
  <2> QED
    BY <2>2 DEF Content
<1> HIDE DEF m, content, records
<1>4. LiveSet(m) = {records[i] : i \in 1 .. Len(records)}
  BY <1>2, <1>3 DEF LiveSet
<1> QED
  BY <1>2, <1>4 DEF m, records
(* How many of n records a compacted file has in its chunk c, and how many   *)
(* in the k chunks before a chunk k.                                         *)
PartOf(n, c) == IF n - c * ChunkCapacity < ChunkCapacity THEN n - c * ChunkCapacity ELSE ChunkCapacity

FilledTo(n, k) == IF k * ChunkCapacity < n THEN k * ChunkCapacity ELSE n

(* Multiples of the capacity.                                                *)
LEMMA Multiples ==
  /\ 0 * ChunkCapacity = 0
  /\ \A c \in Nat : c * ChunkCapacity \in Nat /\ (c + 1) * ChunkCapacity = c * ChunkCapacity + ChunkCapacity
<1>1. ChunkCapacity \in Nat
  BY CapacityAssumption
<1>2. 0 * ChunkCapacity = 0
  BY <1>1
<1>3. ASSUME NEW c \in Nat
      PROVE  c * ChunkCapacity \in Nat /\ (c + 1) * ChunkCapacity = c * ChunkCapacity + ChunkCapacity
  BY <1>1
<1> QED
  BY <1>2, <1>3

(* There are no more chunks than the records need.                           *)
LEMMA CeilDivHolds ==
  ASSUME NEW n \in Nat
  PROVE  n <= CeilDiv(n, ChunkCapacity) * ChunkCapacity
<1>1. CASE n = 0
  BY <1>1, Multiples DEF CeilDiv
<1>2. CASE n # 0
  <2> DEFINE q == (n - 1) \div ChunkCapacity
             r == (n - 1) % ChunkCapacity
  <2>1. n - 1 \in Nat
    BY <1>2
  <2>2. q \in Nat /\ r \in 0 .. ChunkCapacity - 1 /\ n - 1 = ChunkCapacity * q + r
    <3>1. q \in Nat /\ r \in 0 .. ChunkCapacity - 1
      BY <2>1, NextSlot, CapacityAssumption
    <3>2. n - 1 = ChunkCapacity * q + r
      BY <2>1, CapacityAssumption
    <3> QED
      BY <3>1, <3>2
  <2>3. CeilDiv(n, ChunkCapacity) = q + 1
    <3> HIDE DEF q
    <3>1. CeilDiv(n, ChunkCapacity) = 1 + q
      BY <1>2 DEF CeilDiv, q
    <3> QED
      BY <2>2, <3>1
  <2> HIDE DEF q, r
  <2>4. ChunkCapacity * q = q * ChunkCapacity
    BY <2>2, CapacityAssumption
  <2> DEFINE x == q * ChunkCapacity
             y == (q + 1) * ChunkCapacity
  <2>5. x \in Nat /\ y = x + ChunkCapacity /\ n - 1 = x + r
    BY <2>2, <2>4, Multiples
  <2> HIDE DEF x, y
  <2>6. n <= y
    BY <2>2, <2>5, CapacityAssumption
  <2> QED
    BY <2>3, <2>6 DEF y
<1> QED
  BY <1>1, <1>2

(* The chunks but the last are full, and they fill up one after the other.   *)
LEMMA Parts ==
  ASSUME NEW n \in Nat
  PROVE  LET q == CeilDiv(n, ChunkCapacity) IN
         /\ q \in Nat /\ FilledTo(n, 0) = 0 /\ FilledTo(n, q) = n
         /\ \A c \in 0 .. q - 1 :
              /\ c * ChunkCapacity \in Nat
              /\ PartOf(n, c) \in 1 .. ChunkCapacity
              /\ FilledTo(n, c) = c * ChunkCapacity
              /\ FilledTo(n, c + 1) = c * ChunkCapacity + PartOf(n, c)
              /\ FilledTo(n, c + 1) <= n
              /\ c < q - 1 => PartOf(n, c) = ChunkCapacity
<1> DEFINE q == CeilDiv(n, ChunkCapacity)
<1>1. q \in Nat /\ (\A c \in 0 .. q - 1 : n - c * ChunkCapacity \in Nat \ {0}) /\ n <= q * ChunkCapacity
  BY CeilDivNatural, CeilDivHolds
<1> HIDE DEF q
<1>2. FilledTo(n, 0) = 0
  BY Multiples DEF FilledTo
<1>3. FilledTo(n, q) = n
  <2> DEFINE x == q * ChunkCapacity
  <2>1. x \in Nat /\ n <= x
    BY <1>1, Multiples
  <2>2. FilledTo(n, q) = IF x < n THEN x ELSE n
    BY DEF FilledTo
  <2> HIDE DEF x
  <2> QED
    BY <2>1, <2>2
<1>4. ASSUME NEW c \in 0 .. q - 1
      PROVE  /\ c * ChunkCapacity \in Nat
             /\ PartOf(n, c) \in 1 .. ChunkCapacity
             /\ FilledTo(n, c) = c * ChunkCapacity
             /\ FilledTo(n, c + 1) = c * ChunkCapacity + PartOf(n, c)
             /\ FilledTo(n, c + 1) <= n
             /\ c < q - 1 => PartOf(n, c) = ChunkCapacity
  <2> DEFINE x == c * ChunkCapacity
             y == (c + 1) * ChunkCapacity
  <2>1. c \in Nat /\ c + 1 \in Nat
    BY <1>1
  <2>2. x \in Nat /\ y = x + ChunkCapacity /\ n - x \in Nat \ {0}
    BY <1>1, <2>1, Multiples
  <2>3. /\ PartOf(n, c) = IF n - x < ChunkCapacity THEN n - x ELSE ChunkCapacity
        /\ FilledTo(n, c) = IF x < n THEN x ELSE n
        /\ FilledTo(n, c + 1) = IF y < n THEN y ELSE n
    BY DEF PartOf, FilledTo
  <2>4. c < q - 1 => n - y \in Nat \ {0}
    <3>1. c < q - 1 => c + 1 \in 0 .. q - 1
      BY <1>1, <2>1
    <3> QED
      BY <1>1, <3>1
  <2> HIDE DEF x, y
  <2>5. /\ PartOf(n, c) \in 1 .. ChunkCapacity
        /\ FilledTo(n, c) = x
        /\ FilledTo(n, c + 1) = x + PartOf(n, c)
        /\ FilledTo(n, c + 1) <= n
        /\ c < q - 1 => PartOf(n, c) = ChunkCapacity
    BY <2>2, <2>3, <2>4, CapacityAssumption
  <2> QED
    BY <2>2, <2>5 DEF x
<1> QED
  BY <1>1, <1>2, <1>3, <1>4 DEF q
(* The file that compaction writes, field by field.                          *)
LEMMA CompactedFields ==
  ASSUME NEW file, NEW n, n = Len(LiveRecords(file)), n \in Nat,
         LiveRecords(file) \in Seq(Unburied)
  PROVE  LET new == Compacted(file)
             active == file.superblock.total_used_slots - file.superblock.total_tombstones
         IN /\ new.exists
            /\ new.superblock = [chunk_count      |-> CeilDiv(active, ChunkCapacity),
                                 total_used_slots |-> active,
                                 total_tombstones |-> 0]
            /\ DOMAIN new.sections = 0 .. CeilDiv(n, ChunkCapacity) - 1
            /\ \A c \in DOMAIN new.sections :
                 /\ new.sections[c].header = Header(c, PartOf(n, c), 0)
                 /\ \A s \in Slots : s < PartOf(n, c) =>
                      /\ new.sections[c].records[s] = LiveRecords(file)[c * ChunkCapacity + s + 1]
                      /\ new.sections[c].records[s].id # TombstoneId
                 /\ new.sections[c].records \in [Slots -> FileRecord]
                 /\ new.sections[c].records # NoRecords
<1> DEFINE records == LiveRecords(file)
           q == CeilDiv(n, ChunkCapacity)
           new == Compacted(file)
           content(c) == [s \in Slots |-> IF s < PartOf(n, c) THEN records[c * ChunkCapacity + s + 1]
                                         ELSE ZeroRecord]
           sections == [c \in 0 .. q - 1 |-> [header |-> Header(c, PartOf(n, c), 0), records |-> content(c)]]
           active == file.superblock.total_used_slots - file.superblock.total_tombstones
<1>1. new = [exists     |-> TRUE,
             superblock |-> [chunk_count      |-> CeilDiv(active, ChunkCapacity),
                             total_used_slots |-> active,
                             total_tombstones |-> 0],
             sections   |-> sections]
  BY DEF Compacted, PartOf
<1>2. records \in Seq(Unburied) /\ n = Len(records)
  OBVIOUS
<1> HIDE DEF new, records
<1>3. ASSUME NEW c \in 0 .. q - 1
      PROVE  /\ sections[c].header = Header(c, PartOf(n, c), 0)
             /\ \A s \in Slots : s < PartOf(n, c) =>
                  /\ sections[c].records[s] = records[c * ChunkCapacity + s + 1]
                  /\ sections[c].records[s].id # TombstoneId
             /\ sections[c].records \in [Slots -> FileRecord]
             /\ sections[c].records # NoRecords
  <2> DEFINE x == c * ChunkCapacity
  <2>1. PartOf(n, c) \in 1 .. ChunkCapacity /\ x \in Nat /\ x + PartOf(n, c) <= n
    BY Parts
  <2> HIDE DEF x
  <2>2. ASSUME NEW s \in Slots, s < PartOf(n, c)
        PROVE  records[x + s + 1] \in Unburied
    <3> DEFINE i == x + s + 1
    <3>1. i \in 1 .. Len(records)
      BY <1>2, <2>1, <2>2, CapacityAssumption DEF Slots
    <3> HIDE DEF i
    <3>2. records[i] \in Unburied
      BY <1>2, <3>1, ElementOfSeq
    <3> QED
      BY <3>2 DEF i
  <2>3. content(c) = [s \in Slots |-> IF s < PartOf(n, c) THEN records[x + s + 1] ELSE ZeroRecord]
    BY DEF x
  <2>4. sections[c].header = Header(c, PartOf(n, c), 0) /\ sections[c].records = content(c)
    OBVIOUS
  <2> HIDE DEF content, sections
  <2>5. content(c) \in [Slots -> FileRecord]
    BY <2>2, <2>3 DEF Unburied, FileRecord
  <2>6. content(c) # NoRecords
    BY <2>5, CutAssumption DEF FileRecord
  <2>7. \A s \in Slots : s < PartOf(n, c) => content(c)[s] = records[x + s + 1]
                                             /\ content(c)[s].id # TombstoneId
    BY <2>2, <2>3 DEF Unburied
  <2> QED
    BY <2>4, <2>5, <2>6, <2>7 DEF x
<1>4. DOMAIN sections = 0 .. q - 1
  OBVIOUS
<1> HIDE DEF sections, q
<1> QED
  BY <1>1, <1>3, <1>4 DEF new, records, q

(* Whatever was compacted, if a load accepts it its counters are exact and   *)
(* only its last chunk has room.                                             *)
LEMMA CompactedExact ==
  ASSUME NEW file, IsFile(file), ValidSuperblock(file.superblock),
         \A c \in SectionIds(file) : ReadableSection(file, c), Loadable(Compacted(file))
  PROVE  Exact(Loaded(Compacted(file)))
<1> DEFINE new == Compacted(file)
           m == Loaded(new)
           n == Len(LiveRecords(file))
           used == [c \in ChunkIds(m) |-> m.chunks[c].used_slots]
<1>1. LiveRecords(file) \in Seq(Unburied) /\ n \in Nat
  <2>1. file.superblock \in FileSuperblock
    BY DEF IsFile, ValidSuperblock
  <2>2. LiveRecords(file) \in Seq(Unburied)
    BY <2>1, LiveRecordsTyped
  <2> QED
    BY <2>2
<1>2. IsFile(new) /\ IsChunkManager(m)
  BY CompactedTyped, LoadedTyped
<1>3. /\ new.superblock.total_tombstones = 0
      /\ \A c \in DOMAIN new.sections :
           /\ new.sections[c].header = Header(c, PartOf(n, c), 0)
           /\ \A s \in Slots : s < PartOf(n, c) => new.sections[c].records[s].id # TombstoneId
      /\ DOMAIN new.sections = 0 .. CeilDiv(n, ChunkCapacity) - 1
  <2> DEFINE active == file.superblock.total_used_slots - file.superblock.total_tombstones
  <2>1. /\ new.exists
        /\ new.superblock = [chunk_count      |-> CeilDiv(active, ChunkCapacity),
                             total_used_slots |-> active,
                             total_tombstones |-> 0]
        /\ DOMAIN new.sections = 0 .. CeilDiv(n, ChunkCapacity) - 1
        /\ \A c \in DOMAIN new.sections :
             /\ new.sections[c].header = Header(c, PartOf(n, c), 0)
             /\ \A s \in Slots : s < PartOf(n, c) =>
                  /\ new.sections[c].records[s] = LiveRecords(file)[c * ChunkCapacity + s + 1]
                  /\ new.sections[c].records[s].id # TombstoneId
             /\ new.sections[c].records \in [Slots -> FileRecord]
             /\ new.sections[c].records # NoRecords
    BY <1>1, CompactedFields
  <2> HIDE DEF new, n, active
  <2> QED
    BY <2>1
<1>4. /\ ChunkIds(m) = SectionIds(new)
      /\ m.total_tombstones = 0
      /\ \A c \in SectionIds(new) :
              /\ m.chunks[c].records = new.sections[c].records
              /\ m.chunks[c].used_slots = new.sections[c].header.used_slots
              /\ m.chunks[c].tombstones = new.sections[c].header.tombstones
  BY <1>3, LoadedFields
<1>5. \A c \in SectionIds(new) : c \in DOMAIN new.sections
  BY DEF Loadable, ReadableSection
<1>6. TotalsAgree(new)
  BY DEF Loadable
<1>7. m.total_used_slots = SumOf(used, m.chunk_count)
  BY <1>6, TotalsMeaning
<1> HIDE DEF m, new, n
<1>8. \A c \in ChunkIds(m) :
        /\ c \in 0 .. CeilDiv(n, ChunkCapacity) - 1
        /\ m.chunks[c].used_slots = PartOf(n, c)
        /\ m.chunks[c].tombstones = 0
        /\ \A s \in Slots : s < PartOf(n, c) => m.chunks[c].records[s].id # TombstoneId
  <2> SUFFICES ASSUME NEW c \in ChunkIds(m)
               PROVE  /\ c \in 0 .. CeilDiv(n, ChunkCapacity) - 1
                      /\ m.chunks[c].used_slots = PartOf(n, c)
                      /\ m.chunks[c].tombstones = 0
                      /\ \A s \in Slots : s < PartOf(n, c) => m.chunks[c].records[s].id # TombstoneId
    OBVIOUS
  <2>1. c \in DOMAIN new.sections /\ c \in SectionIds(new)
    BY <1>4, <1>5
  <2>2. new.sections[c].header.used_slots = PartOf(n, c) /\ new.sections[c].header.tombstones = 0
    <3>1. new.sections[c].header = Header(c, PartOf(n, c), 0)
      BY <1>3, <2>1
    <3>2. \A a, b, d : Header(a, b, d).used_slots = b /\ Header(a, b, d).tombstones = d
      BY DEF Header
    <3> QED
      BY ONLY <3>1, <3>2
  <2> QED
    BY <1>3, <1>4, <2>1, <2>2
<1>9. ASSUME NEW c \in ChunkIds(m)
      PROVE  TombstoneSlots(m, c) = {}
  <2>1. \A s \in 0 .. m.chunks[c].used_slots - 1 : s \in Slots /\ s < m.chunks[c].used_slots
    BY <1>2, ChunkTyped, CapacityAssumption DEF Slots
  <2> QED
    BY <1>8, <2>1 DEF TombstoneSlots
<1>10. Tombstones(m) = {}
  <2>1. \A loc \in UsedLocations(m) : RecordAt(m, loc).id # TombstoneId
    BY <1>8 DEF UsedLocations, Resolves, RecordAt
  <2> QED
    BY <2>1 DEF Tombstones, LiveLocations
<1>11. Cardinality({}) = 0
  BY FS_EmptySet
<1>12. CountersExact(m)
  <2>1. m.total_used_slots = Cardinality(UsedLocations(m))
    BY <1>2, <1>7, UsedIsSum
  <2>2. m.total_tombstones = Cardinality(Tombstones(m))
    BY <1>4, <1>10, <1>11
  <2>3. \A c \in ChunkIds(m) : m.chunks[c].tombstones = Cardinality(TombstoneSlots(m, c))
    BY <1>8, <1>9, <1>11
  <2> QED
    BY <2>1, <2>2, <2>3, CountersMeaning
<1>13. ChunksPacked(m)
  <2> SUFFICES ASSUME NEW c \in ChunkIds(m), c < m.chunk_count - 1
               PROVE  m.chunks[c].used_slots = ChunkCapacity
    BY DEF ChunksPacked
  <2>1. m.chunk_count \in Nat /\ c \in Nat /\ c + 1 \in ChunkIds(m)
    BY <1>2 DEF IsChunkManager, ChunkIds
  <2>2. c + 1 \in 0 .. CeilDiv(n, ChunkCapacity) - 1 /\ CeilDiv(n, ChunkCapacity) \in Nat
    BY <1>1, <1>8, <2>1, Parts DEF n
  <2>3. c \in 0 .. CeilDiv(n, ChunkCapacity) - 1 /\ c < CeilDiv(n, ChunkCapacity) - 1
    BY <2>1, <2>2
  <2>4. PartOf(n, c) = ChunkCapacity
    BY <1>1, <2>3, Parts DEF n
  <2> QED
    BY <1>8, <2>4
<1> QED
  BY <1>12, <1>13 DEF Exact, m, new
(* As many records as the totals promise are found in a file whose counters  *)
(* are exact.                                                                *)
LEMMA ActiveFound ==
  ASSUME NEW file, IsFile(file), Loadable(file), Exact(Loaded(file))
  PROVE  file.superblock.total_used_slots - file.superblock.total_tombstones = Len(LiveRecords(file))
<1> DEFINE m == Loaded(file)
<1>1. IsChunkManager(m)
  BY LoadedTyped
<1>2. Cardinality(LiveLocations(m)) = Len(LiveRecords(file))
  BY FileListsMeaning
<1>3. /\ m.total_used_slots = file.superblock.total_used_slots
      /\ m.total_tombstones = file.superblock.total_tombstones
  BY LoadedFields
<1> HIDE DEF m
<1>4. Cardinality(LiveLocations(m)) = ActiveCount(m)
  BY <1>1, ExactBounds DEF Exact, m
<1> QED
  BY <1>2, <1>3, <1>4 DEF ActiveCount

(* What a section that compaction wrote says of itself.                      *)
LEMMA CompactedSections ==
  ASSUME NEW file, IsFile(file), Loadable(file), Exact(Loaded(file)),
         NEW n, n = Len(LiveRecords(file))
  PROVE  LET new == Compacted(file) IN
         /\ n \in Nat
         /\ new.exists
         /\ IsFile(new)
         /\ new.superblock = [chunk_count      |-> CeilDiv(n, ChunkCapacity),
                              total_used_slots |-> n,
                              total_tombstones |-> 0]
         /\ SectionIds(new) = 0 .. CeilDiv(n, ChunkCapacity) - 1
         /\ \A c \in SectionIds(new) :
              /\ c \in DOMAIN new.sections
              /\ new.sections[c].header.chunk_id = c
              /\ new.sections[c].header.used_slots = PartOf(n, c)
              /\ new.sections[c].header.tombstones = 0
              /\ new.sections[c].records # NoRecords
              /\ \A s \in Slots : s < PartOf(n, c) =>
                   /\ new.sections[c].records[s] = LiveRecords(file)[c * ChunkCapacity + s + 1]
                   /\ new.sections[c].records[s].id # TombstoneId
<1> DEFINE new == Compacted(file)
           active == file.superblock.total_used_slots - file.superblock.total_tombstones
<1>1. LiveRecords(file) \in Seq(Unburied) /\ n \in Nat
  BY FileLists
<1>2. active = n
  BY ActiveFound
<1>3. /\ new.exists
      /\ new.superblock = [chunk_count      |-> CeilDiv(active, ChunkCapacity),
                           total_used_slots |-> active,
                           total_tombstones |-> 0]
      /\ DOMAIN new.sections = 0 .. CeilDiv(n, ChunkCapacity) - 1
      /\ \A c \in DOMAIN new.sections :
           /\ new.sections[c].header = Header(c, PartOf(n, c), 0)
           /\ \A s \in Slots : s < PartOf(n, c) =>
                /\ new.sections[c].records[s] = LiveRecords(file)[c * ChunkCapacity + s + 1]
                /\ new.sections[c].records[s].id # TombstoneId
           /\ new.sections[c].records \in [Slots -> FileRecord]
           /\ new.sections[c].records # NoRecords
  BY <1>1, CompactedFields
<1>4. IsFile(new)
  BY CompactedTyped DEF Loadable
<1> HIDE DEF new, active
<1>5. new.superblock = [chunk_count      |-> CeilDiv(n, ChunkCapacity),
                        total_used_slots |-> n,
                        total_tombstones |-> 0]
  BY <1>2, <1>3
<1>6. SectionIds(new) = 0 .. CeilDiv(n, ChunkCapacity) - 1
  BY <1>5 DEF SectionIds
<1>7. \A a, b, d : /\ Header(a, b, d).chunk_id = a
                   /\ Header(a, b, d).used_slots = b
                   /\ Header(a, b, d).tombstones = d
  BY DEF Header
<1>8. ASSUME NEW c \in SectionIds(new)
      PROVE  /\ c \in DOMAIN new.sections
             /\ new.sections[c].header.chunk_id = c
             /\ new.sections[c].header.used_slots = PartOf(n, c)
             /\ new.sections[c].header.tombstones = 0
             /\ new.sections[c].records # NoRecords
             /\ \A s \in Slots : s < PartOf(n, c) =>
                  /\ new.sections[c].records[s] = LiveRecords(file)[c * ChunkCapacity + s + 1]
                  /\ new.sections[c].records[s].id # TombstoneId
  <2>1. c \in DOMAIN new.sections
    BY <1>3, <1>6
  <2>2. new.sections[c].header = Header(c, PartOf(n, c), 0)
    BY <1>3, <2>1
  <2>3. /\ new.sections[c].header.chunk_id = c
        /\ new.sections[c].header.used_slots = PartOf(n, c)
        /\ new.sections[c].header.tombstones = 0
    BY ONLY <1>7, <2>2
  <2> QED
    BY <1>3, <2>1, <2>3
<1> QED
  BY <1>1, <1>3, <1>4, <1>5, <1>6, <1>8 DEF new

(* A load accepts it, and a boot does not compact it again.                  *)
LEMMA CompactedLoads ==
  ASSUME NEW file, IsFile(file), Loadable(file), Exact(Loaded(file))
  PROVE  Loadable(Compacted(file)) /\ ~NeedsCompaction(Compacted(file).superblock)
<1> DEFINE new == Compacted(file)
           n == Len(LiveRecords(file))
           q == CeilDiv(n, ChunkCapacity)
           used == [c \in SectionIds(new) |-> new.sections[c].header.used_slots]
           tombs == [c \in SectionIds(new) |-> new.sections[c].header.tombstones]
<1>1. /\ n \in Nat
      /\ new.exists
      /\ new.superblock = [chunk_count |-> q, total_used_slots |-> n, total_tombstones |-> 0]
      /\ SectionIds(new) = 0 .. q - 1
      /\ \A c \in SectionIds(new) :
           /\ c \in DOMAIN new.sections
           /\ new.sections[c].header.chunk_id = c
           /\ new.sections[c].header.used_slots = PartOf(n, c)
           /\ new.sections[c].header.tombstones = 0
           /\ new.sections[c].records # NoRecords
  BY CompactedSections
<1> HIDE DEF new, n
<1>2. /\ q \in Nat /\ FilledTo(n, 0) = 0 /\ FilledTo(n, q) = n
      /\ \A c \in 0 .. q - 1 :
              /\ c * ChunkCapacity \in Nat
              /\ PartOf(n, c) \in 1 .. ChunkCapacity
              /\ FilledTo(n, c) = c * ChunkCapacity
              /\ FilledTo(n, c + 1) = c * ChunkCapacity + PartOf(n, c)
  BY <1>1, Parts
<1>3. n <= q * ChunkCapacity
  BY <1>1, CeilDivHolds
<1> HIDE DEF q
<1>4. new.superblock.chunk_count = q /\ new.superblock.total_used_slots = n
      /\ new.superblock.total_tombstones = 0
  BY <1>1
<1>5. new.superblock # NoSuperblock
  <2>1. new.superblock \in FileSuperblock
    BY <1>1, <1>2 DEF FileSuperblock
  <2> QED
    BY <2>1, SuperblockAssumption
<1>6. ValidSuperblock(new.superblock)
  BY <1>1, <1>3, <1>4, <1>5 DEF ValidSuperblock
<1>7. \A c \in SectionIds(new) : ReadableSection(new, c)
  <2>1. \A c \in SectionIds(new) : 0 <= PartOf(n, c)
    BY <1>1, <1>2, CapacityAssumption
  <2> QED
    BY <1>1, <2>1 DEF ReadableSection
<1>8. \A c \in 0 .. q - 1 : used[c] = PartOf(n, c) /\ used[c] \in Int /\ tombs[c] = 0 /\ tombs[c] \in Int
  <2> SUFFICES ASSUME NEW c \in 0 .. q - 1
               PROVE  used[c] = PartOf(n, c) /\ used[c] \in Int /\ tombs[c] = 0 /\ tombs[c] \in Int
    OBVIOUS
  <2>1. c \in SectionIds(new)
    BY <1>1
  <2>2. used[c] = new.sections[c].header.used_slots /\ tombs[c] = new.sections[c].header.tombstones
    BY <2>1
  <2>3. PartOf(n, c) \in Int
    BY <1>2, CapacityAssumption
  <2> HIDE DEF used, tombs
  <2> QED
    BY <1>1, <2>1, <2>2, <2>3
<1> HIDE DEF used, tombs
<1>9. SumOf(used, q) = n
  <2>1. PICK sum \in [0 .. q -> Int] : /\ sum[0] = 0
                                       /\ \A k \in 1 .. q : sum[k] = sum[k - 1] + used[k - 1]
                                       /\ SumOf(used, q) = sum[q]
    BY <1>2, <1>8, SumMeaning
  <2> DEFINE T == {k \in 0 .. q : sum[k] = FilledTo(n, k)}
  <2>2. 0 \in T
    BY <1>2, <2>1
  <2>3. ASSUME NEW k \in 1 .. q, k - 1 \in T
        PROVE  k \in T
    <3> DEFINE c == k - 1
               x == c * ChunkCapacity
    <3>1. c \in 0 .. q - 1 /\ k = c + 1 /\ k \in 0 .. q
      BY <1>2
    <3>2. sum[c] = FilledTo(n, c)
      BY <2>3
    <3>3. sum[k] = sum[c] + used[c]
      BY <2>1
    <3> HIDE DEF c
    <3>4. FilledTo(n, c) = x /\ FilledTo(n, k) = x + PartOf(n, c)
      BY <1>2, <3>1
    <3>5. used[c] = PartOf(n, c)
      BY <1>8, <3>1
    <3>6. sum[k] = FilledTo(n, k)
      BY <3>2, <3>3, <3>4, <3>5
    <3> QED
      BY <3>1, <3>6
  <2>4. q \in T
    <3> HIDE DEF T
    <3>1. 0 .. q \subseteq T
      BY <1>2, <2>2, <2>3, Reaches
    <3> QED
      BY <1>2, <3>1
  <2> QED
    BY <1>2, <2>1, <2>4
<1>10. SumOf(tombs, q) = 0
  <2>1. PICK sum \in [0 .. q -> Int] : /\ sum[0] = 0
                                       /\ \A k \in 1 .. q : sum[k] = sum[k - 1] + tombs[k - 1]
                                       /\ SumOf(tombs, q) = sum[q]
    BY <1>2, <1>8, SumMeaning
  <2> DEFINE T == {k \in 0 .. q : sum[k] = 0}
  <2>2. 0 \in T
    BY <1>2, <2>1
  <2>3. ASSUME NEW k \in 1 .. q, k - 1 \in T
        PROVE  k \in T
    <3>1. k - 1 \in 0 .. q - 1 /\ k \in 0 .. q
      BY <1>2
    <3>2. tombs[k - 1] = 0 /\ sum[k - 1] = 0
      BY <1>8, <2>3, <3>1
    <3> QED
      BY <2>1, <3>1, <3>2
  <2>4. q \in T
    <3> HIDE DEF T
    <3>1. 0 .. q \subseteq T
      BY <1>2, <2>2, <2>3, Reaches
    <3> QED
      BY <1>2, <3>1
  <2> QED
    BY <1>2, <2>1, <2>4
<1>11. TotalsAgree(new)
  BY <1>4, <1>9, <1>10 DEF TotalsAgree, used, tombs
<1>12. ~NeedsCompaction(new.superblock)
  BY <1>1, <1>4 DEF NeedsCompaction
<1> QED
  BY <1>1, <1>6, <1>7, <1>11, <1>12 DEF Loadable, new
(* A section without tombstones is listed as it is.                          *)
LEMMA FullSection ==
  ASSUME NEW section \in Section, section.records # NoRecords,
         \A s \in Slots : s < section.header.used_slots => section.records[s].id # TombstoneId
  PROVE  LET part == LiveOfSection(section) IN
         /\ part \in Seq(Unburied)
         /\ Len(part) = section.header.used_slots
         /\ \A i \in 1 .. section.header.used_slots : part[i] = section.records[i - 1]
<1> DEFINE N == section.header.used_slots
<1>1. N \in 0 .. ChunkCapacity /\ N \in Nat
  BY CapacityAssumption DEF Section, FileHeader
<1>2. PICK live \in [0 .. N -> Seq(Unburied)] :
        /\ live[0] = <<>>
        /\ \A n \in 1 .. N : live[n] = IF section.records[n - 1].id = TombstoneId THEN live[n - 1]
                                       ELSE Append(live[n - 1], section.records[n - 1])
        /\ LiveOfSection(section) = live[N]
  BY LiveOfSectionUnfolds
<1>3. \A n \in 1 .. N : section.records[n - 1].id # TombstoneId
  <2>1. \A n \in 1 .. N : n - 1 \in Slots /\ n - 1 < N
    BY <1>1, CapacityAssumption DEF Slots
  <2> QED
    BY <2>1
<1> HIDE DEF N
<1> DEFINE T == {n \in 0 .. N : Len(live[n]) = n /\ \A i \in 1 .. n : live[n][i] = section.records[i - 1]}
<1>4. 0 \in T
  BY <1>1, <1>2
<1>5. ASSUME NEW n \in 1 .. N, n - 1 \in T
      PROVE  n \in T
  <2> DEFINE old == live[n - 1]
             record == section.records[n - 1]
  <2>1. n \in 0 .. N /\ n - 1 \in 0 .. N /\ n \in Nat
    BY <1>1
  <2>2. old \in Seq(Unburied) /\ Len(old) = n - 1 /\ \A i \in 1 .. n - 1 : old[i] = section.records[i - 1]
    BY <1>2, <1>5, <2>1
  <2>3. live[n] = Append(old, record)
    BY <1>2, <1>3
  <2> HIDE DEF old
  <2>4. Len(live[n]) = n
    BY <2>1, <2>2, <2>3
  <2>5. \A i \in 1 .. n : live[n][i] = IF i = n THEN record ELSE old[i]
    BY <2>1, <2>2, <2>3
  <2>6. \A i \in 1 .. n : live[n][i] = section.records[i - 1]
    BY <2>1, <2>2, <2>5
  <2> QED
    BY <2>1, <2>4, <2>6
<1>6. N \in T
  <2> HIDE DEF T
  <2>1. 0 .. N \subseteq T
    BY <1>1, <1>4, <1>5, Reaches
  <2> QED
    BY <1>1, <2>1
<1> QED
  BY <1>1, <1>2, <1>6 DEF N

(* Compacted, a file has the live records that it had, in the same order.    *)
LEMMA CompactedRecords ==
  ASSUME NEW file, IsFile(file), Loadable(file), Exact(Loaded(file))
  PROVE  LiveRecords(Compacted(file)) = LiveRecords(file)
<1> DEFINE new == Compacted(file)
           records == LiveRecords(file)
           n == Len(records)
           q == CeilDiv(n, ChunkCapacity)
<1>1. /\ n \in Nat
      /\ IsFile(new)
      /\ new.superblock = [chunk_count |-> q, total_used_slots |-> n, total_tombstones |-> 0]
      /\ SectionIds(new) = 0 .. q - 1
      /\ \A c \in SectionIds(new) :
           /\ c \in DOMAIN new.sections
           /\ new.sections[c].header.used_slots = PartOf(n, c)
           /\ new.sections[c].records # NoRecords
           /\ \A s \in Slots : s < PartOf(n, c) =>
                /\ new.sections[c].records[s] = records[c * ChunkCapacity + s + 1]
                /\ new.sections[c].records[s].id # TombstoneId
  BY CompactedSections
<1>2. Loadable(new)
  BY CompactedLoads
<1>3. records \in Seq(Unburied)
  BY FileLists
<1> HIDE DEF new, records, n
<1>4. /\ q \in Nat /\ FilledTo(n, 0) = 0 /\ FilledTo(n, q) = n
      /\ \A c \in 0 .. q - 1 :
              /\ c * ChunkCapacity \in Nat
              /\ PartOf(n, c) \in 1 .. ChunkCapacity
              /\ FilledTo(n, c) = c * ChunkCapacity
              /\ FilledTo(n, c + 1) = c * ChunkCapacity + PartOf(n, c)
              /\ FilledTo(n, c + 1) <= n
  BY <1>1, Parts
<1> HIDE DEF q
<1>5. new.superblock.chunk_count = q /\ new.superblock \in FileSuperblock
      /\ \A c \in SectionIds(new) : ReadableSection(new, c)
  BY <1>1, <1>2, <1>4 DEF FileSuperblock, Loadable
<1>6. PICK found \in [0 .. q -> Seq(Unburied)] :
        /\ found[0] = <<>>
        /\ \A k \in 1 .. q : found[k] = found[k - 1] \o LiveOfSection(new.sections[k - 1])
        /\ LiveRecords(new) = found[q]
  BY <1>1, <1>5, LiveRecordsUnfolds
<1>7. ASSUME NEW c \in 0 .. q - 1
      PROVE  LET part == LiveOfSection(new.sections[c])
                 x == c * ChunkCapacity
             IN /\ part \in Seq(Unburied)
                /\ Len(part) = PartOf(n, c)
                /\ \A i \in 1 .. PartOf(n, c) : part[i] = records[x + i]
  <2> DEFINE section == new.sections[c]
             part == LiveOfSection(section)
             x == c * ChunkCapacity
  <2>1. c \in SectionIds(new) /\ x \in Nat /\ PartOf(n, c) \in 1 .. ChunkCapacity
    BY <1>1, <1>4
  <2>2. /\ section \in Section /\ section.records # NoRecords
        /\ section.header.used_slots = PartOf(n, c)
        /\ \A s \in Slots : s < section.header.used_slots => section.records[s].id # TombstoneId
        /\ \A s \in Slots : s < PartOf(n, c) => section.records[s] = records[x + s + 1]
    BY <1>1, <2>1 DEF IsFile
  <2> HIDE DEF section, x
  <2>3. /\ part \in Seq(Unburied)
        /\ Len(part) = PartOf(n, c)
        /\ \A i \in 1 .. PartOf(n, c) : part[i] = section.records[i - 1]
    BY <2>2, FullSection
  <2> HIDE DEF part
  <2>4. ASSUME NEW i \in 1 .. PartOf(n, c)
        PROVE  part[i] = records[x + i]
    <3>1. i - 1 \in Slots /\ i - 1 < PartOf(n, c) /\ x + (i - 1) + 1 = x + i
      BY <2>1, CapacityAssumption DEF Slots
    <3>2. section.records[i - 1] = records[x + (i - 1) + 1]
      BY <2>2, <3>1
    <3> QED
      BY <2>3, <3>1, <3>2
  <2> QED
    BY <2>3, <2>4 DEF part, section, x
<1> DEFINE T == {k \in 0 .. q : /\ Len(found[k]) = FilledTo(n, k)
                                /\ FilledTo(n, k) \in Nat
                                /\ \A i \in 1 .. FilledTo(n, k) : found[k][i] = records[i]}
<1>8. 0 \in T
  BY <1>4, <1>6
<1>9. ASSUME NEW k \in 1 .. q, k - 1 \in T
      PROVE  k \in T
  <2> DEFINE c == k - 1
             x == c * ChunkCapacity
             p == PartOf(n, c)
             part == LiveOfSection(new.sections[c])
             old == found[c]
  <2>1. c \in 0 .. q - 1 /\ k = c + 1 /\ k \in 0 .. q /\ c \in 0 .. q
    BY <1>4
  <2>2. found[k] = old \o part /\ old \in Seq(Unburied)
    BY <1>6, <2>1
  <2>3. Len(old) = FilledTo(n, c) /\ \A i \in 1 .. FilledTo(n, c) : old[i] = records[i]
    BY <1>9
  <2> HIDE DEF c
  <2>4. x \in Nat /\ p \in 1 .. ChunkCapacity /\ FilledTo(n, c) = x /\ FilledTo(n, k) = x + p
    BY <1>4, <2>1
  <2>5. part \in Seq(Unburied) /\ Len(part) = p /\ \A i \in 1 .. p : part[i] = records[x + i]
    BY <1>7, <2>1
  <2> HIDE DEF old, part, x, p
  <2>6. Len(old \o part) = x + p
    BY <2>2, <2>3, <2>4, <2>5, ConcatProperties
  <2>7. \A i \in 1 .. x + p : (old \o part)[i] = IF i <= x THEN old[i] ELSE part[i - x]
    BY <2>2, <2>3, <2>4, <2>5, ConcatProperties
  <2>8. ASSUME NEW i \in 1 .. x + p
        PROVE  (old \o part)[i] = records[i]
    <3>1. CASE i <= x
      BY <2>3, <2>4, <2>7, <3>1
    <3>2. CASE ~(i <= x)
      <4>1. i - x \in 1 .. p /\ x + (i - x) = i
        BY <2>4, <3>2, CapacityAssumption
      <4>2. part[i - x] = records[x + (i - x)]
        BY <2>5, <4>1
      <4> QED
        BY <2>7, <3>2, <4>1, <4>2
    <3> QED
      BY <3>1, <3>2
  <2>9. x + p \in Nat
    BY <2>4, CapacityAssumption
  <2> QED
    BY <2>1, <2>2, <2>4, <2>6, <2>8, <2>9
<1>10. q \in T
  <2> HIDE DEF T
  <2>1. 0 .. q \subseteq T
    BY <1>4, <1>8, <1>9, Reaches
  <2> QED
    BY <1>4, <2>1
<1>11. found[q] \in Seq(Unburied) /\ Len(found[q]) = Len(records)
       /\ \A i \in 1 .. Len(records) : found[q][i] = records[i]
  BY <1>4, <1>6, <1>10 DEF n
<1>12. found[q] = records
  <2> DEFINE f == found[q]
  <2>1. f = [i \in 1 .. Len(f) |-> f[i]] /\ records = [i \in 1 .. Len(records) |-> records[i]]
    BY <1>3, <1>11
  <2> HIDE DEF f
  <2> QED
    BY <1>11, <2>1 DEF f
<1> QED
  BY <1>6, <1>12 DEF new, records
(* Two managers that list the same records are valid together.               *)
LEMMA ListsSound ==
  ASSUME NEW records \in Seq(Unburied), NEW a, IsChunkManager(a), NEW b, IsChunkManager(b),
         Lists(records, LiveLocations(a), Content(a)), Lists(records, LiveLocations(b), Content(b)),
         LiveValid(a)
  PROVE  LiveValid(b)
<1> DEFINE I == 1 .. Len(records)
           A == LiveLocations(a)
           B == LiveLocations(b)
           cA == Content(a)
           cB == Content(b)
<1>1. /\ \A loc \in A : cA[loc] = RecordAt(a, loc)
      /\ \A loc \in B : cB[loc] = RecordAt(b, loc)
  <2>1. (\A loc \in A : loc \in RecordLocation) /\ \A loc \in B : loc \in RecordLocation
    BY UsedMeaning
  <2> HIDE DEF A, B
  <2> QED
    BY <2>1 DEF Content
<1>2. PICK p : ListsBy(p, records, A, cA)
  BY DEF Lists
<1>3. PICK q : ListsBy(q, records, B, cB)
  BY DEF Lists
<1> HIDE DEF A, B, cA, cB
<1>4. /\ p \in [I -> A]
      /\ \A i, j \in I : p[i] = p[j] => i = j
      /\ \A i \in I : records[i] = cA[p[i]]
  BY <1>2 DEF ListsBy
<1>5. /\ q \in [I -> B]
      /\ \A x \in B : \E i \in I : q[i] = x
      /\ \A i \in I : records[i] = cB[q[i]]
  BY <1>3 DEF ListsBy
<1> HIDE DEF I
<1>6. /\ \A loc \in A : cA[loc] \in Record
      /\ \A k, l \in A : cA[k].id = cA[l].id => k = l
  BY <1>1 DEF LiveValid, A
<1>7. /\ \A i \in I : records[i] \in Record
      /\ \A i, j \in I : records[i].id = records[j].id => i = j
  BY <1>4, <1>6
<1>8. ASSUME NEW loc \in B
      PROVE  cB[loc] \in Record
  BY <1>5, <1>7
<1>9. ASSUME NEW k \in B, NEW l \in B, cB[k].id = cB[l].id
      PROVE  k = l
  BY <1>5, <1>7, <1>9
<1> QED
  BY <1>1, <1>8, <1>9 DEF LiveValid, B

(* Compacted, a file that boots is one that boots, with the same records.    *)
LEMMA CompactedBoots ==
  ASSUME NEW file, IsFile(file), Bootable(file), Exact(Loaded(file))
  PROVE  LET new == Compacted(file) IN
         /\ IsFile(new)
         /\ Bootable(new)
         /\ Exact(Loaded(new))
         /\ LiveRecords(new) = LiveRecords(file)
         /\ ~NeedsCompaction(new.superblock)
         /\ LiveSet(Loaded(new)) = LiveSet(Loaded(file))
<1> DEFINE new == Compacted(file)
           records == LiveRecords(file)
           a == Loaded(file)
           b == Loaded(new)
<1>1. Loadable(file) /\ IsChunkManager(a) /\ LiveValid(a)
  <2>1. Loadable(file)
    BY DEF Bootable
  <2>2. IsChunkManager(a) /\ SoundManager(a)
    BY <2>1, BootedSound
  <2> QED
    BY <2>1, <2>2 DEF SoundManager
<1>2. IsFile(new) /\ Loadable(new) /\ ~NeedsCompaction(new.superblock) /\ LiveRecords(new) = records
  BY <1>1, CompactedSections, CompactedLoads, CompactedRecords
<1>3. Exact(b)
  BY <1>1, <1>2, CompactedExact DEF Loadable
<1>4. IsChunkManager(b)
  BY <1>2, LoadedTyped
<1>5. records \in Seq(Unburied) /\ Lists(records, LiveLocations(a), Content(a))
  BY <1>1, FileLists
<1> HIDE DEF new
<1>6. Lists(records, LiveLocations(b), Content(b))
  <2>1. Lists(LiveRecords(new), LiveLocations(b), Content(b))
    BY <1>2, FileLists
  <2> QED
    BY <1>2, <2>1
<1>7. LiveValid(b)
  <2> HIDE DEF a, b, records
  <2> QED
    BY <1>1, <1>4, <1>5, <1>6, ListsSound
<1>8. SoundManager(b)
  BY <1>3, <1>4, <1>7 DEF SoundManager
<1>9. Bootable(new)
  BY <1>2, <1>3, <1>8, BootedSound
<1>10. LiveSet(b) = LiveSet(a)
  <2>1. LiveSet(a) = {records[i] : i \in 1 .. Len(records)}
    BY <1>1, FileListsMeaning
  <2>2. LiveSet(b) = {LiveRecords(new)[i] : i \in 1 .. Len(LiveRecords(new))}
    BY <1>2, FileListsMeaning
  <2> HIDE DEF a, b, records
  <2> QED
    BY <1>2, <2>1, <2>2
<1> QED
  BY <1>2, <1>3, <1>9, <1>10 DEF new

-----------------------------------------------------------------------------
(* What boots and saves keep: the invariant *)

(* A file that loads counts what it holds.                                   *)
ExactFile(file) == Loadable(file) => Exact(Loaded(file))

(* It shows the ids of one of the moments seen, and records of those         *)
(* moments; or the file was lost in the middle of its replacement, and a new *)
(* empty one created.                                                        *)
KnownFile(file, seen) ==
  Loadable(file) =>
    \/ "replace" \in Faults /\ Loaded(file) = EmptyManager
    \/ /\ \E saved \in seen : LiveIds(Loaded(file)) = IdsOf(saved)
       /\ LiveSet(Loaded(file)) \subseteq UNION seen

(* While an engine runs, memory is sound and has grown from a manager that   *)
(* the superblock still counts and the sections still cover.                 *)
RunSound ==
  running =>
    /\ SoundManager(cm)
    /\ ~tornCompacted
    /\ io.pc \in {"save", "save_records", "save_end"} => LiveSet(cm) \in attempts /\ ~uncutSave
    /\ At("save_end") => disk.superblock = Superblock(cm)
    /\ \E base : Covers(base, disk, cm, attempts)

(* Between two engines the files are exact and known.                        *)
OffSound ==
  ~running =>
    /\ ExactFile(disk)
    /\ ~tornCompacted => KnownFile(disk, attempts)
    /\ io.pc \in {"remove", "rename"} =>
         ExactFile(tmp) /\ (~tornCompacted => KnownFile(tmp, attempts))

(* A file is created where there was none or one without a superblock; one   *)
(* with tombstones is compacted, and only a complete one replaces it.        *)
ReplaceSound ==
  /\ At("compact") => disk.exists /\ NeedsCompaction(disk.superblock)
  /\ At("create_write") => disk = ZeroLength
  /\ At("create") => ~disk.exists \/ disk.superblock = NoSuperblock
  /\ io.pc \in {"remove", "rename"} => tmp.exists /\ tmp.superblock # NoSuperblock
  /\ At("rename") => ~disk.exists

IdleSound == At("idle") => io.then = "none"

(* Where a replacement goes through, only a database that may have been      *)
(* empty has no superblock.                                                  *)
EmptySound ==
  "replace" \notin Faults =>
    ((~disk.exists \/ disk.superblock = NoSuperblock) /\ ~At("rename") => {} \in attempts)

(* A file that no save was cut short on can be booted, before, during and    *)
(* after its compaction.                                                     *)
UncutSound ==
  uncutSave =>
    /\ disk.exists /\ disk.superblock # NoSuperblock => Bootable(disk)
    /\ io.pc \in {"remove", "rename"} => Bootable(tmp)

FileSound == RunSound /\ OffSound /\ ReplaceSound /\ IdleSound /\ EmptySound /\ UncutSound

HistoryTyped == uncutSave \in BOOLEAN /\ tornCompacted \in BOOLEAN

HInv == TInv /\ SaveSound /\ HistoryTyped /\ FileSound

HistoryStays == UNCHANGED <<attempts, uncutSave, tornCompacted>>

(* While an engine runs there is a file with a superblock, and nothing is    *)
(* created or compacted.                                                     *)
LEMMA RunningSound ==
  running /\ SaveSound /\ RunSound =>
    /\ disk.exists /\ disk.superblock # NoSuperblock
    /\ OffSound /\ ReplaceSound /\ EmptySound
<1> SUFFICES ASSUME running, SaveSound, RunSound
             PROVE  /\ disk.exists /\ disk.superblock # NoSuperblock
                    /\ OffSound /\ ReplaceSound /\ EmptySound
  OBVIOUS
<1>1. disk.exists /\ io.pc \in {"idle", "save", "save_records", "save_end"}
  BY DEF SaveSound
<1>2. PICK base : Covers(base, disk, cm, attempts)
  BY DEF RunSound
<1>3. Superblock(base) \in FileSuperblock /\ disk.superblock = Superblock(base)
  BY <1>2 DEF Covers, SoundManager, IsChunkManager, Superblock, FileSuperblock
<1>4. disk.superblock # NoSuperblock
  BY <1>3, SuperblockAssumption
<1>5. OffSound
  BY DEF OffSound
<1>6. ReplaceSound
  BY <1>1 DEF ReplaceSound, At
<1>7. EmptySound
  BY <1>1, <1>4 DEF EmptySound
<1> QED
  BY <1>1, <1>4, <1>5, <1>6, <1>7

(* The same of the state after a step.                                       *)
LEMMA RunningSoundNext ==
  (running /\ SaveSound /\ RunSound)' =>
    (/\ disk.exists /\ disk.superblock # NoSuperblock
     /\ OffSound /\ ReplaceSound /\ EmptySound)'
BY RunningSound, PTL

(* What a step of a running engine has to show.                              *)
LEMMA RunningStep ==
  ASSUME running', SaveSound', RunSound', IdleSound', UncutSound'
  PROVE  FileSound'
BY RunningSoundNext DEF FileSound

(* Steps that neither begin nor end a save or a boot, nor compact.           *)
LEMMA QuietStep ==
  ASSUME HNext, HistoryTyped, ~SaveBegins, ~SaveEnds, ~BootEnds, At("compact") => io'.pc # "remove"
  PROVE  HistoryStays
<1>1. attempts' = attempts
  BY DEF HNext
<1>2. uncutSave' = uncutSave
  BY DEF HNext
<1>3. tornCompacted' = (tornCompacted \/ (At("compact") /\ io'.pc = "remove" /\ ~Bootable(disk)))
  BY DEF HNext
<1>4. tornCompacted' = tornCompacted
  <2>1. ~(At("compact") /\ io'.pc = "remove" /\ ~Bootable(disk))
    OBVIOUS
  <2>2. (tornCompacted \/ (At("compact") /\ io'.pc = "remove" /\ ~Bootable(disk))) = tornCompacted
    BY ONLY <2>1, HistoryTyped DEF HistoryTyped
  <2> QED
    BY ONLY <1>3, <2>2
<1> QED
  BY <1>1, <1>2, <1>4 DEF HistoryStays

(* A save or a boot that ends.                                               *)
LEMMA EndStep ==
  ASSUME HNext, ~SaveBegins, SaveEnds \/ BootEnds
  PROVE  attempts' = {LiveSet(cm')} /\ uncutSave' = TRUE
BY DEF HNext

(* Most steps are quiet.                                                     *)
LEMMA QuietSteps ==
  ASSUME HNext, HistoryTyped, IoSound, IdleSound,
         \/ TruncateFile \/ WriteEmptySuperblock \/ FailCreate
         \/ WriteHeader \/ WriteSomeRecords \/ WriteRecords \/ WriteSuperblock \/ FailSave
         \/ BootWithoutStats \/ BootWithStats \/ FailBoot
         \/ FailCompact \/ RemoveOld \/ RenameTemporary \/ FailRename
         \/ LoadByCreating \/ RefuseLoad
         \/ Stop
         \/ Changing /\ UNCHANGED <<running, io>>
  PROVE  HistoryStays
<1>1. ~BootEnds
  BY DEF BootEnds, TruncateFile, WriteEmptySuperblock, FailCreate, WriteHeader, WriteSomeRecords,
         WriteRecords, WriteSuperblock, FailSave, BootWithoutStats, BootWithStats, FailBoot,
         FailCompact, RemoveOld, RenameTemporary, FailRename, LoadByCreating, RefuseLoad, Stop, Changing
<1>2. \/ io.pc \in {"create", "create_write", "save", "save_records", "remove", "rename", "load"}
      \/ FailSave \/ FailCompact \/ Stop
      \/ BootWithoutStats \/ BootWithStats \/ FailBoot
      \/ Changing /\ UNCHANGED <<running, io>>
  BY DEF TruncateFile, WriteEmptySuperblock, FailCreate, WriteHeader, WriteSomeRecords,
         WriteRecords, WriteSuperblock, RemoveOld, RenameTemporary, FailRename, LoadByCreating, RefuseLoad, At
<1>3. CASE io.pc \in {"create", "create_write", "save", "save_records", "remove", "rename", "load"}
  BY <1>1, <1>3, QuietStep DEF SaveBegins, SaveEnds, At
<1>4. CASE FailSave \/ FailCompact \/ Stop
  <2>1. io' = IdleIo /\ result' # "OK"
    BY <1>4 DEF FailSave, FailCompact, Stop, Return
  <2>2. io'.pc = "idle" /\ io'.then = "none"
    BY <2>1 DEF IdleIo
  <2> QED
    BY <1>1, <2>1, <2>2, QuietStep DEF SaveBegins, SaveEnds
<1>5. CASE BootWithoutStats \/ BootWithStats
  <2>1. At("idle") /\ io'.then = "load"
    BY <1>5 DEF BootWithoutStats, BootWithStats, Begin
  <2> QED
    BY <1>1, <2>1, QuietStep DEF SaveBegins, SaveEnds, At
<1>6. CASE FailBoot
  <2>1. At("idle") /\ io'.then = "none"
    BY <1>6 DEF FailBoot, Return, IdleIo
  <2> QED
    BY <1>1, <2>1, QuietStep DEF SaveBegins, SaveEnds, At
<1>7. CASE Changing /\ UNCHANGED <<running, io>>
  <2>1. At("idle") /\ io'.then = "none"
    BY <1>7 DEF Changing, IdleSound
  <2> QED
    BY <1>1, <2>1, QuietStep DEF SaveBegins, SaveEnds, At
<1> QED
  BY <1>2, <1>3, <1>4, <1>5, <1>6, <1>7

(* Calls in memory only grow what the file covers.                           *)
LEMMA ChangedSound ==
  ASSUME HInv, TInv', SaveSound', HistoryStays, Changing,
         UNCHANGED <<running, disk, tmp, io>>, SoundManager(cm'), Grown(cm', cm)
  PROVE  FileSound'
<1>1. /\ running /\ running' /\ io'.pc = "idle" /\ IsFile(disk) /\ SoundManager(cm)
      /\ IsChunkManager(cm) /\ IsChunkManager(cm') /\ ~tornCompacted
  BY DEF Changing, HInv, FileSound, RunSound, TInv, TypeOK, At, SoundManager
<1>2. PICK base : Covers(base, disk, cm, attempts)
  BY <1>1 DEF HInv, FileSound, RunSound
<1>3. Covers(base, disk, cm', attempts)
  BY <1>1, <1>2, CoversGrows
<1>4. \E b : Covers(b, disk', cm', attempts')
  BY <1>3 DEF HistoryStays
<1>5. RunSound'
  BY <1>1, <1>4 DEF RunSound, HistoryStays, At
<1>6. UncutSound'
  <2>1. disk.exists /\ disk.superblock # NoSuperblock
    BY <1>1, RunningSound DEF HInv, FileSound
  <2>2. uncutSave => Bootable(disk)
    BY <2>1 DEF HInv, FileSound, UncutSound
  <2>3. disk' = disk /\ uncutSave' = uncutSave
    BY DEF HistoryStays
  <2>4. uncutSave' => Bootable(disk')
    BY <2>2, <2>3
  <2> QED
    BY <1>1, <2>4 DEF UncutSound
<1>7. IdleSound'
  BY DEF HInv, FileSound, IdleSound, At
<1> QED
  BY <1>1, <1>5, <1>6, <1>7, RunningStep

(* A save that begins adds what is live now to what may be on disk.          *)
LEMMA BegunSound ==
  ASSUME "open" \notin Faults, HInv, TInv', SaveSound', HNext, BeginSave \/ BeginSaveByCreating
  PROVE  FileSound'
<1>1. running /\ At("idle") /\ UNCHANGED <<running, cm, disk, tmp>>
      /\ IsFile(disk) /\ SoundManager(cm) /\ IsChunkManager(cm) /\ ~tornCompacted /\ disk.exists
  BY DEF BeginSave, BeginSaveByCreating, HInv, FileSound, RunSound, SaveSound, TInv, TypeOK, SoundManager
<1>2. io' = [pc |-> "save", next |-> 0, then |-> "save"]
  BY <1>1 DEF BeginSave, BeginSaveByCreating, MayNotOpen, Begin
<1>3. io'.pc = "save" /\ io'.then = "save"
  BY <1>2
<1>4. attempts' = attempts \cup {LiveSet(cm)} /\ uncutSave' = FALSE /\ tornCompacted' = FALSE
  <2>1. SaveBegins /\ ~BootEnds /\ ~At("compact")
    BY <1>1, <1>3 DEF SaveBegins, BootEnds, At
  <2>2. attempts' = attempts \cup {LiveSet(cm)} /\ uncutSave' = FALSE
    BY <2>1 DEF HNext
  <2>3. tornCompacted' = (tornCompacted \/ (At("compact") /\ io'.pc = "remove" /\ ~Bootable(disk)))
    BY <2>1 DEF HNext
  <2> QED
    BY <1>1, <2>1, <2>2, <2>3
<1>5. PICK base : Covers(base, disk, cm, attempts)
  BY <1>1 DEF HInv, FileSound, RunSound
<1>6. Grown(cm, cm)
  BY <1>1, SameIsGrown
<1>7. Covers(base, disk, cm, attempts')
  BY <1>1, <1>4, <1>5, <1>6, CoversGrows
<1>8. \E b : Covers(b, disk', cm', attempts')
  BY <1>1, <1>7
<1>9. SoundManager(cm') /\ LiveSet(cm') \in attempts'
  BY <1>1, <1>4
<1>10. RunSound'
  BY <1>1, <1>3, <1>4, <1>8, <1>9 DEF RunSound, At
<1>11. UncutSound' /\ IdleSound'
  BY <1>3, <1>4 DEF UncutSound, IdleSound, At
<1> QED
  BY <1>1, <1>10, <1>11, RunningStep

(* A step inside a save.                                                     *)
LEMMA SavingSound ==
  ASSUME HInv, SaveSound', HistoryStays, UNCHANGED <<running, cm>>, running,
         io.pc \in {"save", "save_records"}, io'.pc \in {"save", "save_records"},
         NEW base, Covers(base, disk', cm, attempts)
  PROVE  FileSound'
<1>1. SoundManager(cm) /\ ~tornCompacted /\ LiveSet(cm) \in attempts /\ ~uncutSave
  BY DEF HInv, FileSound, RunSound
<1>2. \E b : Covers(b, disk', cm', attempts')
  BY DEF HistoryStays
<1>3. SoundManager(cm') /\ ~tornCompacted' /\ LiveSet(cm') \in attempts' /\ ~uncutSave'
  BY <1>1 DEF HistoryStays
<1>4. RunSound'
  BY <1>2, <1>3 DEF RunSound, At
<1>5. UncutSound' /\ IdleSound'
  BY <1>3 DEF UncutSound, IdleSound, At
<1> QED
  BY <1>4, <1>5, RunningStep

(* A file that differs in one section, written from memory.                  *)
RewritesSection(c, new) ==
  /\ new.exists = disk.exists
  /\ new.superblock = disk.superblock
  /\ \A k \in DOMAIN disk.sections : k \in DOMAIN new.sections
  /\ \A k \in DOMAIN disk.sections : k # c => new.sections[k] = disk.sections[k]
  /\ new.sections[c].header = Header(c, cm.chunks[c].used_slots, cm.chunks[c].tombstones)
  /\ c \in DOMAIN disk.sections /\ disk.sections[c].records # NoRecords =>
       /\ new.sections[c].records # NoRecords
       /\ \A s \in Slots : new.sections[c].records[s] \in {disk.sections[c].records[s],
                                                           cm.chunks[c].records[s]}

(* The section that a step of a save writes stays covered.                   *)
LEMMA SectionWrittenSound ==
  ASSUME HInv, SaveSound', HistoryStays, UNCHANGED <<running, cm>>, running,
         io.pc \in {"save", "save_records"}, io'.pc \in {"save", "save_records"},
         NEW c \in ChunkIds(cm), NEW new, disk' = new, RewritesSection(c, new)
  PROVE  FileSound'
<1>1. SoundManager(cm) /\ LiveSet(cm) \in attempts /\ IsFile(disk)
  BY DEF HInv, FileSound, RunSound, TInv, TypeOK
<1>2. PICK base : Covers(base, disk, cm, attempts)
  BY DEF HInv, FileSound, RunSound
<1>3. Covers(base, new, cm, attempts)
  BY <1>1, <1>2, CoversWrites DEF RewritesSection
<1>4. Covers(base, disk', cm, attempts)
  BY <1>3
<1> QED
  BY <1>4, SavingSound

(* A header is overwritten; the records behind it wait.                      *)
LEMMA HeaderWriteSound ==
  ASSUME HInv, SaveSound', HistoryStays, WriteHeader
  PROVE  FileSound'
<1> DEFINE c == Min(DirtyFrom(io.next))
           chunk == cm.chunks[c]
           new == WithHeader(disk, c, chunk)
<1>1. /\ running /\ io.pc = "save" /\ IsFile(disk) /\ IsChunkManager(cm) /\ io \in IoType /\ io.next \in Nat
  BY DEF WriteHeader, HInv, TInv, TypeOK, IoSound, IoType, At
<1>2. /\ DirtyFrom(io.next) # {}
      /\ disk' = new
      /\ io' = [io EXCEPT !.pc = "save_records", !.next = c]
      /\ UNCHANGED <<running, cm>>
  BY DEF WriteHeader
<1>3. c \in ChunkIds(cm) /\ c \in Nat
  BY <1>1, <1>2, DirtyFromLeast
<1>4. io'.pc = "save_records"
  BY <1>1, <1>2 DEF IoType
<1> HIDE DEF c
<1>5. chunk \in Chunk
  BY <1>1, <1>3, ChunkTyped
<1> HIDE DEF chunk
<1>6. /\ new.exists = disk.exists
      /\ new.superblock = disk.superblock
      /\ DOMAIN new.sections = DOMAIN disk.sections \cup 0 .. c
      /\ new.sections[c].header = Header(c, chunk.used_slots, chunk.tombstones)
      /\ c \in DOMAIN disk.sections => new.sections[c].records = disk.sections[c].records
      /\ \A k \in DOMAIN disk.sections : k # c => new.sections[k] = disk.sections[k]
  BY <1>1, <1>3, <1>5, WithHeaderTyped
<1> HIDE DEF new
<1>7. /\ \A k \in DOMAIN disk.sections : k \in DOMAIN new.sections
      /\ \A k \in DOMAIN disk.sections : k # c => new.sections[k] = disk.sections[k]
  BY ONLY <1>6
<1>8. new.sections[c].header = Header(c, cm.chunks[c].used_slots, cm.chunks[c].tombstones)
  BY <1>6 DEF chunk
<1>9. c \in DOMAIN disk.sections /\ disk.sections[c].records # NoRecords =>
        /\ new.sections[c].records # NoRecords
        /\ \A s \in Slots : new.sections[c].records[s] \in {disk.sections[c].records[s],
                                                            cm.chunks[c].records[s]}
  BY <1>6
<1>10. io.pc \in {"save", "save_records"} /\ io'.pc \in {"save", "save_records"}
  BY <1>1, <1>4
<1>11. RewritesSection(c, new)
  BY <1>6, <1>7, <1>8, <1>9 DEF RewritesSection
<1> QED
  BY <1>1, <1>2, <1>3, <1>10, <1>11, SectionWrittenSound

(* Records are overwritten behind a header that was.                         *)
LEMMA RecordsWriteSound ==
  ASSUME HInv, SaveSound', HistoryStays, WriteSomeRecords \/ WriteRecords
  PROVE  FileSound'
<1> DEFINE c == io.next
           chunk == cm.chunks[c]
<1>1. /\ running /\ io.pc = "save_records" /\ IsFile(disk) /\ IsChunkManager(cm) /\ io \in IoType
      /\ c \in ChunkIds(cm) /\ c \in DOMAIN disk.sections
  BY DEF WriteSomeRecords, WriteRecords, HInv, TInv, TypeOK, IoSound, IoType, At
<1>2. io'.pc \in {"save", "save_records"} /\ UNCHANGED <<running, cm>>
  BY <1>1 DEF WriteSomeRecords, WriteRecords, IoType
<1>3. chunk \in Chunk
  BY <1>1, ChunkTyped
<1>4. disk.sections[c].header = Header(c, chunk.used_slots, chunk.tombstones)
  BY <1>1 DEF HInv, SaveSound, HeaderWritten, At
<1>5. CASE WriteRecords
  <2> DEFINE new == WithRecords(disk, c, chunk)
  <2>1. disk' = new
    BY <1>5 DEF WriteRecords
  <2> HIDE DEF c, chunk
  <2>2. /\ new.exists = disk.exists
        /\ new.superblock = disk.superblock
        /\ DOMAIN new.sections = DOMAIN disk.sections
        /\ new.sections[c].header = disk.sections[c].header
        /\ new.sections[c].records = chunk.records
        /\ \A k \in DOMAIN disk.sections : k # c => new.sections[k] = disk.sections[k]
    BY <1>1, <1>3, WithRecordsTyped
  <2>3. chunk.records # NoRecords
    BY <1>3, CutAssumption DEF Chunk
  <2> HIDE DEF new
  <2>4. /\ new.sections[c].records # NoRecords
        /\ \A s \in Slots : new.sections[c].records[s] \in {disk.sections[c].records[s],
                                                            cm.chunks[c].records[s]}
    BY <2>2, <2>3 DEF chunk
  <2>5. new.sections[c].header = Header(c, cm.chunks[c].used_slots, cm.chunks[c].tombstones)
    BY <1>4, <2>2 DEF chunk
  <2>6. /\ \A k \in DOMAIN disk.sections : k \in DOMAIN new.sections
        /\ \A k \in DOMAIN disk.sections : k # c => new.sections[k] = disk.sections[k]
    BY ONLY <2>2
  <2>7. io.pc \in {"save", "save_records"}
    BY <1>1
  <2>8. RewritesSection(c, new)
    BY <2>2, <2>4, <2>5, <2>6 DEF RewritesSection
  <2> QED
    BY <1>1, <1>2, <2>1, <2>7, <2>8, SectionWrittenSound
<1>6. CASE WriteSomeRecords
  <2>1. PICK n \in 1 .. ChunkCapacity - 1 : disk' = WithSomeRecords(disk, c, chunk, n)
    BY <1>6 DEF WriteSomeRecords
  <2>2. disk.sections[c].records # NoRecords
    BY <1>6 DEF WriteSomeRecords
  <2> DEFINE new == WithSomeRecords(disk, c, chunk, n)
  <2>3. disk' = new /\ n \in Nat
    BY <2>1
  <2> HIDE DEF c, chunk
  <2>4. /\ new.exists = disk.exists
        /\ new.superblock = disk.superblock
        /\ DOMAIN new.sections = DOMAIN disk.sections
        /\ new.sections[c].header = disk.sections[c].header
        /\ \A k \in DOMAIN disk.sections : k # c => new.sections[k] = disk.sections[k]
        /\ new.sections[c].records # NoRecords
        /\ \A s \in Slots : new.sections[c].records[s] \in {disk.sections[c].records[s], chunk.records[s]}
    BY <1>1, <1>3, <2>2, <2>3, WithSomeRecordsTyped
  <2> HIDE DEF new
  <2>5. /\ new.sections[c].records # NoRecords
        /\ \A s \in Slots : new.sections[c].records[s] \in {disk.sections[c].records[s],
                                                            cm.chunks[c].records[s]}
    BY <2>4 DEF chunk
  <2>6. new.sections[c].header = Header(c, cm.chunks[c].used_slots, cm.chunks[c].tombstones)
    BY <1>4, <2>4 DEF chunk
  <2>7. /\ \A k \in DOMAIN disk.sections : k \in DOMAIN new.sections
        /\ \A k \in DOMAIN disk.sections : k # c => new.sections[k] = disk.sections[k]
    BY ONLY <2>4
  <2>8. io.pc \in {"save", "save_records"}
    BY <1>1
  <2>9. RewritesSection(c, new)
    BY <2>4, <2>5, <2>6, <2>7 DEF RewritesSection
  <2> QED
    BY <1>1, <1>2, <2>3, <2>8, <2>9, SectionWrittenSound
<1> QED
  BY <1>5, <1>6

(* The sections all hold the chunks when the superblock is written: the file *)
(* holds what is in memory.                                                  *)
LEMMA HeldInTheEnd ==
  running /\ SaveSound /\ At("save_end") /\ disk.superblock = Superblock(cm) => FileHolds(disk, cm)
BY DEF SaveSound, Settled, FileHolds

LEMMA HeldInTheEndNext ==
  (running /\ SaveSound /\ At("save_end") /\ disk.superblock = Superblock(cm))' => FileHolds(disk, cm)'
BY HeldInTheEnd, PTL

(* The superblock is written last.                                           *)
LEMMA SuperblockWriteSound ==
  ASSUME HInv, SaveSound', HistoryStays, WriteSuperblock
  PROVE  FileSound'
<1>1. /\ running /\ io.pc = "save" /\ IsFile(disk) /\ IsChunkManager(cm) /\ io \in IoType
      /\ SoundManager(cm) /\ LiveSet(cm) \in attempts /\ ~tornCompacted /\ ~uncutSave
  BY DEF WriteSuperblock, HInv, TInv, TypeOK, IoSound, IoType, At, FileSound, RunSound
<1>2. /\ disk' = [disk EXCEPT !.superblock = Superblock(cm)]
      /\ io' = [io EXCEPT !.pc = "save_end"]
      /\ UNCHANGED <<running, cm>>
  BY DEF WriteSuperblock, Goto
<1>3. disk'.superblock = Superblock(cm)
  BY <1>1, <1>2, SuperblockChanged
<1>4. io'.pc = "save_end"
  BY <1>1, <1>2 DEF IoType
<1>5. FileHolds(disk', cm)
  <2>1. (running /\ SaveSound /\ At("save_end") /\ disk.superblock = Superblock(cm))'
    BY <1>1, <1>2, <1>3, <1>4 DEF At
  <2> QED
    BY <1>2, <2>1, HeldInTheEndNext
<1>6. Covers(cm, disk', cm, attempts)
  <2>1. Grown(cm, cm)
    BY <1>1, SameIsGrown
  <2> QED
    BY <1>1, <1>5, <2>1, CoversSelf
<1>7. \E b : Covers(b, disk', cm', attempts')
  BY <1>2, <1>6 DEF HistoryStays
<1>8. /\ running' /\ SoundManager(cm') /\ ~tornCompacted' /\ LiveSet(cm') \in attempts' /\ ~uncutSave'
      /\ disk'.superblock = Superblock(cm')
  BY <1>1, <1>2, <1>3 DEF HistoryStays
<1>9. RunSound'
  BY <1>4, <1>7, <1>8 DEF RunSound, At
<1>10. UncutSound' /\ IdleSound'
  BY <1>4, <1>8 DEF UncutSound, IdleSound, At
<1> QED
  BY <1>8, <1>9, <1>10, RunningStep

(* Marking chunks clean changes flags only.                                  *)
LEMMA MarkedSound ==
  ASSUME NEW manager, SoundManager(manager)
  PROVE  LET new == MarkChunksClean(manager) IN
         /\ SoundManager(new)
         /\ LiveSet(new) = LiveSet(manager)
         /\ Superblock(new) = Superblock(manager)
         /\ \A file : FileHolds(file, manager) => FileHolds(file, new)
<1> DEFINE new == MarkChunksClean(manager)
<1>1. IsChunkManager(manager) /\ Exact(manager) /\ LiveValid(manager)
  BY DEF SoundManager
<1>2. /\ IsChunkManager(new) /\ ChunkIds(new) = ChunkIds(manager)
      /\ \A c \in ChunkIds(manager) :
            /\ new.chunks[c].records = manager.chunks[c].records
            /\ new.chunks[c].used_slots = manager.chunks[c].used_slots
            /\ new.chunks[c].tombstones = manager.chunks[c].tombstones
  BY <1>1, MarkChunksCleanTouches
<1>3. /\ new.chunk_count = manager.chunk_count
      /\ new.total_used_slots = manager.total_used_slots
      /\ new.total_tombstones = manager.total_tombstones
  BY <1>1 DEF MarkChunksClean, IsChunkManager
<1> HIDE DEF new
<1>4. SameIds(new, manager)
  BY <1>2, <1>3 DEF SameIds
<1>5. LiveLocations(new) = LiveLocations(manager) /\ Exact(new)
  BY <1>1, <1>2, <1>4, SameIdsMeaning
<1>6. ASSUME NEW loc \in LiveLocations(manager)
      PROVE  RecordAt(new, loc) = RecordAt(manager, loc)
  <2>1. loc.chunk_id \in ChunkIds(manager)
    BY DEF LiveLocations, UsedLocations
  <2> QED
    BY <1>2, <2>1 DEF RecordAt
<1>7. LiveValid(new)
  BY <1>1, <1>5, <1>6 DEF LiveValid
<1>8. SoundManager(new)
  BY <1>2, <1>5, <1>7 DEF SoundManager
<1>9. LiveSet(new) = LiveSet(manager)
  BY <1>5, <1>6 DEF LiveSet
<1>10. Superblock(new) = Superblock(manager)
  BY <1>3 DEF Superblock
<1>11. ASSUME NEW file, FileHolds(file, manager)
       PROVE  FileHolds(file, new)
  <2>1. \A c \in ChunkIds(new) : SectionHolds(file, c, new.chunks[c])
    BY <1>2, <1>11, HoldsUnflagged DEF FileHolds
  <2> QED
    BY <1>10, <1>11, <2>1 DEF FileHolds
<1> QED
  BY <1>8, <1>9, <1>10, <1>11 DEF new

(* An engine whose file holds what is in memory, and a history that knows    *)
(* nothing else: after a boot, and after a save.                             *)
LEMMA FreshSound ==
  ASSUME HInv, TInv', SaveSound', running', At("idle")', IdleSound',
         SoundManager(cm'), NEW file, disk' = file, IsFile(file), FileHolds(file, cm'),
         attempts' = {LiveSet(cm')}, ~tornCompacted'
  PROVE  FileSound'
<1>1. IsChunkManager(cm')
  BY DEF SoundManager
<1>2. Grown(cm', cm')
  BY <1>1, SameIsGrown
<1>3. Covers(cm', file, cm', attempts')
  BY <1>1, <1>2, CoversSelf
<1>4. \E b : Covers(b, disk', cm', attempts')
  BY <1>3
<1>5. RunSound'
  BY <1>4 DEF RunSound, At
<1>6. Bootable(disk')
  BY HeldBoots
<1>7. UncutSound'
  BY <1>6 DEF UncutSound, At
<1> QED
  BY <1>5, <1>7, RunningStep

(* A save that answers OK.                                                   *)
LEMMA FinishedSound ==
  ASSUME HInv, TInv', SaveSound', HNext, FinishSave
  PROVE  FileSound'
<1>1. /\ running /\ At("save_end") /\ SoundManager(cm) /\ ~tornCompacted /\ IsFile(disk)
      /\ disk.superblock = Superblock(cm) /\ SaveSound
  BY DEF FinishSave, HInv, TInv, TypeOK, IoSound, At, FileSound, RunSound
<1>2. cm' = MarkChunksClean(cm) /\ io' = IdleIo /\ result' = "OK" /\ UNCHANGED <<running, disk>>
  BY DEF FinishSave, Return
<1>3. FileHolds(disk, cm)
  BY <1>1, HeldInTheEnd
<1>4. SoundManager(cm') /\ FileHolds(disk, cm')
  BY <1>1, <1>2, <1>3, MarkedSound
<1>5. At("idle")' /\ IdleSound'
  BY <1>2 DEF IdleSound, IdleIo, At
<1>6. ~SaveBegins /\ SaveEnds /\ ~BootEnds /\ ~At("compact")
  BY <1>1, <1>2 DEF SaveBegins, SaveEnds, BootEnds, At
<1>7. attempts' = {LiveSet(cm')} /\ uncutSave'
  BY <1>6, EndStep
<1>8. tornCompacted' = (tornCompacted \/ (At("compact") /\ io'.pc = "remove" /\ ~Bootable(disk)))
  BY <1>6 DEF HNext
<1>9. ~tornCompacted'
  BY <1>1, <1>6, <1>8
<1> QED
  BY <1>1, <1>2, <1>4, <1>5, <1>7, <1>9, FreshSound

(* A save that is refused leaves the file covered.                           *)
LEMMA FailedSound ==
  ASSUME HInv, SaveSound', HistoryStays, FailSave
  PROVE  FileSound'
<1>1. running /\ SoundManager(cm) /\ ~tornCompacted /\ ~uncutSave
  BY DEF FailSave, HInv, TInv, TypeOK, IoSound, At, FileSound, RunSound
<1>2. io' = IdleIo /\ UNCHANGED <<running, cm, disk>>
  BY DEF FailSave, Return
<1>3. io'.pc = "idle" /\ io'.then = "none"
  BY <1>2 DEF IdleIo
<1>4. \E b : Covers(b, disk', cm', attempts')
  BY <1>1, <1>2 DEF HInv, FileSound, RunSound, HistoryStays
<1>5. RunSound'
  BY <1>1, <1>2, <1>3, <1>4 DEF RunSound, At, HistoryStays
<1>6. UncutSound' /\ IdleSound'
  BY <1>1, <1>3 DEF UncutSound, IdleSound, HistoryStays
<1> QED
  BY <1>1, <1>2, <1>5, <1>6, RunningStep

(* A boot that succeeds.                                                     *)
LEMMA BootSound ==
  ASSUME HInv, TInv', SaveSound', HNext, Load
  PROVE  FileSound'
<1>1. /\ ~running /\ At("load") /\ IsFile(disk) /\ Loadable(disk) /\ Bootable(disk)
      /\ ExactFile(disk)
  BY DEF Load, HInv, TInv, TypeOK, IoSound, At, FileSound, OffSound, Bootable
<1>2. cm' = Loaded(disk) /\ io' = IdleIo /\ running' /\ UNCHANGED disk
  BY DEF Load, Return
<1>3. SoundManager(Loaded(disk)) /\ FileHolds(disk, Loaded(disk))
  BY <1>1, BootedSound DEF ExactFile
<1>4. SoundManager(cm') /\ FileHolds(disk, cm')
  BY <1>2, <1>3
<1>5. At("idle")' /\ IdleSound'
  BY <1>2 DEF IdleSound, IdleIo, At
<1>6. ~SaveBegins /\ BootEnds
  BY <1>1, <1>2 DEF SaveBegins, BootEnds, At
<1>7. attempts' = {LiveSet(cm')}
  BY <1>6, EndStep
<1>8. ~tornCompacted'
  BY <1>6 DEF HNext
<1> QED
  BY <1>1, <1>2, <1>4, <1>5, <1>7, <1>8, FreshSound

(* Steps between two engines that leave the file alone.                      *)
LEMMA LeftSound ==
  ASSUME HInv, HistoryStays, ~running, ~running', UNCHANGED disk, IdleSound',
         io'.pc \in {"idle", "compact", "load", "create"},
         At("rename") => "replace" \in Faults,
         io'.pc = "create" => ~disk.exists \/ disk.superblock = NoSuperblock,
         io'.pc = "compact" => disk.exists /\ NeedsCompaction(disk.superblock)
  PROVE  FileSound'
<1>1. RunSound'
  BY DEF RunSound
<1>2. OffSound'
  <2>1. ExactFile(disk) /\ (~tornCompacted => KnownFile(disk, attempts))
    BY DEF HInv, FileSound, OffSound
  <2>2. ExactFile(disk') /\ (~tornCompacted' => KnownFile(disk', attempts'))
    BY <2>1 DEF HistoryStays
  <2> QED
    BY <2>2 DEF OffSound
<1>3. ReplaceSound'
  <2>1. /\ io'.pc = "create" => ~disk'.exists \/ disk'.superblock = NoSuperblock
        /\ io'.pc = "compact" => disk'.exists /\ NeedsCompaction(disk'.superblock)
    OBVIOUS
  <2> QED
    BY <2>1 DEF ReplaceSound, At
<1>4. EmptySound'
  <2>1. "replace" \notin Faults => (~disk.exists \/ disk.superblock = NoSuperblock => {} \in attempts)
    BY DEF HInv, FileSound, EmptySound
  <2>2. "replace" \notin Faults => (~disk'.exists \/ disk'.superblock = NoSuperblock => {} \in attempts')
    BY <2>1 DEF HistoryStays
  <2> QED
    BY <2>2 DEF EmptySound
<1>5. UncutSound'
  <2>1. uncutSave => (disk.exists /\ disk.superblock # NoSuperblock => Bootable(disk))
    BY DEF HInv, FileSound, UncutSound
  <2>2. uncutSave' => (disk'.exists /\ disk'.superblock # NoSuperblock => Bootable(disk'))
    BY <2>1 DEF HistoryStays
  <2> QED
    BY <2>2 DEF UncutSound
<1> QED
  BY <1>1, <1>2, <1>3, <1>4, <1>5 DEF FileSound

(* The steps that begin or refuse a boot or a creation.                      *)
LEMMA NoBootSound ==
  ASSUME "open" \notin Faults, HInv, TInv', HistoryStays,
         \/ FailCreate \/ BootWithoutStats \/ BootWithStats \/ FailBoot
         \/ FailCompact \/ FailRename \/ LoadByCreating \/ RefuseLoad
         \/ ~running /\ Stop
  PROVE  FileSound'
<1>1. IoSound /\ SaveSound /\ io \in IoType
  BY DEF HInv, TInv, TypeOK, IoType
<1>2. CASE FailCreate \/ FailBoot \/ FailCompact \/ FailRename \/ RefuseLoad \/ (~running /\ Stop)
  <2>1. io' = IdleIo /\ UNCHANGED disk /\ (At("rename") => "replace" \in Faults)
    BY <1>2 DEF FailCreate, FailBoot, FailCompact, FailRename, RefuseLoad, Stop, Return, At
  <2>2. io'.pc = "idle" /\ io'.then = "none"
    BY <2>1 DEF IdleIo
  <2>3. ~running /\ ~running'
    BY <1>1, <1>2 DEF FailCreate, FailBoot, FailCompact, FailRename, RefuseLoad, Stop, SaveSound, At
  <2>4. IdleSound'
    BY <2>2 DEF IdleSound
  <2> QED
    BY <2>1, <2>2, <2>3, <2>4, LeftSound
<1>3. CASE BootWithoutStats \/ BootWithStats
  <2>1. PICK pc \in {"compact", "load"} :
          /\ io' = [pc |-> pc, next |-> 0, then |-> "load"]
          /\ pc = "compact" => disk.exists /\ NeedsCompaction(disk.superblock)
    BY <1>3 DEF BootWithoutStats, BootWithStats, Begin, Opens
  <2>2. io'.pc = pc
    BY <2>1
  <2>3. ~running /\ ~running' /\ At("idle") /\ UNCHANGED disk
    BY <1>3 DEF BootWithoutStats, BootWithStats
  <2>4. IdleSound'
    BY <2>2 DEF IdleSound, At
  <2> QED
    BY <2>1, <2>2, <2>3, <2>4, LeftSound DEF At
<1>4. CASE LoadByCreating
  <2>1. /\ io' = [io EXCEPT !.pc = "create"] /\ At("load") /\ UNCHANGED <<running, disk>>
        /\ ~disk.exists \/ disk.superblock = NoSuperblock
    BY <1>4 DEF LoadByCreating, Goto, Opens
  <2>2. io'.pc = "create" /\ ~running
    BY <1>1, <2>1 DEF IoType, IoSound, At
  <2>3. IdleSound' /\ ~At("rename")
    BY <2>1, <2>2 DEF IdleSound, At
  <2>4. ~running'
    BY <2>1, <2>2
  <2>5. io'.pc \in {"idle", "compact", "load", "create"} /\ io'.pc # "compact"
    BY <2>2
  <2> QED
    BY <2>1, <2>2, <2>3, <2>4, <2>5, LeftSound
<1> QED
  BY <1>2, <1>3, <1>4

(* A file without a superblock is none that loads.                           *)
LEMMA NothingLoads ==
  /\ ~Loadable(Missing) /\ ~Loadable(ZeroLength)
  /\ ~Missing.exists /\ ZeroLength.superblock = NoSuperblock
BY DEF Missing, ZeroLength, Loadable, ValidSuperblock

(* Creating a file truncates what has no superblock.                         *)
LEMMA TruncatedSound ==
  ASSUME HInv, TInv', HistoryStays, TruncateFile
  PROVE  FileSound'
<1>1. At("create") /\ disk' = ZeroLength /\ io' = [io EXCEPT !.pc = "create_write"] /\ io \in IoType
  BY DEF TruncateFile, Goto, HInv, TInv, TypeOK, IoType
<1>2. io'.pc = "create_write" /\ ~running'
  BY <1>1 DEF IoType, TruncateFile, HInv, SaveSound, At
<1>3. ~disk.exists \/ disk.superblock = NoSuperblock
  BY <1>1 DEF HInv, FileSound, ReplaceSound
<1>4. "replace" \notin Faults => {} \in attempts
  BY <1>1, <1>3 DEF HInv, FileSound, EmptySound, At
<1>5. RunSound' /\ ReplaceSound' /\ IdleSound'
  BY <1>1, <1>2 DEF RunSound, ReplaceSound, IdleSound, At
<1>6. ~Loadable(disk') /\ disk'.superblock = NoSuperblock
  BY <1>1, NothingLoads
<1>7. OffSound'
  BY <1>2, <1>6 DEF OffSound, ExactFile, KnownFile
<1>8. EmptySound' /\ UncutSound'
  BY <1>2, <1>4, <1>6 DEF EmptySound, UncutSound, HistoryStays
<1> QED
  BY <1>5, <1>7, <1>8 DEF FileSound

(* A manager without chunks is sound, and shows nothing.                     *)
LEMMA EmptySoundManager ==
  /\ SoundManager(EmptyManager)
  /\ LiveSet(EmptyManager) = {}
<1>1. IsChunkManager(EmptyManager) /\ ChunkIds(EmptyManager) = {}
  BY EmptyManagerTyped
<1>2. UsedLocations(EmptyManager) = {}
  <2>1. [chunk_id : {}, slot_index : Slots] = {}
    OBVIOUS
  <2> QED
    BY <1>1, <2>1 DEF UsedLocations
<1>3. LiveLocations(EmptyManager) = {} /\ Tombstones(EmptyManager) = {}
  BY <1>2 DEF LiveLocations, Tombstones
<1>4. EmptyManager.total_used_slots = 0 /\ EmptyManager.total_tombstones = 0
  BY DEF EmptyManager
<1>5. Exact(EmptyManager)
  BY <1>1, <1>2, <1>3, <1>4, FS_EmptySet DEF Exact, CountersExact, ChunksPacked
<1>6. LiveValid(EmptyManager)
  BY <1>3 DEF LiveValid
<1>7. LiveSet(EmptyManager) = {}
  BY <1>3 DEF LiveSet
<1> QED
  BY <1>1, <1>5, <1>6, <1>7 DEF SoundManager

(* A new file holds no chunks, and loads as that.                            *)
LEMMA NewFile ==
  LET new == [ZeroLength EXCEPT !.superblock = Superblock(EmptyManager)] IN
  /\ IsFile(new)
  /\ new.superblock # NoSuperblock
  /\ FileHolds(new, EmptyManager)
  /\ Loaded(new) = EmptyManager
<1> DEFINE new == [ZeroLength EXCEPT !.superblock = Superblock(EmptyManager)]
<1>1. /\ IsFile(new) /\ new.exists = ZeroLength.exists
      /\ new.superblock = Superblock(EmptyManager)
      /\ new.superblock \in FileSuperblock
  BY MissingIsFile, EmptyManagerTyped, SuperblockChanged
<1>2. ZeroLength.exists = TRUE
  BY DEF ZeroLength
<1> HIDE DEF new
<1>3. new.superblock # NoSuperblock
  BY <1>1, SuperblockAssumption
<1>4. FileHolds(new, EmptyManager)
  BY <1>1, <1>2, EmptyManagerTyped DEF FileHolds
<1>5. Loaded(new) = EmptyManager
  <2>1. /\ new.superblock.chunk_count = 0
        /\ new.superblock.total_used_slots = 0
        /\ new.superblock.total_tombstones = 0
    BY <1>1 DEF Superblock, EmptyManager
  <2>2. SectionIds(new) = 0 .. -1 /\ 0 .. -1 = {}
    BY <2>1 DEF SectionIds
  <2>3. [c \in SectionIds(new) |->
           [records    |-> new.sections[c].records,
            used_slots |-> new.sections[c].header.used_slots,
            tombstones |-> new.sections[c].header.tombstones,
            dirty      |-> FALSE]] = [c \in 0 .. -1 |-> 0]
    BY <2>2
  <2> QED
    BY <2>1, <2>3 DEF Loaded, EmptyManager
<1> QED
  BY <1>1, <1>3, <1>4, <1>5 DEF new

(* Its superblock makes the new file an empty database: that is known, or    *)
(* what a replacement that failed has left.                                  *)
LEMMA CreatedSound ==
  ASSUME HInv, TInv', HistoryStays, WriteEmptySuperblock
  PROVE  FileSound'
<1>1. /\ At("create_write") /\ disk = ZeroLength /\ io \in IoType
      /\ disk' = [disk EXCEPT !.superblock = Superblock(EmptyManager)]
      /\ io' = [io EXCEPT !.pc = io.then]
  BY DEF WriteEmptySuperblock, Goto, HInv, FileSound, ReplaceSound, TInv, TypeOK, IoType
<1>2. ~running /\ ~running' /\ io.then = "load"
  BY <1>1 DEF WriteEmptySuperblock, HInv, SaveSound, TInv, IoSound, At
<1>3. io'.pc = "load"
  BY <1>1, <1>2 DEF IoType
<1>4. /\ IsFile(disk') /\ disk'.superblock # NoSuperblock
      /\ FileHolds(disk', EmptyManager) /\ Loaded(disk') = EmptyManager
  BY <1>1, NewFile
<1>5. Bootable(disk')
  BY <1>4, EmptySoundManager, HeldBoots
<1>6. Exact(Loaded(disk'))
  BY <1>4, EmptySoundManager DEF SoundManager
<1>7. KnownFile(disk', attempts')
  <2>1. CASE "replace" \in Faults
    BY <1>4, <2>1 DEF KnownFile
  <2>2. CASE "replace" \notin Faults
    <3>1. {} \in attempts
      BY <1>1, <2>2, NothingLoads DEF HInv, FileSound, EmptySound, At
    <3>2. LiveSet(Loaded(disk')) = {} /\ LiveIds(Loaded(disk')) = IdsOf({})
      BY <1>4, EmptySoundManager, LiveIdsMeaning
    <3>3. {} \in attempts'
      BY <3>1 DEF HistoryStays
    <3> QED
      BY <3>2, <3>3 DEF KnownFile
  <2> QED
    BY <2>1, <2>2
<1>8. RunSound' /\ ReplaceSound' /\ IdleSound'
  BY <1>2, <1>3 DEF RunSound, ReplaceSound, IdleSound, At
<1>9. OffSound'
  BY <1>3, <1>6, <1>7 DEF OffSound, ExactFile
<1>10. EmptySound'
  <2>1. disk'.exists
    BY <1>4 DEF FileHolds
  <2> QED
    BY <1>4, <2>1 DEF EmptySound
<1>11. UncutSound'
  BY <1>3, <1>5 DEF UncutSound
<1> QED
  BY <1>8, <1>9, <1>10, <1>11 DEF FileSound

(* Compaction writes a file that counts what it holds, and that shows what   *)
(* the old one showed if that could be booted.                               *)
LEMMA CompactingSound ==
  ASSUME HInv, TInv', HNext, Compact
  PROVE  FileSound'
<1> DEFINE new == Compacted(disk)
<1>1. /\ At("compact") /\ io \in IoType /\ ~running /\ IsFile(disk)
      /\ ValidSuperblock(disk.superblock) /\ disk.exists /\ NeedsCompaction(disk.superblock)
      /\ ExactFile(disk) /\ (~tornCompacted => KnownFile(disk, attempts))
  BY DEF Compact, HInv, FileSound, TInv, TypeOK, IoType, IoSound, At, ReplaceSound, OffSound
<1>2. /\ tmp' = new /\ io' = [io EXCEPT !.pc = "remove"] /\ UNCHANGED <<running, cm, disk>>
      /\ \A c \in SectionIds(disk) : ReadableSection(disk, c)
  BY DEF Compact, Goto
<1>3. io'.pc = "remove" /\ ~running'
  BY <1>1, <1>2 DEF IoType
<1>4. ~SaveBegins /\ ~SaveEnds /\ ~BootEnds
  BY <1>1, <1>3 DEF SaveBegins, SaveEnds, BootEnds, At
<1>5. /\ attempts' = attempts
      /\ uncutSave' = uncutSave
      /\ tornCompacted' = (tornCompacted \/ (At("compact") /\ io'.pc = "remove" /\ ~Bootable(disk)))
  BY <1>4 DEF HNext
<1>6. ~tornCompacted' => ~tornCompacted /\ Bootable(disk)
  BY <1>1, <1>3, <1>5
<1>7. IsFile(new) /\ new.exists
  BY <1>1, <1>2, CompactedTyped
<1>8. new.superblock # NoSuperblock
  <2> DEFINE active == disk.superblock.total_used_slots - disk.superblock.total_tombstones
  <2>1. active \in Nat
    BY <1>1 DEF ValidSuperblock, IsFile, FileSuperblock
  <2>2. CeilDiv(active, ChunkCapacity) \in Nat
    BY <2>1, CeilDivNatural, CapacityAssumption
  <2>3. new.superblock = [chunk_count      |-> CeilDiv(active, ChunkCapacity),
                          total_used_slots |-> active,
                          total_tombstones |-> 0]
    BY DEF Compacted
  <2> HIDE DEF active
  <2>4. new.superblock \in FileSuperblock
    BY <2>1, <2>2, <2>3 DEF FileSuperblock
  <2> QED
    BY <2>4, SuperblockAssumption
<1>9. ExactFile(new)
  BY <1>1, <1>2, CompactedExact DEF ExactFile
<1>10. ASSUME Bootable(disk)
       PROVE  Bootable(new) /\ Exact(Loaded(disk)) /\ LiveSet(Loaded(new)) = LiveSet(Loaded(disk))
  <2>1. Exact(Loaded(disk))
    BY <1>1, <1>10 DEF Bootable, ExactFile
  <2> QED
    BY <1>1, <1>10, <2>1, CompactedBoots
<1>11. ASSUME ~tornCompacted'
       PROVE  KnownFile(new, attempts)
  <2>1. Bootable(disk) /\ Loadable(disk) /\ KnownFile(disk, attempts)
    BY <1>1, <1>6, <1>11 DEF Bootable
  <2>2. Loaded(disk) # EmptyManager
    <3>1. Loaded(disk).total_used_slots = disk.superblock.total_used_slots
      BY LoadedFields
    <3>2. disk.superblock.total_used_slots # 0
      BY <1>1 DEF NeedsCompaction, IsFile, FileSuperblock, ValidSuperblock
    <3>3. EmptyManager.total_used_slots = 0
      BY DEF EmptyManager
    <3> QED
      BY <3>1, <3>2, <3>3
  <2>3. /\ \E saved \in attempts : LiveIds(Loaded(disk)) = IdsOf(saved)
        /\ LiveSet(Loaded(disk)) \subseteq UNION attempts
    BY <2>1, <2>2 DEF KnownFile
  <2>4. LiveSet(Loaded(new)) = LiveSet(Loaded(disk)) /\ LiveIds(Loaded(new)) = LiveIds(Loaded(disk))
    BY <1>10, <2>1, LiveIdsMeaning
  <2> QED
    BY <2>3, <2>4 DEF KnownFile
<1> HIDE DEF new
<1>12. RunSound' /\ IdleSound'
  BY <1>3 DEF RunSound, IdleSound, At
<1>13. ReplaceSound'
  BY <1>2, <1>3, <1>7, <1>8 DEF ReplaceSound, At
<1>14. OffSound'
  <2>1. ExactFile(tmp') /\ (~tornCompacted' => KnownFile(tmp', attempts'))
    BY <1>2, <1>5, <1>9, <1>11
  <2>2. ExactFile(disk') /\ (~tornCompacted' => KnownFile(disk', attempts'))
    BY <1>1, <1>2, <1>5, <1>6
  <2> QED
    BY <2>1, <2>2 DEF OffSound
<1>15. EmptySound'
  <2>1. disk'.exists /\ disk'.superblock # NoSuperblock
    BY <1>1, <1>2 DEF ValidSuperblock
  <2> QED
    BY <2>1 DEF EmptySound
<1>16. UncutSound'
  <2>1. uncutSave => Bootable(disk)
    BY <1>1 DEF HInv, FileSound, UncutSound, ValidSuperblock
  <2>2. uncutSave' => Bootable(disk') /\ Bootable(tmp')
    BY <1>2, <1>5, <1>10, <2>1
  <2> QED
    BY <2>2 DEF UncutSound
<1> QED
  BY <1>12, <1>13, <1>14, <1>15, <1>16 DEF FileSound

(* The old file is removed, then the new one takes its place.                *)
LEMMA ReplacedSound ==
  ASSUME HInv, TInv', HistoryStays, RemoveOld \/ RenameTemporary
  PROVE  FileSound'
<1>1. /\ io.pc \in {"remove", "rename"} /\ io \in IoType /\ ~running /\ ~running'
      /\ ExactFile(tmp) /\ (~tornCompacted => KnownFile(tmp, attempts))
      /\ tmp.exists /\ tmp.superblock # NoSuperblock
      /\ (uncutSave => Bootable(tmp))
  BY DEF RemoveOld, RenameTemporary, HInv, FileSound, TInv, TypeOK, IoType, IoSound, At,
         ReplaceSound, OffSound, UncutSound
<1>2. RunSound'
  BY <1>1 DEF RunSound
<1>3. CASE RemoveOld
  <2>1. disk' = Missing /\ tmp' = tmp /\ io' = [io EXCEPT !.pc = "rename"]
    BY <1>3 DEF RemoveOld, Goto
  <2>2. io'.pc = "rename"
    BY <1>1, <2>1 DEF IoType
  <2>3. ~Loadable(disk') /\ ~disk'.exists
    BY <2>1, NothingLoads
  <2>4. ReplaceSound' /\ IdleSound' /\ EmptySound'
    BY <1>1, <2>1, <2>2, <2>3 DEF ReplaceSound, IdleSound, EmptySound, At
  <2>5. ExactFile(tmp') /\ (~tornCompacted' => KnownFile(tmp', attempts')) /\ (uncutSave' => Bootable(tmp'))
    BY <1>1, <2>1 DEF HistoryStays
  <2>6. OffSound'
    BY <2>3, <2>5 DEF OffSound, ExactFile, KnownFile
  <2>7. UncutSound'
    BY <2>3, <2>5 DEF UncutSound
  <2> QED
    BY <1>2, <2>4, <2>6, <2>7 DEF FileSound
<1>4. CASE RenameTemporary
  <2>1. disk' = tmp /\ io' = [io EXCEPT !.pc = "load"]
    BY <1>4 DEF RenameTemporary, Goto
  <2>2. io'.pc = "load"
    BY <1>1, <2>1 DEF IoType
  <2>3. ReplaceSound' /\ IdleSound' /\ EmptySound'
    BY <1>1, <2>1, <2>2 DEF ReplaceSound, IdleSound, EmptySound, At
  <2>4. ExactFile(disk') /\ (~tornCompacted' => KnownFile(disk', attempts')) /\ (uncutSave' => Bootable(disk'))
    BY <1>1, <2>1 DEF HistoryStays
  <2>5. OffSound'
    BY <2>2, <2>4 DEF OffSound
  <2>6. UncutSound'
    BY <2>2, <2>4 DEF UncutSound
  <2> QED
    BY <1>2, <2>3, <2>5, <2>6 DEF FileSound
<1> QED
  BY <1>3, <1>4

(* The process ends while an engine runs: whatever a save had written, the   *)
(* file shows a moment that was seen, or does not load.                      *)
LEMMA StoppedSound ==
  ASSUME HInv, TInv', HistoryStays, Stop, running
  PROVE  FileSound'
<1>1. IsFile(disk) /\ SoundManager(cm) /\ IsChunkManager(cm) /\ disk.exists /\ disk.superblock # NoSuperblock
  BY RunningSound DEF HInv, FileSound, RunSound, TInv, TypeOK, SoundManager
<1>2. io' = IdleIo /\ running' = FALSE /\ UNCHANGED disk
  BY DEF Stop
<1>3. io'.pc = "idle" /\ io'.then = "none"
  BY <1>2 DEF IdleIo
<1>4. PICK base : Covers(base, disk, cm, attempts)
  BY DEF HInv, FileSound, RunSound
<1>5. ASSUME Loadable(disk)
      PROVE  /\ Exact(Loaded(disk))
             /\ \E saved \in attempts : LiveIds(Loaded(disk)) = IdsOf(saved)
             /\ LiveSet(Loaded(disk)) \subseteq UNION attempts
  BY <1>1, <1>4, <1>5, CoversFileSound
<1>6. ExactFile(disk) /\ KnownFile(disk, attempts)
  BY <1>5 DEF ExactFile, KnownFile
<1>7. ExactFile(disk') /\ KnownFile(disk', attempts')
  BY <1>2, <1>6 DEF HistoryStays
<1>8. OffSound'
  BY <1>3, <1>7 DEF OffSound
<1>9. RunSound' /\ ReplaceSound' /\ IdleSound' /\ EmptySound'
  BY <1>1, <1>2, <1>3 DEF RunSound, ReplaceSound, IdleSound, EmptySound, At
<1>10. UncutSound'
  <2>1. uncutSave => Bootable(disk)
    BY <1>1 DEF HInv, FileSound, UncutSound
  <2>2. uncutSave' => Bootable(disk')
    BY <1>2, <2>1 DEF HistoryStays
  <2> QED
    BY <1>3, <2>2 DEF UncutSound
<1> QED
  BY <1>8, <1>9, <1>10 DEF FileSound

(* Every action keeps the invariant.                                         *)
LEMMA NextFiles ==
  ASSUME "open" \notin Faults, HInv, TInv', SaveSound', HNext
  PROVE  FileSound'
<1>1. Next /\ IoSound /\ IdleSound /\ HistoryTyped
  BY DEF HNext, HInv, TInv, FileSound
<1>2. CASE FinishSave \/ Load \/ Compact \/ BeginSave \/ BeginSaveByCreating
  BY <1>2, FinishedSound, BootSound, CompactingSound, BegunSound
<1>3. CASE WriteHeader \/ WriteSomeRecords \/ WriteRecords \/ WriteSuperblock \/ FailSave
  <2>1. HistoryStays
    BY <1>1, <1>3, QuietSteps
  <2> QED
    BY <1>3, <2>1, HeaderWriteSound, RecordsWriteSound, SuperblockWriteSound, FailedSound
<1>4. CASE TruncateFile \/ WriteEmptySuperblock \/ RemoveOld \/ RenameTemporary
  <2>1. HistoryStays
    BY <1>1, <1>4, QuietSteps
  <2> QED
    BY <1>4, <2>1, TruncatedSound, CreatedSound, ReplacedSound
<1>5. CASE FailCreate \/ BootWithoutStats \/ BootWithStats \/ FailBoot
           \/ FailCompact \/ FailRename \/ LoadByCreating \/ RefuseLoad
  <2>1. HistoryStays
    BY <1>1, <1>5, QuietSteps
  <2> QED
    BY <1>5, <2>1, NoBootSound
<1>6. CASE Stop
  <2>1. HistoryStays
    BY <1>1, <1>6, QuietSteps
  <2> QED
    BY <1>6, <2>1, NoBootSound, StoppedSound
<1>7. CASE \/ \E batch \in Batches : Insert(batch)
           \/ \E loc \in Reachable(cm) : Delete(loc) \/ \E gpa \in Gpas : UpdateGpa(loc, gpa)
  <2>1. Changing /\ UNCHANGED <<running, disk, tmp, io>>
    BY <1>7 DEF Insert, Delete, UpdateGpa
  <2>2. HistoryStays
    BY <1>1, <2>1, QuietSteps
  <2>3. SoundManager(cm)
    BY <2>1 DEF Changing, HInv, FileSound, RunSound
  <2>4. SoundManager(cm') /\ Grown(cm', cm)
    <3>1. CASE \E batch \in Batches : Insert(batch)
      <4>1. PICK batch \in Batches : Insert(batch)
        BY <3>1
      <4>2. batch \in Seq(Record)
        BY BatchAssumption
      <4> QED
        BY <2>3, <4>1, <4>2, AppendedSound DEF Insert
    <3>2. CASE \E loc \in Reachable(cm) : Delete(loc)
      BY <2>3, <3>2, BurySound DEF Delete
    <3>3. CASE \E loc \in Reachable(cm) : \E gpa \in Gpas : UpdateGpa(loc, gpa)
      BY <2>3, <3>3, WriteGpaSound DEF UpdateGpa
    <3> QED
      BY <1>7, <3>1, <3>2, <3>3
  <2> QED
    BY <2>1, <2>2, <2>4, ChangedSound
<1> QED
  BY <1>1, <1>2, <1>3, <1>4, <1>5, <1>6, <1>7 DEF Next

(* The invariant holds where there is no file yet.                           *)
LEMMA InitFiles == HInit => HInv
<1> SUFFICES ASSUME HInit PROVE HInv
  OBVIOUS
<1>1. /\ ~running /\ disk = Missing /\ io = IdleIo /\ attempts = {{}}
      /\ uncutSave = TRUE /\ tornCompacted = FALSE /\ Init
  BY DEF HInit, Init
<1>2. io.pc = "idle" /\ io.then = "none"
  BY <1>1 DEF IdleIo
<1>3. TInv /\ SaveSound /\ HistoryTyped
  BY <1>1, InitTyped DEF SaveSound, HistoryTyped
<1>4. RunSound /\ ReplaceSound /\ IdleSound /\ EmptySound
  BY <1>1, <1>2 DEF RunSound, ReplaceSound, IdleSound, EmptySound, At
<1>5. ~Loadable(disk) /\ ~disk.exists
  BY <1>1, NothingLoads
<1>6. OffSound /\ UncutSound
  BY <1>2, <1>5 DEF OffSound, UncutSound, ExactFile, KnownFile
<1> QED
  BY <1>3, <1>4, <1>6 DEF HInv, FileSound

(* The files are exact and known, and what is in memory sound, in every      *)
(* state, where an existing file can always be opened.                       *)
THEOREM FilesSound ==
  ASSUME "open" \notin Faults
  PROVE  HSpec => []HInv
<1>1. HInv /\ [HNext]_hvars => HInv'
  <2> SUFFICES ASSUME HInv, [HNext]_hvars PROVE HInv'
    OBVIOUS
  <2>1. [Next]_vars
    BY DEF HNext, hvars
  <2>2. TInv' /\ SaveSound'
    BY <2>1, NextTyped, NextSettled DEF HInv
  <2>3. HistoryTyped'
    <3>1. CASE UNCHANGED hvars
      BY <3>1 DEF hvars, HistoryTyped, HInv
    <3>2. CASE HNext
      <4>1. uncutSave' \in {FALSE, TRUE, uncutSave}
        BY <3>2 DEF HNext
      <4>2. \/ tornCompacted' = FALSE
            \/ tornCompacted' = (tornCompacted \/ (At("compact") /\ io'.pc = "remove" /\ ~Bootable(disk)))
        BY <3>2 DEF HNext
      <4>3. tornCompacted' \in BOOLEAN
        BY ONLY <4>2
      <4> QED
        BY <4>1, <4>3 DEF HistoryTyped, HInv
    <3> QED
      BY <3>1, <3>2
  <2>4. FileSound'
    <3>1. CASE HNext
      BY <2>2, <3>1, NextFiles
    <3>2. CASE UNCHANGED hvars
      <4>1. UNCHANGED <<running, cm, disk, tmp, io, attempts, uncutSave, tornCompacted>>
        BY <3>2 DEF hvars, vars
      <4>2. RunSound'
        BY <4>1 DEF HInv, FileSound, RunSound, At
      <4>3. OffSound'
        BY <4>1 DEF HInv, FileSound, OffSound
      <4>4. ReplaceSound' /\ IdleSound' /\ EmptySound' /\ UncutSound'
        BY <4>1 DEF HInv, FileSound, ReplaceSound, IdleSound, EmptySound, UncutSound, At
      <4> QED
        BY <4>2, <4>3, <4>4 DEF FileSound
    <3> QED
      BY <3>1, <3>2
  <2> QED
    BY <2>2, <2>3, <2>4 DEF HInv
<1> QED
  BY <1>1, InitFiles, PTL DEF HSpec

(* As long as no save was cut short, a file with a superblock boots, at every *)
(* step of every boot, compaction and creation, refused writes and renames    *)
(* among them (file_io_save, file_io_compact, engine_boot).                   *)
THEOREM UncutBoots ==
  ASSUME "open" \notin Faults
  PROVE  HSpec => []UncutFileBoots
<1>1. HInv => UncutFileBoots
  BY DEF HInv, FileSound, UncutSound, UncutFileBoots
<1> QED
  BY <1>1, FilesSound, PTL

(* A file without a superblock, which every later boot refuses, is left       *)
(* behind only where the database may have been empty, if the replacement of  *)
(* a compacted file goes through (file_io_create_empty_file).                 *)
THEOREM EmptyFileCostsNothing ==
  ASSUME "open" \notin Faults, "replace" \notin Faults
  PROVE  HSpec => []EmptyFileLosesNothing
<1>1. HInv => EmptyFileLosesNothing
  BY DEF HInv, FileSound, EmptySound, ReplaceSound, EmptyFileLosesNothing
<1> QED
  BY <1>1, FilesSound, PTL

(* What a boot that succeeds shows is known from the history.                *)
LEMMA BootKnown ==
  ASSUME HInv, HNext, BootEnds, ~tornCompacted
  PROVE  \/ "replace" \in Faults /\ cm' = EmptyManager
         \/ /\ IdsOf(LiveSet(cm')) \in {IdsOf(saved) : saved \in attempts}
            /\ LiveSet(cm') \subseteq UNION attempts
<1>1. Load
  BY DEF HNext, BootEnds, Next, TruncateFile, WriteEmptySuperblock, FailCreate, BeginSave,
         BeginSaveByCreating, WriteHeader, WriteSomeRecords, WriteRecords, WriteSuperblock,
         FinishSave, FailSave, BootWithoutStats, BootWithStats, FailBoot, Compact, FailCompact,
         RemoveOld, RenameTemporary, FailRename, LoadByCreating, RefuseLoad, Insert, Delete,
         UpdateGpa, Stop
<1>2. cm' = Loaded(disk) /\ Loadable(disk)
  BY <1>1 DEF Load, Bootable
<1>3. KnownFile(disk, attempts)
  BY DEF BootEnds, HInv, FileSound, OffSound
<1>4. IdsOf(LiveSet(cm')) = LiveIds(Loaded(disk))
  BY <1>2, LiveIdsMeaning
<1> QED
  BY <1>2, <1>3, <1>4 DEF KnownFile

(* A boot shows what a completed save saved; after saves that were cut short *)
(* it shows the ids of one moment a save began at or of the state before     *)
(* them (file_io_load, engine_boot), where files open and replacements go    *)
(* through.  The exception is in the property, and needs no other fault: a   *)
(* torn file that was compacted may boot into a part of a batch, which is    *)
(* what violates BootShowsWholeBatches.                                      *)
THEOREM BootsShowSaved ==
  ASSUME "open" \notin Faults, "replace" \notin Faults
  PROVE  HSpec => BootShowsSavedRecords
<1>1. HInv /\ [HNext]_hvars =>
        [BootEnds /\ ~tornCompacted =>
           /\ IdsOf(LiveSet(cm')) \in {IdsOf(saved) : saved \in attempts}
           /\ LiveSet(cm') \subseteq UNION attempts]_hvars
  BY BootKnown
<1> QED
  BY <1>1, FilesSound, PTL DEF HSpec, BootShowsSavedRecords

(* Where the rename of a compacted file may fail or never happen, a boot     *)
(* shows all of that or an empty database; again not after the compaction of *)
(* a torn file, when it may show a part of the records.                      *)
THEOREM FaultyBoots ==
  ASSUME "open" \notin Faults
  PROVE  HSpec => FaultyBootIsAllOrNothing
<1>1. HInv /\ [HNext]_hvars =>
        [BootEnds /\ ~tornCompacted =>
           \/ cm' = EmptyManager
           \/ /\ IdsOf(LiveSet(cm')) \in {IdsOf(saved) : saved \in attempts}
              /\ LiveSet(cm') \subseteq UNION attempts]_hvars
  BY BootKnown
<1> QED
  BY <1>1, FilesSound, PTL DEF HSpec, FaultyBootIsAllOrNothing

(* A save that answers OK has saved the state of the manager: the file boots *)
(* into what is in memory, though only dirty chunks were written and earlier *)
(* saves may have failed halfway (file_io_save).                             *)
THEOREM OkSaves ==
  ASSUME "open" \notin Faults
  PROVE  HSpec => OkSaveIsComplete
<1>1. ASSUME HInv, Next, At("save_end"), result' = "OK", io' = IdleIo
      PROVE  Bootable(disk') /\ Visible(Loaded(disk')) = Visible(cm')
  <2>1. FinishSave
    <3>1. ~running' \/ UNCHANGED io \/ FinishSave \/ result' # "OK"
      BY <1>1 DEF Next, TruncateFile, WriteEmptySuperblock, FailCreate, BeginSave,
         BeginSaveByCreating, WriteHeader, WriteSomeRecords, WriteRecords, WriteSuperblock,
         FailSave, BootWithoutStats, BootWithStats, FailBoot, Compact, FailCompact,
         RemoveOld, RenameTemporary, FailRename, LoadByCreating, Load, RefuseLoad, Insert, Delete,
         UpdateGpa, Stop, Return, At
    <3> QED
      BY <1>1, <3>1 DEF Next, Stop, At, IdleIo, TruncateFile, WriteEmptySuperblock, FailCreate, BeginSave,
         BeginSaveByCreating, WriteHeader, WriteSomeRecords, WriteRecords, WriteSuperblock,
         FailSave, BootWithoutStats, BootWithStats, FailBoot, Compact, FailCompact,
         RemoveOld, RenameTemporary, FailRename, LoadByCreating, Load, RefuseLoad, Insert, Delete,
         UpdateGpa, Return, Changing
  <2>2. /\ running /\ SoundManager(cm) /\ IsFile(disk) /\ disk.superblock = Superblock(cm) /\ SaveSound
    BY <1>1, <2>1 DEF FinishSave, HInv, TInv, TypeOK, IoSound, At, FileSound, RunSound
  <2>3. cm' = MarkChunksClean(cm) /\ disk' = disk
    BY <2>1 DEF FinishSave
  <2>4. FileHolds(disk, cm)
    BY <1>1, <2>2, HeldInTheEnd
  <2>5. Bootable(disk) /\ Visible(Loaded(disk)) = Visible(MarkChunksClean(cm))
    BY <2>2, <2>4, HeldBoots
  <2> QED
    BY <2>3, <2>5
<1>2. HInv /\ [HNext]_hvars =>
        [At("save_end") /\ result' = "OK" /\ io' = IdleIo =>
           Bootable(disk') /\ Visible(Loaded(disk')) = Visible(cm')]_vars
  BY <1>1 DEF HNext, hvars
<1> QED
  BY <1>2, FilesSound, PTL DEF HSpec, OkSaveIsComplete

(* Compacting a file that boots keeps its live records in their order, drops *)
(* every tombstone, and leaves a file that boots, is exact and packed, and   *)
(* is not compacted again (file_io_compact).                                 *)
THEOREM CompactionKeeps ==
  ASSUME "open" \notin Faults
  PROVE  HSpec => CompactionKeepsRecords
<1>1. ASSUME HInv, Next, At("compact"), io'.pc = "remove", Bootable(disk)
      PROVE  /\ Bootable(tmp')
             /\ LiveRecords(tmp') = LiveRecords(disk)
             /\ ~NeedsCompaction(tmp'.superblock)
             /\ ChunksPacked(Loaded(tmp'))
             /\ CountersExact(Loaded(tmp'))
  <2>1. Compact
    BY <1>1 DEF Next, TruncateFile, WriteEmptySuperblock, FailCreate, BeginSave,
       BeginSaveByCreating, WriteHeader, WriteSomeRecords, WriteRecords, WriteSuperblock,
       FinishSave, FailSave, BootWithoutStats, BootWithStats, FailBoot, FailCompact,
       RemoveOld, RenameTemporary, FailRename, LoadByCreating, Load, RefuseLoad, Insert, Delete,
       UpdateGpa, Stop, Return, At, IdleIo, Changing
  <2>2. tmp' = Compacted(disk)
    BY <2>1 DEF Compact
  <2>3. IsFile(disk) /\ Exact(Loaded(disk))
    BY <1>1 DEF HInv, FileSound, TInv, TypeOK, IoSound, OffSound, ExactFile, Bootable, At
  <2>4. LET new == Compacted(disk) IN
        /\ Bootable(new)
        /\ Exact(Loaded(new))
        /\ LiveRecords(new) = LiveRecords(disk)
        /\ ~NeedsCompaction(new.superblock)
    BY <1>1, <2>3, CompactedBoots
  <2> QED
    BY <2>2, <2>4 DEF Exact
<1>2. HInv /\ [HNext]_hvars =>
        [At("compact") /\ io'.pc = "remove" /\ Bootable(disk) =>
           /\ Bootable(tmp')
           /\ LiveRecords(tmp') = LiveRecords(disk)
           /\ ~NeedsCompaction(tmp'.superblock)
           /\ ChunksPacked(Loaded(tmp'))
           /\ CountersExact(Loaded(tmp'))]_vars
  BY <1>1 DEF HNext, hvars
<1> QED
  BY <1>2, FilesSound, PTL DEF HSpec, CompactionKeepsRecords
================================================================================

----------------------------- MODULE Persistence ------------------------------
(***************************************************************************)
(* The backing file of FRASE (src/file_io.c) and the life of a process     *)
(* around it: booting with compaction (engine_boot), changing records in   *)
(* memory, saving, and stopping at any moment.                             *)
(*                                                                         *)
(* A save overwrites the sections of the dirty chunks where they lie and   *)
(* then the superblock, so the file is neither the old nor the new one in  *)
(* between.  Every write is a step here, and the process may stop, or the  *)
(* write be refused, at each.  Calls on the indexes are left to Engine:    *)
(* they leave the file alone, and a call in memory is one step.            *)
(*                                                                         *)
(* Writes reach the file in program order, as they do when the process     *)
(* stops; what a power failure reorders below fflush is not modelled.      *)
(***************************************************************************)
EXTENDS ChunkStore, Sequences, FiniteSetsExt

CONSTANTS
  NoSuperblock, (* a file too short to hold a superblock                   *)
  NoRecords,    (* a section cut off after its header                      *)
  Batches,      (* the batches of valid records passed to an insertion     *)
  Faults,       (* what may go wrong beside the process stopping           *)
  MaxSlots      (* bound: no insertion begins that would use more slots    *)

(* "write"    a write, flush or close is refused                           *)
(* "open"     fopen of an existing file is refused for a moment            *)
(* "replace"  the rename of a compacted file is refused, or the process    *)
(*            stops between the removal of the old file and that rename    *)
FaultKinds == {"write", "open", "replace"}

ASSUME FaultAssumption == Faults \subseteq FaultKinds
ASSUME BatchAssumption == Batches \subseteq Seq(Record)
ASSUME CutAssumption   == NoRecords \notin [Slots -> SlotRecord \cup {ZeroRecord}]

VARIABLES
  running, (* whether an engine is booted                                  *)
  cm,      (* its chunk manager                                            *)
  disk,    (* the backing file                                             *)
  tmp,     (* the file compaction writes                                   *)
  io,      (* the file operation in progress                               *)
  result   (* what the last file operation answered                        *)

vars == <<running, cm, disk, tmp, io, result>>

-----------------------------------------------------------------------------
(* Files *)

NoSections == [c \in {} |-> NoRecords]

Missing    == [exists |-> FALSE, superblock |-> NoSuperblock, sections |-> NoSections]
ZeroLength == [exists |-> TRUE, superblock |-> NoSuperblock, sections |-> NoSections]

Superblock(manager) ==
  [chunk_count      |-> manager.chunk_count,
   total_used_slots |-> manager.total_used_slots,
   total_tombstones |-> manager.total_tombstones]

Header(c, used, tombs) == [chunk_id |-> c, used_slots |-> used, tombstones |-> tombs]

(* The bytes fseek skips over beyond the end of a file read as zeros.        *)
Hole == [header |-> Header(0, 0, 0), records |-> EmptyChunk.records]

(* Writing section c, extending the file with holes if it ends before it.    *)
WithSection(file, c, section) ==
  [file EXCEPT !.sections =
    [k \in DOMAIN file.sections \cup 0 .. c |->
      IF k = c THEN section
      ELSE IF k \in DOMAIN file.sections THEN file.sections[k] ELSE Hole]]

(* The header is overwritten first, the records after it.                    *)
WithHeader(file, c, chunk) ==
  WithSection(file, c,
    [header  |-> Header(c, chunk.used_slots, chunk.tombstones),
     records |-> IF c \in DOMAIN file.sections THEN file.sections[c].records ELSE NoRecords])

WithRecords(file, c, chunk) ==
  WithSection(file, c, [file.sections[c] EXCEPT !.records = chunk.records])

(* The first n records are the new ones, the others what lay there before.   *)
WithSomeRecords(file, c, chunk, n) ==
  WithSection(file, c,
    [file.sections[c] EXCEPT
      !.records = [s \in Slots |-> IF s < n THEN chunk.records[s] ELSE @[s]]])

-----------------------------------------------------------------------------
(* Reading a file: file_io_load and its helpers *)

(* file_io_validate_superblock *)
ValidSuperblock(superblock) ==
  /\ superblock # NoSuperblock
  /\ superblock.total_tombstones <= superblock.total_used_slots
  /\ superblock.total_used_slots <= superblock.chunk_count * ChunkCapacity

SectionIds(file) == 0 .. file.superblock.chunk_count - 1

(* file_io_read_chunk and file_io_validate_chunk_header *)
ReadableSection(file, c) ==
  /\ c \in DOMAIN file.sections
  /\ file.sections[c].header.chunk_id = c
  /\ file.sections[c].header.tombstones <= file.sections[c].header.used_slots
  /\ file.sections[c].records # NoRecords

(* Mutant: the totals are not compared.                                      *)
TotalsUnchecked(file) == file.exists

(* The sum of what the first n chunks count, in one pass over them.          *)
SumOf(local, n) ==
  LET sum[k \in 0 .. n] == IF k = 0 THEN 0 ELSE sum[k - 1] + local[k - 1]
  IN sum[n]

(* The totals of the superblock against the sums over the chunk headers.     *)
TotalsAgree(file) ==
  LET used  == [c \in SectionIds(file) |-> file.sections[c].header.used_slots]
      tombs == [c \in SectionIds(file) |-> file.sections[c].header.tombstones]
  IN /\ file.superblock.total_used_slots = SumOf(used, file.superblock.chunk_count)
     /\ file.superblock.total_tombstones = SumOf(tombs, file.superblock.chunk_count)

Loadable(file) ==
  /\ file.exists
  /\ ValidSuperblock(file.superblock)
  /\ \A c \in SectionIds(file) : ReadableSection(file, c)
  /\ TotalsAgree(file)

Loaded(file) ==
  [chunks |->
     [c \in SectionIds(file) |->
       [records    |-> file.sections[c].records,
        used_slots |-> file.sections[c].header.used_slots,
        tombstones |-> file.sections[c].header.tombstones,
        dirty      |-> FALSE]],
   chunk_count      |-> file.superblock.chunk_count,
   total_used_slots |-> file.superblock.total_used_slots,
   total_tombstones |-> file.superblock.total_tombstones]

Bootable(file) == Loadable(file) /\ HydrateDefects(Loaded(file)) = {}

-----------------------------------------------------------------------------
(* Compaction *)

(* engine_compact_if_needed: FRASE_COMPACTION_THRESHOLD is 0.30.             *)
NeedsCompaction(superblock) ==
  /\ superblock.total_used_slots > 0
  /\ 10 * superblock.total_tombstones >= 3 * superblock.total_used_slots

(* Mutant: tombstones are copied too.                                        *)
AllOfSection(section) ==
  [s \in 1 .. section.header.used_slots |-> section.records[s - 1]]

(* The live records of a section, in slot order.                             *)
LiveOfSection(section) ==
  LET live[n \in 0 .. section.header.used_slots] ==
        IF n = 0 THEN <<>>
        ELSE IF section.records[n - 1].id = TombstoneId THEN live[n - 1]
        ELSE Append(live[n - 1], section.records[n - 1])
  IN live[section.header.used_slots]

LiveRecords(file) ==
  LET found[n \in 0 .. file.superblock.chunk_count] ==
        IF n = 0 THEN <<>> ELSE found[n - 1] \o LiveOfSection(file.sections[n - 1])
  IN found[file.superblock.chunk_count]

(* Mutant: a partial last chunk is not counted.                              *)
FloorDiv(n, d) == n \div d

(* file_io_ceil_div_u64 *)
CeilDiv(n, d) == IF n = 0 THEN 0 ELSE 1 + ((n - 1) \div d)

(* The new superblock is computed from the old one; the sections are what    *)
(* the records of the old sections fill.                                     *)
Compacted(file) ==
  LET active  == file.superblock.total_used_slots - file.superblock.total_tombstones
      records == LiveRecords(file)
      UsedOf(c) == LET left == Len(records) - c * ChunkCapacity
                   IN IF left < ChunkCapacity THEN left ELSE ChunkCapacity
  IN [exists     |-> TRUE,
      superblock |-> [chunk_count      |-> CeilDiv(active, ChunkCapacity),
                      total_used_slots |-> active,
                      total_tombstones |-> 0],
      sections   |->
        [c \in 0 .. CeilDiv(Len(records), ChunkCapacity) - 1 |->
          [header  |-> Header(c, UsedOf(c), 0),
           records |-> [s \in Slots |->
                         IF s < UsedOf(c) THEN records[c * ChunkCapacity + s + 1]
                         ELSE ZeroRecord]]]]

-----------------------------------------------------------------------------
(* Steps of a file operation *)

IdleIo == [pc |-> "idle", next |-> 0, then |-> "none"]

At(pc) == io.pc = pc

Goto(pc) == io' = [io EXCEPT !.pc = pc]

Return(answer) == io' = IdleIo /\ result' = answer

Begin(pc, then) == io' = [pc |-> pc, next |-> 0, then |-> then]

(* fopen("rb") or fopen("r+b") may find the file.                            *)
Opens(file) == file.exists

MayNotOpen(file) == file.exists => "open" \in Faults

(* file_io_create_empty_file, called by a load or a save that could not open *)
(* the file: fopen("wb") truncates, then the superblock is written.          *)
TruncateFile ==
  /\ At("create")
  /\ disk' = ZeroLength
  /\ Goto("create_write")
  /\ UNCHANGED <<running, cm, tmp, result>>

WriteEmptySuperblock ==
  /\ At("create_write")
  /\ disk' = [disk EXCEPT !.superblock = Superblock(EmptyManager)]
  /\ Goto(io.then)
  /\ UNCHANGED <<running, cm, tmp, result>>

FailCreate ==
  /\ At("create") \/ At("create_write")
  /\ "write" \in Faults
  /\ Return("FILE_IO")
  /\ UNCHANGED <<running, cm, disk, tmp>>

-----------------------------------------------------------------------------
(* file_io_save *)

(* Mutant: every save creates the file anew.                                 *)
BeginSaveAnew ==
  /\ running /\ At("idle")
  /\ Opens(disk)
  /\ Begin("create", "save")
  /\ UNCHANGED <<running, cm, disk, tmp, result>>

BeginSave ==
  /\ running /\ At("idle")
  /\ Opens(disk)
  /\ Begin("save", "save")
  /\ UNCHANGED <<running, cm, disk, tmp, result>>

BeginSaveByCreating ==
  /\ running /\ At("idle")
  /\ MayNotOpen(disk)
  /\ Begin("create", "save")
  /\ UNCHANGED <<running, cm, disk, tmp, result>>

DirtyFrom(c) == {k \in ChunkIds(cm) : k >= c /\ cm.chunks[k].dirty}

WriteHeader ==
  /\ At("save")
  /\ DirtyFrom(io.next) # {}
  /\ LET c == Min(DirtyFrom(io.next)) IN
       /\ disk' = WithHeader(disk, c, cm.chunks[c])
       /\ io' = [io EXCEPT !.pc = "save_records", !.next = c]
  /\ UNCHANGED <<running, cm, tmp, result>>

(* The write of the records is cut in the middle of a section that was on    *)
(* disk before; a new section that is cut stays NoRecords.                   *)
WriteSomeRecords ==
  /\ At("save_records")
  /\ disk.sections[io.next].records # NoRecords
  /\ \E n \in 1 .. ChunkCapacity - 1 :
       disk' = WithSomeRecords(disk, io.next, cm.chunks[io.next], n)
  /\ UNCHANGED <<running, cm, tmp, io, result>>

WriteRecords ==
  /\ At("save_records")
  /\ disk' = WithRecords(disk, io.next, cm.chunks[io.next])
  /\ io' = [io EXCEPT !.pc = "save", !.next = @ + 1]
  /\ UNCHANGED <<running, cm, tmp, result>>

WriteSuperblock ==
  /\ At("save")
  /\ DirtyFrom(io.next) = {}
  /\ disk' = [disk EXCEPT !.superblock = Superblock(cm)]
  /\ Goto("save_end")
  /\ UNCHANGED <<running, cm, tmp, result>>

FinishSave ==
  /\ At("save_end")
  /\ cm' = MarkChunksClean(cm)
  /\ Return("OK")
  /\ UNCHANGED <<running, disk, tmp>>

(* Mutant: the dirty flags are cleared all the same.                         *)
FailSaveClearingFlags ==
  /\ io.pc \in {"save", "save_records", "save_end"}
  /\ "write" \in Faults
  /\ cm' = MarkChunksClean(cm)
  /\ Return("FILE_IO")
  /\ UNCHANGED <<running, disk, tmp>>

(* What was written before stays written, and no flag is cleared.            *)
FailSave ==
  /\ io.pc \in {"save", "save_records", "save_end"}
  /\ "write" \in Faults
  /\ Return("FILE_IO")
  /\ UNCHANGED <<running, cm, disk, tmp>>

-----------------------------------------------------------------------------
(* engine_boot: statistics, compaction if needed, load, hydration            *)

(* A file that cannot be opened counts as an empty one.                      *)
BootWithoutStats ==
  /\ ~running /\ At("idle")
  /\ MayNotOpen(disk)
  /\ Begin("load", "load")
  /\ UNCHANGED <<running, cm, disk, tmp, result>>

BootWithStats ==
  /\ ~running /\ At("idle")
  /\ Opens(disk)
  /\ ValidSuperblock(disk.superblock)
  /\ Begin(IF NeedsCompaction(disk.superblock) THEN "compact" ELSE "load", "load")
  /\ UNCHANGED <<running, cm, disk, tmp, result>>

(* file_io_read_stats finds no valid superblock.                             *)
FailBoot ==
  /\ ~running /\ At("idle")
  /\ Opens(disk)
  /\ ~ValidSuperblock(disk.superblock)
  /\ Return("FILE_IO")
  /\ UNCHANGED <<running, cm, disk, tmp>>

(* file_io_compact up to the replacement.  It reads the sections but does    *)
(* not compare the totals.                                                   *)
Compact ==
  /\ At("compact")
  /\ \A c \in SectionIds(disk) : ReadableSection(disk, c)
  /\ tmp' = Compacted(disk)
  /\ Goto("remove")
  /\ UNCHANGED <<running, cm, disk, result>>

(* A section that cannot be read, or a file that cannot be opened or written:*)
(* the temporary file is removed and the boot fails.  When it was the old    *)
(* file or the temporary one that did not open, the latter stays as it was.  *)
FailCompact ==
  /\ At("compact")
  /\ (\A c \in SectionIds(disk) : ReadableSection(disk, c)) => Faults \cap {"write", "open"} # {}
  /\ \/ tmp' = Missing
     \/ "open" \in Faults /\ tmp' = tmp
  /\ Return("COMPACTION_FAILED")
  /\ UNCHANGED <<running, cm, disk>>

RemoveOld ==
  /\ At("remove")
  /\ disk' = Missing
  /\ Goto("rename")
  /\ UNCHANGED <<running, cm, tmp, result>>

RenameTemporary ==
  /\ At("rename")
  /\ disk' = tmp
  /\ tmp' = Missing
  /\ Goto("load")
  /\ UNCHANGED <<running, cm, result>>

(* The temporary file is removed even when the old one is gone already.      *)
FailRename ==
  /\ At("rename")
  /\ "replace" \in Faults
  /\ tmp' = Missing
  /\ Return("COMPACTION_FAILED")
  /\ UNCHANGED <<running, cm, disk>>

(* The file cannot be opened, or is empty.                                   *)
LoadByCreating ==
  /\ At("load")
  /\ Opens(disk) /\ disk.superblock # NoSuperblock => "open" \in Faults
  /\ Goto("create")
  /\ UNCHANGED <<running, cm, disk, tmp, result>>

Load ==
  /\ At("load")
  /\ Bootable(disk)
  /\ running' = TRUE
  /\ cm' = Loaded(disk)
  /\ Return("OK")
  /\ UNCHANGED <<disk, tmp>>

RefuseLoad ==
  /\ At("load")
  /\ Opens(disk) /\ disk.superblock # NoSuperblock
  /\ ~Bootable(disk)
  /\ Return("FILE_IO")
  /\ UNCHANGED <<running, cm, disk, tmp>>

-----------------------------------------------------------------------------
(* Calls in memory, between file operations *)

Changing == running /\ At("idle")

LiveIds(manager) == {RecordAt(manager, loc).id : loc \in LiveLocations(manager)}

(* The records of a batch are appended one after the other.                  *)
Appended(manager, batch) ==
  LET after[n \in 0 .. Len(batch)] ==
        IF n = 0 THEN manager ELSE AppendToTail(PrepareInsertTail(after[n - 1]), batch[n])
  IN after[Len(batch)]

Insert(batch) ==
  /\ Changing
  /\ cm.total_used_slots + Len(batch) <= MaxSlots
  /\ \A i \in DOMAIN batch : /\ batch[i].id \notin LiveIds(cm)
                             /\ \A j \in 1 .. i - 1 : batch[j].id # batch[i].id
  /\ cm' = Appended(cm, batch)
  /\ UNCHANGED <<running, disk, tmp, io, result>>

(* What the indexes can lead to: an insertion and a hydration look at every  *)
(* record they put into them.                                                *)
Reachable(manager) == {loc \in LiveLocations(manager) : RecordAt(manager, loc) \in Record}

Delete(loc) ==
  /\ Changing
  /\ cm' = BuryRecord(cm, loc)
  /\ UNCHANGED <<running, disk, tmp, io, result>>

UpdateGpa(loc, gpa) ==
  /\ Changing
  /\ gpa # RecordAt(cm, loc).gpa
  /\ cm' = WriteGpa(cm, loc, gpa)
  /\ UNCHANGED <<running, disk, tmp, io, result>>

(* The process ends: it exits, is killed, or the machine stops.              *)
Stop ==
  /\ running \/ ~At("idle")
  /\ At("rename") => "replace" \in Faults
  /\ running' = FALSE
  /\ cm' = EmptyManager
  /\ io' = IdleIo
  /\ result' = "NONE"
  /\ UNCHANGED <<disk, tmp>>

-----------------------------------------------------------------------------
Init ==
  /\ running = FALSE
  /\ cm = EmptyManager
  /\ disk = Missing
  /\ tmp = Missing
  /\ io = IdleIo
  /\ result = "NONE"

Next ==
  \/ TruncateFile \/ WriteEmptySuperblock \/ FailCreate
  \/ BeginSave \/ BeginSaveByCreating
  \/ WriteHeader \/ WriteSomeRecords \/ WriteRecords \/ WriteSuperblock
  \/ FinishSave \/ FailSave
  \/ BootWithoutStats \/ BootWithStats \/ FailBoot
  \/ Compact \/ FailCompact \/ RemoveOld \/ RenameTemporary \/ FailRename
  \/ LoadByCreating \/ Load \/ RefuseLoad
  \/ \E batch \in Batches : Insert(batch)
  \/ \E loc \in Reachable(cm) :
       Delete(loc) \/ \E gpa \in Gpas : UpdateGpa(loc, gpa)
  \/ Stop

Spec == Init /\ [][Next]_vars

-----------------------------------------------------------------------------
(* Type invariant *)

FileHeader == [chunk_id : Nat, used_slots : 0 .. ChunkCapacity, tombstones : Nat]

Section == [header  : FileHeader,
            records : [Slots -> SlotRecord \cup {ZeroRecord}] \cup {NoRecords}]

FileSuperblock == [chunk_count : Nat, total_used_slots : Nat, total_tombstones : Nat]

ASSUME SuperblockAssumption == NoSuperblock \notin FileSuperblock

IsFile(file) ==
  /\ file = [exists     |-> file.exists,
             superblock |-> file.superblock,
             sections   |-> file.sections]
  /\ file.exists \in BOOLEAN
  /\ file.superblock \in FileSuperblock \cup {NoSuperblock}
  /\ IsFiniteSet(DOMAIN file.sections)
  /\ DOMAIN file.sections = 0 .. Cardinality(DOMAIN file.sections) - 1
  /\ \A c \in DOMAIN file.sections : file.sections[c] \in Section

IoPcs ==
  {"idle", "create", "create_write", "save", "save_records", "save_end",
   "compact", "remove", "rename", "load"}

TypeOK ==
  /\ running \in BOOLEAN
  /\ IsChunkManager(cm)
  /\ IsFile(disk)
  /\ IsFile(tmp)
  /\ io \in [pc : IoPcs, next : Nat, then : {"none", "save", "load"}]
  /\ result \in {"NONE", "OK", "FILE_IO", "COMPACTION_FAILED"}

-----------------------------------------------------------------------------
(* Safety *)

SectionHolds(file, c, chunk) ==
  /\ c \in DOMAIN file.sections
  /\ file.sections[c].header = Header(c, chunk.used_slots, chunk.tombstones)
  /\ file.sections[c].records # NoRecords
  /\ \A s \in 0 .. chunk.used_slots - 1 : file.sections[c].records[s] = chunk.records[s]

(* A chunk that is not marked dirty is on disk as it is in memory, whatever  *)
(* saves failed or are halfway through: skipping it (file_io.c:454) is safe. *)
CleanChunksAreOnDisk ==
  running =>
    \A c \in ChunkIds(cm) :
      ~cm.chunks[c].dirty => SectionHolds(disk, c, cm.chunks[c])

(* file_io.h: a save that answers OK has saved the current state of the      *)
(* manager: booting from the file would bring back what is in memory, though *)
(* only the dirty chunks were written and earlier saves may have failed.     *)
OkSaveIsComplete ==
  [][At("save_end") /\ result' = "OK" /\ io' = IdleIo =>
       Bootable(disk') /\ Visible(Loaded(disk')) = Visible(cm')]_vars

(* Compacting a file that could be loaded keeps its live records, in their   *)
(* order, drops every tombstone, and leaves a file that boots, is not        *)
(* compacted again and has room only in its last chunk.                      *)
CompactionKeepsRecords ==
  [][At("compact") /\ io'.pc = "remove" /\ Bootable(disk) =>
       /\ Bootable(tmp')
       /\ LiveRecords(tmp') = LiveRecords(disk)
       /\ ~NeedsCompaction(tmp'.superblock)
       /\ ChunksPacked(Loaded(tmp'))
       /\ CountersExact(Loaded(tmp'))]_vars
===============================================================================

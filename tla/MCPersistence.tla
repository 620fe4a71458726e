---------------------------- MODULE MCPersistence -----------------------------
(***************************************************************************)
(* TLC instance of Persistence, with three history variables:                *)
(*   attempts      what was live in memory when each save began that may   *)
(*                 have touched the file, since the last one that was      *)
(*                 completed or booted from                                *)
(*   uncutSave     no save was cut short since then                        *)
(*   tornCompacted the file was compacted while a load would refuse it     *)
(***************************************************************************)
EXTENDS Persistence

CONSTANT n1

VARIABLES attempts, uncutSave, tornCompacted

hvars == <<vars, attempts, uncutSave, tornCompacted>>

MCTombstone == 99

R(id, gpa) == [id |-> id, gpa |-> gpa, name |-> n1]

(* Single records, and a batch that crosses a chunk boundary.                *)
TornBatches == {<<R(1, 1)>>, <<R(2, 1), R(3, 1)>>}

MCBatches == {<<R(1, 1)>>, <<R(1, 1), R(2, 1)>>}

-----------------------------------------------------------------------------
LiveSet(manager) == {RecordAt(manager, loc) : loc \in LiveLocations(manager)}

IdsOf(records) == {record.id : record \in records}

SaveBegins == At("idle") /\ io'.then = "save"
SaveEnds   == At("save_end") /\ result' = "OK" /\ io' = IdleIo
BootEnds   == ~running /\ running'

HInit ==
  /\ Init
  /\ attempts = {{}}
  /\ uncutSave = TRUE
  /\ tornCompacted = FALSE

HNext ==
  /\ Next
  /\ attempts' = IF SaveBegins THEN attempts \cup {LiveSet(cm)}
                 ELSE IF SaveEnds \/ BootEnds THEN {LiveSet(cm')}
                 ELSE attempts
  /\ uncutSave' = IF SaveBegins THEN FALSE
                  ELSE IF SaveEnds \/ BootEnds THEN TRUE
                  ELSE uncutSave
  /\ tornCompacted' = IF BootEnds THEN FALSE
                      ELSE tornCompacted \/ (At("compact") /\ io'.pc = "remove" /\ ~Bootable(disk))

(* Bound: one save cut short between two that complete or boots that work.   *)
OneCutSave == Cardinality(attempts) <= 2

HSpec == HInit /\ [][HNext]_hvars

-----------------------------------------------------------------------------
(* A boot brings back the records of the last completed save.  If saves were *)
(* cut short since, it brings back the ids as they were at one of those      *)
(* saves or before them all, never half a batch or half the deletions, and   *)
(* every record as it was at one of those moments: the totals betray a save  *)
(* that wrote some chunks only (file_io.c:374).  Compaction reads the file   *)
(* without that comparison, so nothing is promised after it compacted a torn *)
(* file.                                                                     *)
BootShowsSavedRecords ==
  [][BootEnds /\ ~tornCompacted =>
       /\ IdsOf(LiveSet(cm')) \in {IdsOf(saved) : saved \in attempts}
       /\ LiveSet(cm') \subseteq UNION attempts]_hvars

(* The same without the exception: the check that "the global totals in the  *)
(* superblock must match the sum of local totals" (file_io.c:374) keeps a    *)
(* boot from showing half a batch.                                           *)
BootShowsWholeBatches ==
  [][BootEnds => IdsOf(LiveSet(cm')) \in {IdsOf(saved) : saved \in attempts}]_hvars

(* When an existing file may fail to open, or the rename of a compacted file *)
(* may fail or never happen, records can be lost; but then a boot that works *)
(* shows an empty database.  The exception is that of BootShowsSavedRecords: *)
(* after a torn file was compacted, a boot may show a part of the records.   *)
FaultyBootIsAllOrNothing ==
  [][BootEnds /\ ~tornCompacted =>
       \/ cm' = EmptyManager
       \/ /\ IdsOf(LiveSet(cm')) \in {IdsOf(saved) : saved \in attempts}
          /\ LiveSet(cm') \subseteq UNION attempts]_hvars

(* As long as no save was cut short, a file with a superblock can be booted: *)
(* it is so wherever a process stops in compaction or between two calls.  A  *)
(* stop in the creation of the file leaves one without, which is refused:    *)
(* see EmptyFileLosesNothing.                                                *)
UncutFileBoots ==
  uncutSave /\ disk.exists /\ disk.superblock # NoSuperblock => Bootable(disk)

(* A file without a superblock, which every later boot refuses because its   *)
(* statistics cannot be read (engine.c:896), never takes the place of one    *)
(* that held records: it is left behind only where there was none.           *)
EmptyFileLosesNothing ==
  disk.exists /\ disk.superblock = NoSuperblock => {} \in attempts
===============================================================================

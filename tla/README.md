# A verification project for FRASE

FRASE is a single-process student database written in C: records live in fixed-size chunks in memory, two
indexes find them, a backing file holds them between runs, and a shell takes commands. The program has one
thread. What is hard about it is failure halfway: an allocation refused in the middle of a batch, a process
stopped in the middle of a save, a file that does not open, a line that does not fit its buffer. The modules here
model all of its components, TLC checks them on small instances, and TLAPS proves most of the safety properties
for every value of the constants: of the engine, its two indexes, the arena, the file with what boots, saves and
compactions make of it, and the shell.

## The system

| Part | State | Operations | Hard behaviour | What makes it correct |
| --- | --- | --- | --- | --- |
| Chunk manager (`Chunk.h`, helpers in `engine.c`) | chunks of records, `used_slots`, `tombstones`, `dirty`; cached totals | append, create a tail, snapshot, roll back, tombstone, rewrite in place | a batch crosses chunk boundaries and fails there | totals equal what a scan counts; all chunks but the last are full; a rollback restores everything |
| Engine (`engine.c`) | `state`, the chunk manager, both indexes | `boot`, `insert_one`, `insert_batch`, `find_by_id`, `delete_by_id`, `update_name`, `update_gpa`, `count_gpa_range`, `query_gpa_range`, `save`, `shutdown` | three structures change in one call and each change may be refused | each call is atomic; indexes and chunks agree |
| Radix index (`radix.c`) | a trie over the 8 nibbles of an id, nodes from an arena | init, insert, find, delete | an allocation refused halfway down a path | a map from ids to locations |
| AVL index (`AVL.c`) | a balanced tree keyed by (gpa, id), nodes from an arena | init, build, insert, delete, count and query a range | deletion of a node with two children, rotations | a set of entries, in order and balanced |
| Arena (`arena.c`) | a list of pages and a bump offset | init, alloc, destroy | alignment at the end of a page | allocations never overlap |
| Backing file (`file_io.c`) | superblock, one section per chunk | load, save, create empty, statistics, compact | a save overwrites in place; compaction removes before it renames | a boot shows a saved database or refuses |
| Shell and `main` (`shell.c`, `main.c`) | the command loop | ten commands, batch files, end of input | a failed save at the end of input; long lines | nothing acknowledged is lost silently |

How they interact. Everything is a synchronous call. `main` boots one engine and hands it to the shell; the
shell calls the engine; the engine owns the chunks, asks the indexes by id or by (gpa, id) and passes the
chunk manager to `file_io`. The indexes hold locations, never records, and the engine resolves a location
through the chunk manager on each use. Both indexes are rebuilt from the chunks at each boot. The shared
facts that nothing in the code checks again are: the location an index holds, the grade kept both in a record
and in an AVL key, the totals kept beside the chunks, and a dirty flag that says whether the file is behind.

## The modules

**ChunkStore** is the chunk manager as operators, without state: the record types of `Chunk.h` and one operator
per helper of `engine.c` (`PrepareInsertTail`, `AppendToTail`, `TakeAppendSnapshot`, `RollbackAppend`,
`BuryRecord`, `WriteName`, `WriteGpa`), the checks of hydration (`HydrateDefects`) and the two bookkeeping
predicates. A chunk's id is its index, as the code creates and validates it, and is not stored twice.
Slots that a rollback leaves with stale bytes keep them; `Visible` is what later calls can observe.

**FraseStore** is the abstract specification: a map from ids to students, and calls that each change it as asked
or leave it alone, and answer an error code for its own reason only. It knows neither chunks nor indexes. A call
is one step, except an insertion, which begins with a batch found insertable and ends with all of it in the map
(`FinishInsert`) or, when memory runs out, none of it (`UndoInsert`); nothing happens in between. A batch with a
duplicate, or of which any id is taken, must never begin.

**Engine** is `engine.c`. `engine_insert_batch` is modelled turn by turn, `op` holding its local variables:

| Action | Code |
| --- | --- |
| `RefuseBatch`, `InsertNothing`, `BeginInsert` | validation; the snapshot is taken |
| `PrepareSpan`, `AppendRecord`, `FailAppend` | the tail, and the turns of `engine_append_batch_to_chunks` |
| `BeginIndexing`, `IndexInRadix`, `FailIndexInRadix`, `IndexInAvl`, `FailIndexInAvl`, `FinishInsert` | the turns of `engine_insert_span_into_indexes` |
| `Unindex`, `EndUnindex` | the turns of `engine_rollback_indexed_span` |
| `UndoAppend` | `engine_rollback_append`, and the error is returned |

Every other call changes nothing before its last check, so it is one action, with the error that the code's
order of checks gives (`FindError`, `DeleteError`, `UpdateNameError`, `UpdateGpaError`) and an action for each
outcome (`DeleteById` and `RefuseDelete`, and so on); `result` is the call that returned last and its error.
`RefuseShutdown` is a shutdown whose save failed, which frees nothing. `FailUpdateGpa` is the failed insertion and attempted restoration inside `engine_update_gpa`. The
range calls change nothing and are operators. The indexes appear as the maps their headers describe, and an
insertion into one may be refused whenever `Faults` says so. The file is not here: a boot takes what was
loaded from the set `Images`, a save is what it does to the dirty flags. Not bounded by this: any number of
saves, shutdowns and boots may follow one another. `MaxSlots` bounds the records ever appended to one manager.

**Persistence** is `file_io.c` and the life of a process around it. A file is a superblock and a map of
sections, each a header and its records. A save writes header, records, header, records, ..., superblock; each
write is a step, a records write may be cut in the middle of a section (`WriteSomeRecords`), and the process
may `Stop` or the write be refused between any two. Section offsets extend the file with holes as `fseek` does.
Boot is statistics, compaction when three tenths of the slots are tombstones, load, hydration. Calls in memory
are atomic here and the indexes are absent, because they never touch the file; the chunk operators are those
of `ChunkStore`, shared with `Engine`. A batch is appended record by record (`Appended`), and what can be deleted
or regraded is what an index can lead to (`Reachable`), a live record that an insertion or a hydration looked at. The
totals of a load are summed as the code does, chunk by chunk (`SumOf`). Compaction writes a file nobody else reads until it is renamed, so its
writing is one step, and its replacement of the old file is two.

**LocationMap** and **Radix** are the promise and the code of `radix.c`. A node is a number with its children,
occupied flag and location; `op` holds the local variables of the call in progress, and each turn of its loop is a
step: `Descend`, `Grow` (a node is created and linked), `FailGrow` (the arena refuses one; those above it stay),
`MissNode`, and at the last nibble `Occupy`, `RefuseDuplicate`, `Found`, `Vacate`, `MissRecord`. `origin` is a
history variable that says where and for which id a node was linked; it makes the shape of the trie a statement
about single nodes.

**EntrySet** and **AVL** are the promise and the code of `AVL.c`. A tree is a value, a node with its subtrees:
the code works on one subtree at a time and returns its new root, which is what the operators `InsertNode`,
`DeleteNode`, `Rebalance` and the rotations do, one operator per function. Where the code recurs on a subtree, so
does a function on the trees of at most the same height (`Trees`). That a refused insertion has already
stored what the failed call below returned is in `Above`. `qsort` is not stable: a build starts from any array
that it may leave (`Sortings`). Calls are atomic, because nothing runs beside them.

**Arena** is `arena.c`: pages with the address `malloc` gave them, the bytes used and the next page; `arena_alloc`
is `BeginAlloc`, then `AddFirstPage`, `AddPage`, `TakeBlock` or `FailAlloc`, and `arena_destroy` frees one page per
step. `blocks` is a history variable, the blocks handed out.

**Shell** is `shell.c` and `main.c` over `FraseStore`, which `Engine` is shown to implement: each handler checks its
arguments, performs the store's step and reports the error (`Report`); an insertion takes as long as the store's.
Text is what the parsers make of it. A line is a sequence of pieces, as `fgets` returns them, and so is a line of a
batch file, whose loading is one step per row. `saved` and `promised` are history variables: what the file holds,
and which records the messages so far have told the user are there.

How they fit together: `Engine` uses an index as the map that `LocationMap` promises or the set that `EntrySet`
promises, with an insertion that may be refused, and `Radix` and `AVL` are shown to keep these promises. They take
a node from an arena that may refuse; `Arena` shows that what it grants is apart from everything else. `Shell` stands
on `FraseStore`, `Engine` on `ChunkStore`, and `Persistence` shares the chunk operators with `Engine`.

**ChunkProofs** (lemmas about `ChunkStore`, the counting of slots and tombstones among them), **EngineProofs**,
**StoreProofs**, **RadixProofs**, **AVLProofs**, **ArenaProofs**, **ShellProofs** and **PersistenceProofs** hold the proofs. **MCEngine**, **MCPersistence**, **MCRadix**,
**MCAVL**, **MCArena** and **MCShell** are the TLC instances, with history variables for what only a later step can
compare: the state on entry to an insertion; what was live when each save began; whether a command is a later piece
of a line.

## The runs

Two runs check liveness, under the fairness a program with one thread gives. `Arena`: a call of `arena_destroy` that
has begun goes on (`WF_vars(FreePage \/ EndDestroy)`). `Shell`: the program goes on as long as it does not wait for
the user, `WF` on the steps of `main` and on those of the shell; entering a line and ending the input are the
user's and not fair. The other runs check safety only and assume no fairness.

| Run | Shows |
| --- | --- |
| `engine` | at every step of every insertion and after every call: the locals track what was done (`InsertionTracked`), totals are exact and chunks packed (`Bookkeeping`), the indexes are sound and the radix index complete (`RadixSound`, `RadixComplete`, `AvlSound`), a record leaves the AVL index only in a refused `update_gpa` (`UnrankedOnlyByRefusedUpdate`), and a failed insertion leaves no trace, dirty flags included (`RollbackRestoresEntry`) |
| `engine_store` | without the double refusal below: every live record can be found, deleted and regraded, range queries return exactly the live records of the range in order (the index is a set here; that the two passes over the tree agree is for `avl`), and the engine implements `FraseStore` |
| `ranges` | **violated**: see finding 1 |
| `persistence` | a chunk not marked dirty is on disk as in memory, whatever saves failed; a save that answers OK is complete; compaction keeps the live records in order; a file with a superblock, not hit by a cut save, boots; a file of length zero never replaces records; a boot shows the last completed save or one that was begun since, by ids, and each record as it was at one of those moments, unless a torn file was compacted since (finding 2) |
| `persistence_faults` | the same life with `fopen` refused for a moment and the replacement failing: records may be lost, but a boot then shows an empty database; it may show a part only after a torn file was compacted (finding 2) |
| `torn`, `open_save`, `shell_long_line` | **violated**: findings 2 to 4 |
| `radix` | no prefix ever has two nodes, child pointers follow the nibbles, only last nibbles hold locations, and the calls, an insertion refused at any node included, are those of `LocationMap` |
| `avl` | trees reached by insertions, deletions and bulk builds are in order and balanced with exact heights; `node_count` is the number of nodes; the count of a range is exactly the room its query needs; the calls are those of `EntrySet` |
| `arena` | blocks are aligned, apart and within their page; `arena_destroy` sees every page once, and so leaves none, and ends; a request aligned as `malloc` aligns fits on a fresh page |
| `shell` | between commands the database is what the messages said; nothing invalid and no NaN reaches the engine; an exit code of 0 means that all of it is in the file; a message about a batch file names its first bad line; once the input has ended the program exits |

Bounds. Engine: chunks of two slots, three ids, two grades, four slots (three in `engine_store`). The batches hold
single records, one of each way to be invalid, duplicates, and batches of two and three that cross a boundary
from any starting slot, so a batch starts in an empty, a partial and a full tail, and fails at each of its
turns. The images are a new file, a full chunk, a chunk with a tombstone first, and two that hydration must
refuse. Four slots are two chunks: a rollback removes a new chunk and restores the old tail, and a third
chunk would repeat the second. `engine_store` has two names so that `update_name` matters.
Persistence: chunks of two slots, two ids, two grades, three slots, hence two chunks in every combination of
dirty and clean, full and partial; compaction yields no chunk, one partial chunk and one full one. `OneCutSave`
allows one save cut short between two that complete or boots that work, so retries and torn files are reached;
`torn` takes chunks of three slots and three ids, because a torn file must pass the compaction threshold.
With two grades only in `persistence`; `persistence_faults` has one.
Radix: two nibble values and three nibbles instead of sixteen and eight, ids `000`, `001` and `101` and the tombstone
`111`: two ids that part at the last nibble, one that parts at the first, so an insertion can be cut short above, at
and below a shared prefix. Every depth between is like the middle one.
AVL: twelve keys, two grades by six ids, so that the tie-breaker decides, because a deletion that rotates at two levels
needs a tree of height five and the smallest of those has twelve nodes; arrays of zero, one, two and six entries and one
with a repeated key. `TreeView` takes states that differ in `answer` for one: no step reads it, and TLC checks every
step against `EntrySet`, also one that leads to a state it knows.
Arena: pages of eight bytes at one of three addresses, two of them aligned to four bytes only and one to
sixteen but not more, requests of 3, 4, 8 bytes and one larger than a page, alignments 1, 4 and 8 and one that
is no power of two: padding and request fill a page exactly, miss by one, or do not fit even a fresh page. Three pages
make a list with a first, a middle and a last one. Addresses do not wrap.
Shell: three ids, grades 1 and 2 and one beyond the maximum, two names, batch files with up to four lines against an array
that starts with two places, and up to four lines of input (`MaxLines`): enough to change, fail to save, change again
and end. Each command occurs with arguments that are usable and with each kind that is not. The input may end at any
moment, also in the middle of a command.
No line of a batch file that is longer than the buffer stands before a bad one (see below).

## Findings

1. `engine_update_gpa` (`engine.c:636-640`) re-inserts the old AVL entry when the new one is refused and discards
   the answer. Both insertions allocate from one arena, so the second refusal is the likely case: the record
   stays live, is in no range, and can no longer be deleted or regraded.
2. Compaction does not make the comparison of totals that a load makes (`file_io.c:374`). A file torn by a stopped
   save is refused by a load, but if it is due for compaction it is compacted first and then loads with a part
   of a batch.
3. `file_io_save` takes any failure to open the file for a missing file: it truncates it, writes only the dirty
   chunks and answers OK.
4. The rest of a line longer than 511 characters is executed as a command of its own (`shell.c:406`); the run has
   a name too long to be accepted, whose end deletes a record.

Other disagreements met while modelling. The first two can be seen with the modules as they are.

- `file_io_load` takes a file that cannot be opened for a missing one too, and a boot then shows an empty database:
  `BootShowsSavedRecords` is violated with `Faults = {"open"}`. `FaultyBootIsAllOrNothing` says what is left: it
  permits the loss of everything, here and where a replacement fails.
- The repair of a zero-length file in `file_io_load` (`file_io.c:236`) is out of reach, because
  `engine_compact_if_needed` reads the superblock first and fails (`FailBoot`). A process
  stopped while it creates the file leaves such a one, and every later boot refuses it until somebody removes it.
  `UncutFileBoots` leaves it out, and `EmptyFileLosesNothing` shows that it
  is left behind only where the database may have been empty.
- `engine_validate_gpa` (`engine.c:1121`) lets NaN pass, which equals every grade for `avl_compare_key`: the tree is in
  no order then. The shell refuses NaN (`OnlyValidReachesEngine`), so it takes a file that holds one, or another
  caller of the engine.
- The error line of a batch file counts calls of `fgets` (`shell.c:1362`): behind a line longer than the buffer it is
  too large; and a file that cannot be read to its end is reported as a bad row in line 0 (`shell.c:1387`).
- A comment promises the physical disk (`file_io.c:493`), but `fflush` hands the data to the operating system and
  nothing waits for the disk.

## What is proved

Each theorem holds for every value of the constants that satisfies the named assumptions of its modules: chunks of
any capacity, any ids, grades and names, batches of any length, tries of any depth, trees of any size, pages of any
size, input of any length. TLC evaluates every assumption in some run.

| Module | Theorem | What is an invariant, or implemented |
| --- | --- | --- |
| `EngineProofs` | `TypeCorrect`, `InsertionIsTracked`, `RadixIsSound`, `AvlIsSound` | `TypeOK`, `InsertionTracked`, `RadixSound`, `AvlSound` |
| `StoreProofs` | `EveryRecordIsFound` | `RadixComplete` |
| | `OnlyRefusedUpdatesUnrank` | the action property `UnrankedOnlyByRefusedUpdate` |
| | `EveryRecordIsServed`, `RangesAreReturned`, `RangesAreCounted` | `EveryRecordAnswers`, `RangeReturnsEveryRecord`, `RangeCountsEveryRecord`, if no restoration is refused |
| | `Implementation` | `Engine` implements `FraseStore`, under the same condition |
| | `BookkeepingIsExact` | `Bookkeeping` |
| | `FailedInsertionLeavesNoTrace` | the action property `RollbackRestoresEntry` of `MCEngine` |
| `RadixProofs` | `TypeCorrect`, `PrefixesHaveOneNode`, `PathsAreExact`, `LocationsAtBottom` | `TypeOK`, `OneNodePerPrefix`, `PathsExact`, `OccupiedAtBottom` |
| | `Implementation` | `Radix` implements `LocationMap` |
| `AVLProofs` | `AlwaysOrdered`, `AlwaysBalanced`, `AlwaysCounted`, `AlwaysAgreed` | `Ordered`, `HeightsBalanced`, `NodeCountExact`, `RangePassesAgree` |
| | `Implementation` | `AVL` implements `EntrySet` |
| `ArenaProofs` | `TypeCorrect`, `BlocksNeverMeet`, `NoPageIsLost`, `FreshPagesFit` | `TypeOK`, `BlocksApart`, `ListHoldsEveryPage`, `FreshPageFits` |
| `ShellProofs` | `TypeCorrect`, `MessagesAreTrue`, `EngineGetsOnlyValid`, `CleanExit` | `TypeOK`, `MessagesTellTheDatabase`, `OnlyValidReachesEngine`, `CleanExitSaved` |
| | `ErrorsNameTheirLine` | the action property `ErrorLineIsBad`, if no line of a batch file is longer than the buffer |
| `PersistenceProofs` | `TypeCorrect` | `TypeOK` |
| | `CleanIsOnDisk` | `CleanChunksAreOnDisk`, if the existing file can always be opened |
| | `OkSaves`, `CompactionKeeps` | the action properties `OkSaveIsComplete`, `CompactionKeepsRecords`, on the same condition |
| | `UncutBoots` | `UncutFileBoots` of `MCPersistence`, on the same condition |
| | `FaultyBoots` | `FaultyBootIsAllOrNothing`, on the same condition; replacements may fail; not after the compaction of a torn file |
| | `BootsShowSaved`, `EmptyFileCostsNothing` | `BootShowsSavedRecords`, `EmptyFileLosesNothing`, if replacements go through as well; the first not after the compaction of a torn file |

Some theorems have a hypothesis beside the assumptions, which is what a finding is about. Those with
`"restore" \notin Faults` say what holds without the double refusal of finding 1; the run `ranges`, which allows it,
violates `RangeCountsEveryRecord`. `BootsShowSaved` and `FaultyBoots` have an exception in the property itself:
`~tornCompacted`, no torn file was compacted since the last boot that worked. Beyond it a boot may show a part of a batch,
under the same hypotheses and without any fault but a stopped save; the run `torn` shows it. The theorems about the file have `"open" \notin Faults`: finding 3 is a save that
truncates the file and then writes the dirty chunks only. Cut saves and refused writes are allowed in all of them,
failed replacements (`"replace"`) in all but `BootsShowSaved` and `EmptyFileCostsNothing`: the file is gone then, and the
next boot creates an empty one. The run `persistence_faults` has files that do not open as well: that a boot is all or
nothing there too, with that exception, is only model-checked.
`ErrorsNameTheirLine` has that every line of a batch file is one piece: the code counts calls of `fgets`, as said above.
The run `shell` also has longer lines, behind the bad one.

What is assumed of constants, beside types: a tombstone id is no valid id; the empty name, and the values that stand
for "none", are not values of the kind they mark the absence of (`NameAssumption`, `NoLocationAssumption`,
`CutAssumption`, `SuperblockAssumption`, `LocationAssumption`); a batch is a finite sequence of records, an array for a
build one of entries (`ArrayAssumption`), grades and ids are numbers (`GradeAssumption`); an id is determined by its nibbles
(`NibbleAssumption`); `malloc` returns addresses that are multiples of one alignment, in `Arena`. Two say where data comes
from. `LoadedAssumption` in `Engine`: a file that hydration accepts has exact counters and full chunks before the
last, as those the program writes have; the code sums the tombstones of each chunk and never recounts them, so a
file written by something else could differ. `FilesSound` proves it in `Persistence` of every file that loads (`ExactFile`),
those that cut saves and compactions left behind included, while an existing file can be opened. `ContentsAssumption` in `Shell`: no grade in the file is NaN, which is so
for files that the shell had written (`SavesWhatItCanBoot` shows that it continues to hold for those it saves).

### The engine

Soundness of the indexes is not inductive alone: `UndoAppend` cuts the chunks back to the snapshot,
so by then no index entry may lead beyond it. The entries made so far must therefore be exactly those that
`engine_rollback_indexed_span` visits, and it visits locations computed by division from the first slot of the
batch. `InsertionTracked` says so: the appended turns lie where the division says, in order (`SpanHolds`), and
every index entry either leads to a committed record or belongs to a counted turn (`IndexedTurnsExact`). With
the types and `RadixLeadsToRecords` (an id never leads to bytes no insertion wrote) it makes up `IInv`, for which
`InitEstablishes` and `NextPreserves` are proved with one lemma per action, and `Invariance` concludes. The
lemmas of `ChunkProofs` say what each chunk operator keeps: appends extend the chunks (`ExtendsTransitive`), the
in-place updates rewrite one slot, a rollback keeps what was committed, and the next append goes where the
division puts it (`DivisionExact`, `NextSlot`).

`StoreProofs` is the converse: the indexes hold everything. `RadixComplete` is not inductive, because an insertion that
ends makes its records committed, and they must then be indexed. `Complete` adds that every slot beyond the snapshot
belongs to a turn (`SpanCovers`), that no turn lies before it (`SpanBeyond`), and that the turns that are over are
ranked (`TurnsRanked`). The range theorems follow from it: the index, filtered to a range and sorted, has as many
entries as the first pass counts (`RankIn` numbers them). For the refinement, `StoreInv` adds that the ids of a
pending batch were free when it began, and each call is shown to be the store's call with the same answer, or hidden.

Its last part, about insertions that fail, rests on one fact: at every step of an insertion, what `engine_rollback_append` would leave is what
the call found on entry, up to bytes that no later call observes. So the totals are exact now and after an undo
(`BInv`), and the state on entry, which `MCEngine` records, is what an undo would give back (`EntryTracked`).

### The other components

`Radix`: `origin` turns the shape of the trie into a statement about single nodes, so no induction over depth is
needed. `Shape` says that child pointers follow the nibbles (`ChildrenFollow`), that every node has a parent and one
ancestor at each depth above it (`ParentsLead`, `AncestorsExist`), and `WalkOnPath` that a walk is at the node of the
nibbles it has read. So a walk that finds no child may link one: there is no other node for that prefix. In the
refinement the map at an id is the location of the one node on its path at the last depth.

`AVL`: the invariant is one line, `IInv`: the index is a sound tree (`Sound`: in order, levelled, every height exact, every
node a member of `Trees`) of as many entries as it counts. All the work is in what the recursive operators do to a
tree. That the functions they are written with exist at all is the first thing to prove (`InsertExists` and its
like: a function that follows the recursion up to one height is extended to the next), and then induction over trees is
an argument about sets: a set with every sound tree whose subtrees it has, has all (`AllTrees`). `LeftHeavy` and
`RightHeavy` say of a node whose subtrees are sound and differ by two what one rotation or two make of it:
the same entries, in order, levelled, and a height lower by one at most; `RebalanceSound` joins them.
An insertion raises a subtree by at most one level and a deletion lowers it by at most one (`Inserted`, `Deleted`), so what
the level above rebalances never differs by more than two; the successor that a deletion copies is the least
entry on the right (`MinSound`), and lies between the two sides. `Balanced` gives trees whose height depends on the length of
their range only, and grows by at most one with it (`BalancedSound`); the two halves differ by one entry at most. The passes of a range query are compared through `InRange`, the set both look for: the first
counts it (`CountSound`), the second appends its one ordered list to the buffer or stops where it is full (`QuerySound`).

`Arena`: `Chain` says that the list is the pages in the order of their creation; `PagesApart` that neither pages nor
their used parts overlap; `Progress` what a call in progress may rely on. Alignment is arithmetic: padding, block
and page offset are multiples, stated in the lemmas before the steps.

`Shell`: the inductive invariant relates the place the program is at to its buffers (`Phases`), says that what waits
for submission has passed the checks (`Clean`), and that the database is what was promised (`InStep`). What passes the
shell's checks passes the engine's (`Checked`), hence no error of validation is ever reported. `InFile` relates what is
left of a batch file to its place in it (`ReadTo`): every bad line is still to come.

`Persistence`: `TypeCorrect` needs that a file's sections are always numbered from 0 without a gap, though `fseek` may
skip some, that the pc agrees with what the operation is for (`IoSound`), and that compaction, loading and appending
make managers of files and batches of any size. These are loops, written as recursive functions over `0 .. N`; what
they compute is shown by induction in the form of sets: the set of counterexamples has no least element
(`LeastNatural`, from the well-foundedness of the naturals), which needs no operator as a parameter (`Reaches`,
`Recursion`). `CleanChunksAreOnDisk` alone is not inductive, because a save marks chunks clean only at its
end. `SaveSound` says it for every chunk that is `Settled`: clean, or behind the point that the save has reached, of
which the file has the header first (`HeaderWritten`) and then the records. Calls in memory mark every chunk they touch
(`CleanUntouched`), so what they leave clean they left alone.

What relates two lives of a process through the file follows from one invariant, `HInv`, over the history variables of
`MCPersistence`. The difficulty is a save that was cut short, perhaps several times: the superblock is that of an earlier
state, `base`, and each section has the header and records of some moment since, or a header without its records. Two
facts tame it. Memory only grows (`Grown`): no chunk ever counts fewer slots or tombstones than it did, and a slot in use
keeps its id or is buried. So the header of every section counts at least what `base` does (`Between`), and if the
totals are those of the superblock, as a load checks, every section counts exactly what `base` does (`SumSqueeze`). Then
the tombstones among the slots of `base` are as many as they were, hence the same (`EqualCounts`), and the records have
the ids of `base`, each as it was at a moment seen (`CoversFileSound`). The totals alone would not do: they must be
exact in memory (`SoundManager`), which is why `Insert` asks for a batch of ids that are distinct and new, as
`engine_validate_batch` does.

`RunSound` says that such a `base` exists while an engine runs; writing the superblock makes memory the new one,
because the file then holds it (`HeldInTheEnd`, from `SaveSound`), and a file that holds a sound manager boots and shows
it (`HeldBoots`): that is `OkSaves`. `OffSound` says what follows for the files between two engines; `ReplaceSound`, `EmptySound`
and `UncutSound` say what a boot on its way may rely on. Compaction reads the records in order and lays them out
again: that is a statement about sequences, and `Lists` says that a sequence lists the records of a set of locations,
each once. `LiveRecords` lists the live locations of the old file (`FileLists`) and of the new (`CompactedRecords`), and two
files of which one sequence is the list show the same (`ListsSound`). `CompactedExact` needs no such file: what compaction
writes counts exactly if it loads at all, also when it has read a torn file.

## Only model-checked, and out of reach

- Liveness: `DestroyEnds` and `EndOfInputExits`. Fairness is about `ENABLED`, which the prover does not handle.
- `FaultyBootIsAllOrNothing` where an existing file may fail to open, as said above. A save may then leave holes in
  place of clean chunks, and headers over holes, which the invariant would have to tell apart.
- The induction principles of the library take an operator as a parameter, which no installed prover
  can instantiate; induction over numbers and over trees is done in sets, as above.

## Not modelled

- Characters: the parsers of the shell appear as what they accept and refuse; trimming and the number formats are
  pure computations on one buffer. The wording of messages and the error strings of every component.
- Null arguments, magic numbers, versions, reserved bytes and widths of file counters; refused allocations and
  refused reads in `file_io`, which fail the call and leave the file alone.
- Power failure below `fflush`: writes reach the file in program order, as they do when a process stops.
- NaN beyond the shell, as above: grades are ordered values in `Engine` and `AVL`.
- The nodes an AVL deletion or a failed insertion leaves in the arena: unreachable until `arena_destroy`, which frees
  pages and not nodes.

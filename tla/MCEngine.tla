------------------------------- MODULE MCEngine -------------------------------
(***************************************************************************)
(* TLC instance of Engine: two-slot chunks, three ids, two grades.         *)
(* `entry' is a history variable: the visible state on entry to the        *)
(* engine_insert_batch in progress.                                        *)
(***************************************************************************)
EXTENDS Engine, TLC

CONSTANT n1

VARIABLE entry

MCIds == {1, 2, 3}
MCTombstone == 99
MCGpas == {1, 2}

R(id, gpa, name) == [id |-> id, gpa |-> gpa, name |-> name]

Singles == {<<R(id, 1, n1)>> : id \in MCIds}

(* Wrong in one way each, some of them after a good record.                  *)
BadBatches ==
  {<<R(MCTombstone, 1, n1)>>, <<R(1, 9, n1)>>, <<R(2, 1, EmptyName)>>,
   <<R(1, 1, n1), R(1, 2, n1)>>, <<R(2, 1, n1), R(3, 9, n1)>>}

(* Long enough to cross a chunk boundary from any starting slot.             *)
LongBatches == {<<R(1, 2, n1), R(2, 1, n1), R(3, 1, n1)>>, <<R(3, 2, n1), R(1, 1, n1)>>}

MCBatches == {<<>>} \cup Singles \cup BadBatches \cup LongBatches

MCArgIds == MCIds \cup {MCTombstone}
MCArgGpas == MCGpas \cup {9}
MCArgNames == Names \cup {EmptyName}

Loaded(records, used, tombs) ==
  [records |-> records, used_slots |-> used, tombstones |-> tombs, dirty |-> FALSE]

Manager(chunks, n, used, tombs) ==
  [chunks |-> chunks, chunk_count |-> n, total_used_slots |-> used, total_tombstones |-> tombs]

Two(a, b) == [s \in Slots |-> IF s = 0 THEN a ELSE b]

One(chunk) == [c \in 0 .. 0 |-> chunk]

(* A new file; one full chunk; a tombstone before a live record; one record  *)
(* in the tail; and files whose records contradict each other or the counts. *)
GoodImages ==
  {EmptyManager,
   Manager(One(Loaded(Two(R(1, 1, n1), R(2, 2, n1)), 2, 0)), 1, 2, 0),
   Manager(One(Loaded(Two(R(MCTombstone, 2, n1), R(3, 1, n1)), 2, 1)), 1, 2, 1)}

BadImages ==
  {Manager(One(Loaded(Two(R(1, 1, n1), R(1, 2, n1)), 2, 0)), 1, 2, 0),
   Manager(One(Loaded(Two(R(1, 1, n1), R(2, 2, n1)), 2, 1)), 1, 2, 1)}

MCImages == GoodImages \cup BadImages

-----------------------------------------------------------------------------
VisibleState == <<Visible(cm), radix, avl>>

HInit == Init /\ entry = <<>>

HNext ==
  /\ Next
  /\ entry' = IF op' = Idle THEN <<>>
              ELSE IF op = Idle THEN VisibleState
              ELSE entry

HSpec == HInit /\ [][HNext]_<<vars, entry>>

(* An insertion that fails, at whatever turn of whichever loop, leaves the   *)
(* chunks, their counters and dirty flags and both indexes exactly as they   *)
(* were on entry (engine.h: "either the entire batch commits, or it is       *)
(* rolled back").                                                            *)
RollbackRestoresEntry ==
  [][op # Idle /\ op' = Idle /\ result'.error # "OK" => VisibleState' = entry]_<<vars, entry>>
===============================================================================

------------------------------- MODULE MCShell -------------------------------
(***************************************************************************)
(* TLC instance of Shell: three ids, two valid grades and one beyond them. *)
(* `continued' is a history variable: the command is a later piece of a    *)
(* line whose first piece was handled before.                              *)
(***************************************************************************)
EXTENDS Shell

CONSTANTS n1, n2

VARIABLE continued

MCIds == {1, 2, 3}
MCTombstone == 9

Student(gpa) == [gpa |-> gpa, name |-> n1]

(* A new file, and one with a record.                                        *)
MCContents ==
  {[id \in Ids |-> Absent], [id \in Ids |-> IF id = 1 THEN Student(2) ELSE Absent]}

R(id, gpa, name) == [id |-> id, gpa |-> gpa, name |-> name]

Command(type)            == [type |-> type, extra |-> FALSE]
CommandWithExtra(type)   == [type |-> type, extra |-> TRUE]
InsertOf(id, gpa, name)  == [type |-> "insert", id |-> id, gpa |-> gpa, name |-> name]
About(type, id)          == [type |-> type, id |-> id]
UpdateNameTo(id, name)   == [type |-> "update_name", id |-> id, name |-> name]
UpdateGpaTo(id, gpa)     == [type |-> "update_gpa", id |-> id, gpa |-> gpa]
RangeOf(min, max)        == [type |-> "range", min |-> min, max |-> max]
BatchOf(file)            == [type |-> "insert_batch", file |-> file]

GoodCommands ==
  {InsertOf(1, 1, n1), InsertOf(2, 2, n2), About("find", 1), About("delete", 1),
   UpdateNameTo(1, n2), UpdateGpaTo(1, 1), RangeOf(1, 2),
   Command("save"), Command("save_exit"), Command("help"), Command("empty")}

BadCommands ==
  {InsertOf(1, 7, n1), InsertOf(1, NaN, n1), InsertOf(MCTombstone, 1, n1), InsertOf(2, 1, Junk),
   About("find", Junk), About("delete", MCTombstone),
   UpdateNameTo(1, Junk), UpdateGpaTo(1, NaN), UpdateGpaTo(Junk, 1),
   RangeOf(2, 1), RangeOf(NaN, 2), BatchOf(Junk), BatchOf(NoFile),
   CommandWithExtra("help"), CommandWithExtra("save"), CommandWithExtra("save_exit"),
   Command("unknown")}

(* Files: empty; of blank rows; longer than the first array, with a blank    *)
(* row; with a bad row behind a good and a blank one; with a repeated id;    *)
(* with NaN; with a row padded with white space beyond a piece.              *)
Batches ==
  {<<>>, << <<Blank>> >>,
   << <<R(2, 1, n1)>>, <<Blank>>, <<R(3, 2, n1)>>, <<R(1, 1, n2)>> >>,
   << <<R(2, 1, n1)>>, <<Blank>>, <<R(3, 7, n1)>> >>,
   << <<R(3, 1, n1)>>, <<R(3, 2, n2)>> >>,
   << <<R(3, NaN, n1)>> >>,
   << <<R(2, 1, n1), Blank>>, <<R(3, 1, n1)>> >>}

(* A name too long for a piece, whose end reads as a command.                *)
LongLine == <<UpdateNameTo(1, Junk), About("delete", 1)>>

MCLines ==
  {<<command_>> : command_ \in GoodCommands \cup BadCommands} \cup
  {<<BatchOf(file)>> : file \in Batches} \cup {LongLine}

-----------------------------------------------------------------------------
HInit == Init /\ continued = FALSE

HNext ==
  /\ Next
  /\ continued' = IF AtPrompt THEN pieces # <<>> ELSE continued

HSpec == HInit /\ [][HNext]_<<vars, continued>> /\ Fairness

(* shell.c:50: shell_read_line "Reads a line of input from stdin".  What     *)
(* comes behind the first piece of a line is no command of its own and       *)
(* changes nothing.                                                          *)
LineIsOneCommand ==
  [][continued /\ command # NoCommand => db' = db]_<<vars, continued>>
===============================================================================

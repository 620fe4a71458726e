-------------------------------- MODULE Shell --------------------------------
(***************************************************************************)
(* The program around the engine (src/shell.c, src/main.c): it boots the   *)
(* engine, reads commands until save_exit or the end of the input, checks  *)
(* their arguments, loads batch files, calls the engine and reports what   *)
(* it answered.  The engine is the store of FraseStore, which Engine is    *)
(* shown to implement; its calls are the steps Store!...                   *)
(*                                                                         *)
(* Text appears as what the parsers make of it: an id, a grade or a name,  *)
(* or Junk where they refuse the text.  fgets returns a line longer than   *)
(* SHELL_LINE_SIZE in pieces, so a line is a sequence of pieces, each      *)
(* standing for the text as it is parsed alone.                            *)
(***************************************************************************)
EXTENDS Integers, Sequences, FiniteSets

CONSTANTS
  Ids,             (* the valid ids                                        *)
  TombstoneId,     (* FRASE_TOMBSTONE_ID                                   *)
  Grades,          (* the grades that occur in the text, NaN aside         *)
  MaxGpa,          (* ENGINE_MAX_GPA, and the 10.0f of shell_is_valid_gpa  *)
  NaN,             (* what strtof makes of "nan"                           *)
  Names,           (* the names that are valid                             *)
  Junk,            (* text that does not parse; a name that is not valid   *)
  Lines,           (* the lines of the input: sequences of commands        *)
  NoFile,          (* the path of a batch file that cannot be opened       *)
  Blank,           (* a row of white space                                 *)
  InitialCapacity, (* SHELL_INITIAL_BATCH_CAPACITY                         *)
  Contents,        (* what the backing file may hold at boot               *)
  Absent,          (* marks an id that no record carries                   *)
  InDoubt,         (* the content of a file after a save that failed       *)
  Faults,          (* what may fail beside the engine                      *)
  MaxLines         (* bound: the lines of the input                        *)

(* "memory": malloc or realloc is refused; "read": a batch file cannot be    *)
(* read to its end.                                                          *)
ASSUME FaultAssumption    == Faults \subseteq {"memory", "read"}
ASSUME GradeAssumption    == Grades \subseteq Nat /\ MaxGpa \in Nat
ASSUME CapacityAssumption == InitialCapacity \in Nat \ {0}
ASSUME BoundAssumption    == MaxLines \in Nat

VARIABLES
  (* the store *)
  booted, db, pending, call, error,
  (* the shell *)
  phase,      (* where main and shell_run are                              *)
  eof,        (* whether the input has ended                               *)
  lines_read, (* the lines the user has entered                            *)
  pieces,     (* what fgets has yet to return of the last one              *)
  command,    (* the command being handled                                 *)
  load,       (* the local variables of shell_load_batch_file              *)
  printed,    (* the last message                                          *)
  exit_code,  (* the value main returned                                   *)
  (* history *)
  saved,      (* what the backing file holds, when that is known           *)
  promised    (* the records that the messages so far say are there        *)

store == <<booted, db, pending, call, error>>
input == <<eof, lines_read, pieces>>
vars  == <<store, phase, input, command, load, printed, exit_code, saved, promised>>

(* engine_validate_gpa refuses what compares outside the range; NaN does not.*)
EngineGpas == {gpa \in Grades : gpa <= MaxGpa} \cup {NaN}

Store == INSTANCE FraseStore WITH
  Gpas <- EngineGpas, Batches <- {}, ArgIds <- {}, ArgGpas <- {}, ArgNames <- {}

NoCommand == [type |-> "none"]

(* What the parsers make of the text of an argument, a row and a line.       *)
IdTexts    == Ids \cup {TombstoneId, Junk}
GradeTexts == Grades \cup {NaN, Junk}
NameTexts  == Names \cup {Junk}

TextRecords == [id : IdTexts, gpa : GradeTexts, name : NameTexts]

Rows == TextRecords \cup {Blank}

Files == Seq(Seq(Rows) \ {<<>>})

Commands ==
  [type : {"help", "save", "save_exit", "unknown", "empty"}, extra : BOOLEAN] \cup
  [type : {"insert"}, id : IdTexts, gpa : GradeTexts, name : NameTexts] \cup
  [type : {"find", "delete"}, id : IdTexts] \cup
  [type : {"update_name"}, id : IdTexts, name : NameTexts] \cup
  [type : {"update_gpa"}, id : IdTexts, gpa : GradeTexts] \cup
  [type : {"range"}, min : GradeTexts, max : GradeTexts] \cup
  [type : {"insert_batch"}, file : Files \cup {Junk, NoFile}]

ASSUME LineAssumption == Lines \subseteq Seq(Commands) \ {<<>>}

(* The backing file is one that the program wrote: a grade in it is one that *)
(* the shell let through, which NaN is not.                                  *)
WrittenMaps == [Ids -> [gpa : EngineGpas \ {NaN}, name : Names] \cup {Absent}]

ASSUME ContentsAssumption == Contents \subseteq WrittenMaps

NoCode == -1

Message(kind) == [kind |-> kind, line |-> 0]

Say(kind) == printed' = Message(kind)

-----------------------------------------------------------------------------
(* Parsing *)

(* shell_parse_u32, then shell_is_valid_id.                                  *)
IsValidId(id) == id # Junk /\ id # TombstoneId

(* The comparisons of C, none of which holds of NaN.                         *)
AtMost(a, b)  == a # NaN /\ b # NaN /\ a <= b
Exceeds(a, b) == a # NaN /\ b # NaN /\ a > b

(* Mutant: the range test of the engine, which NaN passes.                   *)
IsNotOutside(gpa) == gpa # Junk /\ ~Exceeds(gpa, MaxGpa)

(* shell_parse_float, then shell_is_valid_gpa: no comparison holds of NaN.   *)
IsValidGpa(gpa) == gpa # Junk /\ AtMost(gpa, MaxGpa)

IsValidName(name) == name \in Names

(* shell_parse_record_line *)
IsRecord(row) == IsValidId(row.id) /\ IsValidGpa(row.gpa) /\ IsValidName(row.name)

(* shell_parse_float_range *)
IsRange(min, max) == IsValidGpa(min) /\ IsValidGpa(max) /\ ~Exceeds(min, max)

-----------------------------------------------------------------------------
(* main *)

Init ==
  /\ Store!Init
  /\ phase = "boot"
  /\ eof = FALSE
  /\ lines_read = 0
  /\ pieces = <<>>
  /\ command = NoCommand
  /\ load = <<>>
  /\ printed = Message("none")
  /\ exit_code = NoCode
  /\ saved = InDoubt
  /\ promised = Store!EmptyDb

Exit(code) == phase' = "exited" /\ exit_code' = code

RefuseArguments ==
  /\ phase = "boot"
  /\ Say("usage")
  /\ Exit(1)
  /\ UNCHANGED <<store, input, command, load, saved, promised>>

Boot ==
  /\ phase = "boot"
  /\ Store!Boot
  /\ saved' = db'
  /\ promised' = db'
  /\ Say("started")
  /\ phase' = "run"
  /\ UNCHANGED <<input, command, load, exit_code>>

FailBoot ==
  /\ phase = "boot"
  /\ Store!FailBoot
  /\ Say("engine_error")
  /\ Exit(1)
  /\ UNCHANGED <<input, command, load, saved, promised>>

-----------------------------------------------------------------------------
(* The loop of shell_run *)

AtPrompt == phase = "run" /\ command = NoCommand

ReadLine ==
  /\ AtPrompt
  /\ pieces = <<>>
  /\ ~eof
  /\ lines_read < MaxLines
  /\ \E line \in Lines :
       /\ command' = Head(line)
       /\ pieces' = Tail(line)
  /\ lines_read' = lines_read + 1
  /\ UNCHANGED <<store, phase, eof, load, printed, exit_code, saved, promised>>

ReadPiece ==
  /\ AtPrompt
  /\ pieces # <<>>
  /\ command' = Head(pieces)
  /\ pieces' = Tail(pieces)
  /\ UNCHANGED <<store, phase, eof, lines_read, load, printed, exit_code, saved, promised>>

InputEnds ==
  /\ ~eof
  /\ phase # "exited"
  /\ eof' = TRUE
  /\ UNCHANGED <<store, phase, lines_read, pieces, command, load, printed, exit_code, saved, promised>>

AtEnd == AtPrompt /\ pieces = <<>> /\ eof

(* Mutant: the error is not looked at.                                       *)
EndUnchecked ==
  /\ AtEnd
  /\ \/ Store!Shutdown /\ saved' = db
     \/ Store!RefuseShutdown /\ saved' = InDoubt
  /\ Say("done")
  /\ Exit(0)
  /\ UNCHANGED <<input, command, load, promised>>

(* Mutant: an input without any line is not seen to end.                     *)
EndAfterLines ==
  /\ AtEnd
  /\ lines_read > 0
  /\ \/ Store!Shutdown /\ saved' = db /\ Say("done") /\ Exit(0)
     \/ Store!RefuseShutdown /\ saved' = InDoubt /\ Say("engine_error") /\ Exit(1)
  /\ UNCHANGED <<input, command, load, promised>>

(* shell_handle_eof *)
HandleEof ==
  /\ AtEnd
  /\ \/ Store!Shutdown /\ saved' = db /\ Say("done") /\ Exit(0)
     \/ Store!RefuseShutdown /\ saved' = InDoubt /\ Say("engine_error") /\ Exit(1)
  /\ UNCHANGED <<input, command, load, promised>>

Handling(type) == phase = "run" /\ command.type = type

(* The handler returns SHELL_CONTINUE.                                       *)
Continue ==
  /\ command' = NoCommand
  /\ phase' = "run"
  /\ UNCHANGED <<input, exit_code>>

(* The handler returns having called nothing.                                *)
Dismiss(kind) ==
  /\ Say(kind)
  /\ Continue
  /\ UNCHANGED <<store, load, saved, promised>>

(* The message that follows a call of the engine.                            *)
Report == Say(IF error' = "OK" THEN "done" ELSE "engine_error")

(* History: a message of success promises that the map is the new one.       *)
Promise(map) == promised' = IF printed'.kind = "done" THEN map ELSE promised

(* Commands whose arguments cannot be wrong, or are, ...                     *)
HandleHelp ==
  /\ Handling("help")
  /\ Dismiss(IF command.extra THEN "usage" ELSE "help")

HandleUnknown == Handling("unknown") /\ Dismiss("unknown")

HandleEmpty == Handling("empty") /\ Dismiss("none")

IsUsable ==
  CASE command.type = "insert"            -> IsRecord(command)
    [] command.type \in {"find", "delete"} -> IsValidId(command.id)
    [] command.type = "update_name"       -> IsValidId(command.id) /\ IsValidName(command.name)
    [] command.type = "update_gpa"        -> IsValidId(command.id) /\ IsValidGpa(command.gpa)
    [] command.type = "range"             -> IsRange(command.min, command.max)
    [] command.type \in {"save", "save_exit"} -> ~command.extra
    [] command.type = "insert_batch"      -> command.file # Junk
    [] OTHER                              -> TRUE

RefuseUsage ==
  /\ phase = "run"
  /\ command # NoCommand
  /\ ~IsUsable
  /\ command.type # "help"
  /\ Dismiss("usage")

Usable(type) == Handling(type) /\ IsUsable

-----------------------------------------------------------------------------
(* Commands about one id *)

HandleFind ==
  /\ Usable("find")
  /\ Store!FindById(command.id)
  /\ Report
  /\ Continue
  /\ UNCHANGED <<load, saved, promised>>

HandleDelete ==
  /\ Usable("delete")
  /\ Store!DeleteById(command.id)
  /\ Report
  /\ Promise([promised EXCEPT ![command.id] = Absent])
  /\ Continue
  /\ UNCHANGED <<load, saved>>

HandleUpdateName ==
  /\ Usable("update_name")
  /\ Store!UpdateName(command.id, command.name)
  /\ Report
  /\ Promise([promised EXCEPT ![command.id].name = command.name])
  /\ Continue
  /\ UNCHANGED <<load, saved>>

HandleUpdateGpa ==
  /\ Usable("update_gpa")
  /\ Store!UpdateGpa(command.id, command.gpa)
  /\ Report
  /\ Promise([promised EXCEPT ![command.id].gpa = command.gpa])
  /\ Continue
  /\ UNCHANGED <<load, saved>>

-----------------------------------------------------------------------------
(* Range queries: count, allocate, query *)

CountRange(min, max) ==
  Cardinality({id \in Ids : db[id] # Absent /\ AtMost(min, db[id].gpa) /\ AtMost(db[id].gpa, max)})

HandleRange ==
  /\ Usable("range")
  /\ \/ CountRange(command.min, command.max) = 0 /\ Dismiss("none_found")
     \/ /\ CountRange(command.min, command.max) > 0
        /\ \/ Dismiss("found")
           \/ "memory" \in Faults /\ Dismiss("no_memory")

-----------------------------------------------------------------------------
(* Insertions *)

(* engine_insert_one and engine_insert_batch are called: the batch is        *)
(* refused at once, or the engine goes to work on it.                        *)
Submit(records) ==
  \/ /\ Store!RefuseBatch(records)
     /\ Report
     /\ Continue
  \/ /\ Store!BeginInsert(records)
     /\ phase' = "insert"
     /\ UNCHANGED <<input, command, printed, exit_code>>

RecordOf(row) == [id |-> row.id, gpa |-> row.gpa, name |-> row.name]

HandleInsert ==
  /\ Usable("insert")
  /\ Submit(<<RecordOf(command)>>)
  /\ UNCHANGED <<load, saved, promised>>

WithRecords(map, records) ==
  [id \in Ids |->
     IF \E i \in DOMAIN records : records[i].id = id
     THEN LET i == CHOOSE i \in DOMAIN records : records[i].id = id
          IN [gpa |-> records[i].gpa, name |-> records[i].name]
     ELSE map[id]]

(* Mutant: the error is not looked at.                                       *)
EndInsertUnchecked ==
  /\ phase = "insert"
  /\ Store!FinishInsert \/ Store!UndoInsert
  /\ Say("done")
  /\ Promise(WithRecords(promised, pending))
  /\ Continue
  /\ UNCHANGED <<load, saved>>

EndInsert ==
  /\ phase = "insert"
  /\ Store!FinishInsert \/ Store!UndoInsert
  /\ Report
  /\ Promise(WithRecords(promised, pending))
  /\ Continue
  /\ UNCHANGED <<load, saved>>

-----------------------------------------------------------------------------
(* Batch files: a sequence of lines, each a sequence of pieces               *)

OpenBatch ==
  /\ Usable("insert_batch")
  /\ command.file # NoFile
  /\ load' = [lines |-> command.file, records |-> <<>>, capacity |-> InitialCapacity,
              line_number |-> 0]
  /\ phase' = "load"
  /\ UNCHANGED <<store, input, command, printed, exit_code, saved, promised>>

FailOpenBatch ==
  /\ Usable("insert_batch")
  /\ \/ command.file = NoFile /\ Dismiss("not_opened")
     \/ command.file # NoFile /\ "memory" \in Faults /\ Dismiss("no_memory")

(* Mutant: the records are not freed.                                        *)
AbandonKeeping(message) ==
  /\ printed' = message
  /\ Continue
  /\ UNCHANGED <<store, load, saved, promised>>

(* The loading ends: the records are freed, and nothing was inserted.        *)
Abandon(message) ==
  /\ printed' = message
  /\ load' = <<>>
  /\ Continue
  /\ UNCHANGED <<store, saved, promised>>

Row == Head(Head(load.lines))

RestOfLines ==
  IF Len(Head(load.lines)) = 1 THEN Tail(load.lines)
  ELSE <<Tail(Head(load.lines))>> \o Tail(load.lines)

RowIsNext == phase = "load" /\ load.lines # <<>>

(* Mutant: a blank line is not counted.                                      *)
SkipRowUncounted ==
  /\ RowIsNext
  /\ Row = Blank
  /\ load' = [load EXCEPT !.lines = RestOfLines]
  /\ UNCHANGED <<store, phase, input, command, printed, exit_code, saved, promised>>

SkipRow ==
  /\ RowIsNext
  /\ Row = Blank
  /\ load' = [load EXCEPT !.lines = RestOfLines, !.line_number = @ + 1]
  /\ UNCHANGED <<store, phase, input, command, printed, exit_code, saved, promised>>

GoodRowIsNext == RowIsNext /\ Row # Blank /\ IsRecord(Row)

(* shell_grow_record_array doubles the capacity.                             *)
LoadRow ==
  /\ GoodRowIsNext
  /\ load' = [lines       |-> RestOfLines,
              records     |-> Append(load.records, RecordOf(Row)),
              capacity    |-> IF Len(load.records) < load.capacity THEN load.capacity
                              ELSE 2 * load.capacity,
              line_number |-> load.line_number + 1]
  /\ UNCHANGED <<store, phase, input, command, printed, exit_code, saved, promised>>

FailGrow ==
  /\ GoodRowIsNext
  /\ Len(load.records) = load.capacity
  /\ "memory" \in Faults
  /\ Abandon(Message("no_memory"))

RefuseRow ==
  /\ RowIsNext
  /\ Row # Blank /\ ~IsRecord(Row)
  /\ Abandon([kind |-> "row", line |-> load.line_number + 1])

(* fgets returns NULL, but not for the end of the file.                      *)
FailRead ==
  /\ phase = "load"
  /\ "read" \in Faults
  /\ Abandon([kind |-> "row", line |-> 0])

LoadNothing ==
  /\ phase = "load" /\ load.lines = <<>>
  /\ load.records = <<>>
  /\ Abandon(Message("none_loaded"))

SubmitBatch ==
  /\ phase = "load" /\ load.lines = <<>>
  /\ load.records # <<>>
  /\ Submit(load.records)
  /\ load' = <<>>
  /\ UNCHANGED <<saved, promised>>

-----------------------------------------------------------------------------
(* Saving *)

HandleSave ==
  /\ Usable("save")
  /\ Store!Save
  /\ saved' = IF error' = "OK" THEN db ELSE InDoubt
  /\ Report
  /\ Continue
  /\ UNCHANGED <<load, promised>>

(* A save that fails leaves the engine booted and the shell running.         *)
HandleSaveExit ==
  /\ Usable("save_exit")
  /\ \/ Store!Shutdown /\ saved' = db /\ command' = NoCommand /\ Exit(0) /\ UNCHANGED input
     \/ Store!RefuseShutdown /\ saved' = InDoubt /\ Continue
  /\ Report
  /\ UNCHANGED <<load, promised>>

-----------------------------------------------------------------------------
ShellStep ==
  \/ ReadPiece \/ HandleEof
  \/ HandleHelp \/ HandleUnknown \/ HandleEmpty \/ RefuseUsage
  \/ HandleFind \/ HandleDelete \/ HandleUpdateName \/ HandleUpdateGpa \/ HandleRange
  \/ HandleInsert \/ EndInsert
  \/ OpenBatch \/ FailOpenBatch \/ SkipRow \/ LoadRow \/ FailGrow \/ RefuseRow \/ FailRead
  \/ LoadNothing \/ SubmitBatch
  \/ HandleSave \/ HandleSaveExit

MainStep == RefuseArguments \/ Boot \/ FailBoot

Next == MainStep \/ ReadLine \/ InputEnds \/ ShellStep

(* The program goes on as long as it does not wait for the user, who may     *)
(* enter lines or not.                                                       *)
Fairness == WF_vars(MainStep) /\ WF_vars(ShellStep)

Spec == Init /\ [][Next]_vars /\ Fairness

-----------------------------------------------------------------------------
(* Properties *)

(* Type invariant.                                                           *)
Maps == [Ids -> [gpa : EngineGpas, name : Names] \cup {Absent}]

TypeOK ==
  /\ db \in Maps
  /\ promised \in Maps
  /\ saved \in Maps \cup {InDoubt}
  /\ phase \in {"boot", "run", "load", "insert", "exited"}
  /\ exit_code \in {NoCode, 0, 1}
  /\ (exit_code = NoCode) = (phase # "exited")
  /\ (phase = "insert") = (pending # <<>>)
  /\ (phase = "load") = (load # <<>>)
  /\ lines_read \in 0 .. MaxLines

(* Between commands the database is what the messages so far amount to: each *)
(* command reported done has happened, whole batches included, and none that *)
(* was refused, failed or was cut short has changed anything.                *)
MessagesTellTheDatabase == AtPrompt => db = promised

(* Nothing reaches the engine that it would have to refuse as invalid, and   *)
(* no NaN, which it would not refuse (engine.c:1121) though the order of its *)
(* AVL index does not survive one.                                           *)
OnlyValidReachesEngine ==
  /\ error \notin {"INVALID_ID", "INVALID_GPA", "INVALID_NAME"}
  /\ \A id \in Ids : db[id] # Absent => db[id].gpa # NaN

(* shell.h: "0 for clean shell shutdown": the process then leaves every      *)
(* record it reported in the file, also after saves that failed before.      *)
CleanExitSaved == exit_code = 0 => saved = promised

(* shell.h: "If input ends, shell_run treats it like save_exit": the process *)
(* ends, whatever it was doing and whether or not the save works.            *)
EndOfInputExits == eof ~> phase = "exited"

(* The lines of the batch file with a row that is not a record.              *)
BadLines(file) ==
  {n \in DOMAIN file : \E k \in DOMAIN file[n] : file[n][k] # Blank /\ ~IsRecord(file[n][k])}

(* A message about a row of a batch file names the first line that has a bad *)
(* one, blank lines counted (shell.c:1362).  It holds as long as no line is  *)
(* longer than a piece; 0 says that the file could not be read to its end.   *)
ErrorLineIsBad ==
  [][phase = "load" /\ phase' = "run" /\ printed'.kind = "row" /\ printed'.line # 0 =>
       /\ printed'.line \in BadLines(command.file)
       /\ \A n \in BadLines(command.file) : n >= printed'.line]_vars
===============================================================================

----------------------------- MODULE ShellProofs ------------------------------
(***************************************************************************)
(* What the shell says is what the engine did, for any input, any batch    *)
(* files and any of the failures of the engine and of memory.              *)
(*                                                                         *)
(* The messages are compared with the database at every step and not only  *)
(* at the prompt (InStep), and everything that waits to be inserted is a   *)
(* record (Clean), since a batch is read row by row and handed over later. *)
(***************************************************************************)
EXTENDS Shell, SequenceTheorems, TLAPS

-----------------------------------------------------------------------------
(* The inductive invariant *)

(* A record that the shell lets through.                                     *)
CleanGpas    == EngineGpas \ {NaN}
CleanRecords == [id : Ids, gpa : CleanGpas, name : Names]

Loads == [lines : Files, records : Seq(CleanRecords), capacity : Nat, line_number : Nat]

Inputs ==
  /\ command = NoCommand \/ command \in Commands
  /\ pieces \in Seq(Commands)
  /\ load = <<>> \/ load \in Loads

(* The process is in one place.                                              *)
Phases ==
  /\ phase \in {"boot", "run", "load", "insert", "exited"}
  /\ exit_code \in {NoCode, 0, 1}
  /\ (exit_code = NoCode) = (phase # "exited")
  /\ (phase = "insert") = (pending # <<>>)
  /\ (phase = "load") = (load # <<>>)
  /\ lines_read \in 0 .. MaxLines

Clean ==
  /\ db \in WrittenMaps
  /\ promised \in WrittenMaps
  /\ saved \in WrittenMaps \cup {InDoubt}
  /\ pending \in Seq(CleanRecords)
  /\ error \notin {"INVALID_ID", "INVALID_GPA", "INVALID_NAME"}

(* The database is what the messages amount to as long as there is one.      *)
InStep ==
  /\ phase # "exited" => db = promised
  /\ CleanExitSaved

IInv == Inputs /\ Phases /\ Clean /\ InStep

-----------------------------------------------------------------------------
(* Checked arguments *)

(* What passes the checks of the shell passes those of the engine.           *)
LEMMA Checked ==
  /\ \A id \in IdTexts : IsValidId(id) => id \in Ids
  /\ \A gpa \in GradeTexts : IsValidGpa(gpa) => gpa \in CleanGpas
  /\ CleanGpas \subseteq EngineGpas
  /\ \A row \in Rows : row # Blank /\ IsRecord(row) => RecordOf(row) \in CleanRecords
<1>1. \A id \in IdTexts : IsValidId(id) => id \in Ids
  BY DEF IdTexts, IsValidId
<1>2. \A gpa \in GradeTexts : IsValidGpa(gpa) => gpa \in CleanGpas
  BY DEF GradeTexts, IsValidGpa, AtMost, CleanGpas, EngineGpas
<1>3. CleanGpas \subseteq EngineGpas
  BY DEF CleanGpas
<1>4. \A row \in Rows : row # Blank /\ IsRecord(row) => RecordOf(row) \in CleanRecords
  BY <1>1, <1>2 DEF Rows, TextRecords, IsRecord, IsValidName, RecordOf, CleanRecords
<1> QED
  BY <1>1, <1>2, <1>3, <1>4

(* The commands, by what they carry.                                         *)
LEMMA CommandTyped ==
  ASSUME command \in Commands
  PROVE  /\ command # NoCommand
         /\ command.type \in {"insert", "find", "delete", "update_name", "update_gpa"} =>
              command.id \in IdTexts
         /\ command.type \in {"insert", "update_gpa"} => command.gpa \in GradeTexts
         /\ command.type = "insert_batch" => command.file \in Files \cup {Junk, NoFile}
BY DEF Commands, NoCommand

(* A map with the students of a batch of records.                            *)
LEMMA WithRecordsTyped ==
  ASSUME NEW map \in WrittenMaps, NEW records \in Seq(CleanRecords)
  PROVE  WithRecords(map, records) \in WrittenMaps
<1> SUFFICES ASSUME NEW id \in Ids
             PROVE  WithRecords(map, records)[id] \in [gpa : CleanGpas, name : Names] \cup {Absent}
  BY DEF WithRecords, WrittenMaps, CleanGpas
<1>1. CASE \E i \in DOMAIN records : records[i].id = id
  <2> DEFINE i == CHOOSE i \in DOMAIN records : records[i].id = id
  <2>1. i \in DOMAIN records
    BY <1>1
  <2>2. records[i] \in CleanRecords
    BY <2>1
  <2>3. WithRecords(map, records)[id] = [gpa |-> records[i].gpa, name |-> records[i].name]
    BY <1>1 DEF WithRecords
  <2> HIDE DEF i
  <2> QED
    BY <2>2, <2>3 DEF CleanRecords
<1>2. CASE ~\E i \in DOMAIN records : records[i].id = id
  BY <1>2 DEF WithRecords, WrittenMaps, CleanGpas
<1> QED
  BY <1>1, <1>2

(* A map with one student removed or changed.                                *)
LEMMA ChangedTyped ==
  ASSUME NEW map \in WrittenMaps, NEW id \in Ids
  PROVE  /\ [map EXCEPT ![id] = Absent] \in WrittenMaps
         /\ \A name \in Names : map[id] # Absent => [map EXCEPT ![id].name = name] \in WrittenMaps
         /\ \A gpa \in CleanGpas : map[id] # Absent => [map EXCEPT ![id].gpa = gpa] \in WrittenMaps
<1> DEFINE Students == [gpa : CleanGpas, name : Names]
<1>1. map \in [Ids -> Students \cup {Absent}] /\ WrittenMaps = [Ids -> Students \cup {Absent}]
  BY DEF WrittenMaps, CleanGpas
<1>2. [map EXCEPT ![id] = Absent] \in WrittenMaps
  BY <1>1
<1>3. ASSUME map[id] # Absent
      PROVE  /\ \A name \in Names : [map[id] EXCEPT !.name = name] \in Students
             /\ \A gpa \in CleanGpas : [map[id] EXCEPT !.gpa = gpa] \in Students
  <2>1. map[id] \in Students
    BY <1>1, <1>3
  <2> QED
    BY <2>1
<1>4. ASSUME map[id] # Absent, NEW name \in Names
      PROVE  [map EXCEPT ![id].name = name] \in WrittenMaps
  <2>1. [map[id] EXCEPT !.name = name] \in Students
    BY <1>3, <1>4
  <2>2. [map EXCEPT ![id].name = name] = [map EXCEPT ![id] = [map[id] EXCEPT !.name = name]]
    BY <1>1
  <2> HIDE DEF Students
  <2> QED
    BY <1>1, <2>1, <2>2
<1>5. ASSUME map[id] # Absent, NEW gpa \in CleanGpas
      PROVE  [map EXCEPT ![id].gpa = gpa] \in WrittenMaps
  <2>1. [map[id] EXCEPT !.gpa = gpa] \in Students
    BY <1>3, <1>5
  <2>2. [map EXCEPT ![id].gpa = gpa] = [map EXCEPT ![id] = [map[id] EXCEPT !.gpa = gpa]]
    BY <1>1
  <2> HIDE DEF Students
  <2> QED
    BY <1>1, <2>1, <2>2
<1> QED
  BY <1>2, <1>4, <1>5

-----------------------------------------------------------------------------
(* The steps *)

(* Where the process is tells what it holds.                                 *)
LEMMA AtRun ==
  ASSUME IInv, phase = "run"
  PROVE  exit_code = NoCode /\ pending = <<>> /\ load = <<>> /\ db = promised
BY DEF IInv, Phases, InStep

(* A handler that calls nothing.                                             *)
LEMMA DismissStep ==
  ASSUME IInv, phase = "run", NEW kind, Dismiss(kind)
  PROVE  IInv'
<1>1. /\ command' = NoCommand /\ phase' = "run"
      /\ UNCHANGED <<eof, lines_read, pieces, exit_code, db, pending, error, load, saved, promised>>
  BY DEF Dismiss, Continue, input, store
<1>2. Inputs' /\ Clean'
  BY <1>1 DEF IInv, Inputs, Clean
<1>3. Phases' /\ InStep'
  BY <1>1 DEF IInv, Phases, InStep, CleanExitSaved
<1> QED
  BY <1>2, <1>3 DEF IInv

(* A batch file that is given up.                                            *)
LEMMA AbandonStep ==
  ASSUME IInv, phase = "load", NEW message, Abandon(message)
  PROVE  IInv'
<1>1. /\ command' = NoCommand /\ phase' = "run" /\ load' = <<>>
      /\ UNCHANGED <<eof, lines_read, pieces, exit_code, db, pending, error, saved, promised>>
  BY DEF Abandon, Continue, input, store
<1>2. Inputs' /\ Clean'
  BY <1>1 DEF IInv, Inputs, Clean
<1>3. Phases' /\ InStep'
  BY <1>1 DEF IInv, Phases, InStep, CleanExitSaved
<1> QED
  BY <1>2, <1>3 DEF IInv

(* A command that calls the engine once: what it changes of the database it  *)
(* promises exactly when the engine answers "OK".                            *)
LEMMA CallStep ==
  ASSUME IInv, phase = "run", Continue,
         UNCHANGED <<pending, load, saved>>,
         db' \in WrittenMaps, promised' = db',
         error' \notin {"INVALID_ID", "INVALID_GPA", "INVALID_NAME"}
  PROVE  IInv'
<1>1. /\ command' = NoCommand /\ phase' = "run"
      /\ UNCHANGED <<eof, lines_read, pieces, exit_code>>
  BY DEF Continue, input
<1>2. Inputs' /\ Clean'
  BY <1>1 DEF IInv, Inputs, Clean
<1>3. Phases' /\ InStep'
  BY <1>1, AtRun DEF IInv, Phases, InStep, CleanExitSaved, NoCode
<1> QED
  BY <1>2, <1>3 DEF IInv

(* A find changes nothing.                                                   *)
LEMMA FindStep ==
  ASSUME IInv, HandleFind
  PROVE  IInv'
<1>1. /\ phase = "run" /\ command.id \in Ids
  BY Checked, CommandTyped
     DEF HandleFind, Usable, Handling, IsUsable, IInv, Inputs, NoCommand
<1>2. /\ error' = Store!IdError(command.id) /\ UNCHANGED <<db, pending>>
      /\ Continue /\ UNCHANGED <<load, saved, promised>>
  BY DEF HandleFind, Store!FindById, Store!Answers
<1>3. error' \notin {"INVALID_ID", "INVALID_GPA", "INVALID_NAME"}
  BY <1>1, <1>2 DEF Store!IdError
<1> QED
  BY <1>1, <1>2, <1>3, AtRun, CallStep DEF IInv, Clean

(* A delete that is reported as done is one that the store made.             *)
LEMMA DeleteStep ==
  ASSUME IInv, HandleDelete
  PROVE  IInv'
<1>1. phase = "run" /\ command.id \in Ids /\ db = promised
  BY Checked, CommandTyped, AtRun
     DEF HandleDelete, Usable, Handling, IsUsable, IInv, Inputs, NoCommand
<1>2. /\ error' = Store!IdError(command.id) /\ UNCHANGED pending
      /\ db' = IF error' = "OK" THEN [db EXCEPT ![command.id] = Absent] ELSE db
      /\ Report /\ Promise([promised EXCEPT ![command.id] = Absent])
      /\ Continue /\ UNCHANGED <<load, saved>>
  BY DEF HandleDelete, Store!DeleteById, Store!Answers
<1>3. promised' = db'
  BY <1>1, <1>2 DEF Report, Promise, Say, Message
<1>4. error' \notin {"INVALID_ID", "INVALID_GPA", "INVALID_NAME"}
  BY <1>1, <1>2 DEF Store!IdError
<1>5. db' \in WrittenMaps
  BY <1>1, <1>2, ChangedTyped DEF IInv, Clean
<1> QED
  BY <1>1, <1>2, <1>3, <1>4, <1>5, CallStep

(* A name that is reported as changed is one that the store changed.         *)
LEMMA UpdateNameStep ==
  ASSUME IInv, HandleUpdateName
  PROVE  IInv'
<1>1. phase = "run" /\ command.id \in Ids /\ command.name \in Names /\ db = promised
  BY Checked, CommandTyped, AtRun
     DEF HandleUpdateName, Usable, Handling, IsUsable, IsValidName, IInv, Inputs, NoCommand
<1>2. /\ error' = Store!IdError(command.id) /\ UNCHANGED pending
      /\ db' = IF error' = "OK" THEN [db EXCEPT ![command.id].name = command.name] ELSE db
      /\ Report /\ Promise([promised EXCEPT ![command.id].name = command.name])
      /\ Continue /\ UNCHANGED <<load, saved>>
  BY <1>1 DEF HandleUpdateName, Store!UpdateName, Store!Answers
<1>3. promised' = db'
  BY <1>1, <1>2 DEF Report, Promise, Say, Message
<1>4. error' \notin {"INVALID_ID", "INVALID_GPA", "INVALID_NAME"}
  BY <1>1, <1>2 DEF Store!IdError
<1>5. error' = "OK" => db[command.id] # Absent
  BY <1>1, <1>2 DEF Store!IdError, Store!Fresh
<1>6. db' \in WrittenMaps
  BY <1>1, <1>2, <1>5, ChangedTyped DEF IInv, Clean
<1> QED
  BY <1>1, <1>2, <1>3, <1>4, <1>6, CallStep

(* A grade that is reported as changed is one that the store changed.        *)
LEMMA UpdateGpaStep ==
  ASSUME IInv, HandleUpdateGpa
  PROVE  IInv'
<1>1. /\ phase = "run" /\ command.id \in Ids /\ command.gpa \in CleanGpas
      /\ command.gpa \in EngineGpas /\ db = promised
  BY Checked, CommandTyped, AtRun
     DEF HandleUpdateGpa, Usable, Handling, IsUsable, IInv, Inputs, NoCommand
<1>2. /\ error' \in {Store!IdError(command.id), "ALLOCATION_FAILED"} /\ UNCHANGED pending
      /\ db' = IF error' = "OK" THEN [db EXCEPT ![command.id].gpa = command.gpa] ELSE db
      /\ Report /\ Promise([promised EXCEPT ![command.id].gpa = command.gpa])
      /\ Continue /\ UNCHANGED <<load, saved>>
  BY <1>1 DEF HandleUpdateGpa, Store!UpdateGpa, Store!Answers
<1>3. promised' = db'
  BY <1>1, <1>2 DEF Report, Promise, Say, Message
<1>4. error' \notin {"INVALID_ID", "INVALID_GPA", "INVALID_NAME"}
  BY <1>1, <1>2 DEF Store!IdError
<1>5. error' = "OK" => db[command.id] # Absent
  BY <1>1, <1>2 DEF Store!IdError, Store!Fresh
<1>6. db' \in WrittenMaps
  BY <1>1, <1>2, <1>5, ChangedTyped DEF IInv, Clean
<1> QED
  BY <1>1, <1>2, <1>3, <1>4, <1>6, CallStep

(* A batch of clean records is handed to the engine, which can refuse it for *)
(* a duplicate only.                                                         *)
LEMMA SubmitStep ==
  ASSUME IInv, phase \in {"run", "load"}, NEW records \in Seq(CleanRecords), Submit(records),
         load' = <<>>, UNCHANGED <<saved, promised>>
  PROVE  IInv'
<1>1. /\ UNCHANGED <<eof, lines_read, pieces, exit_code, db, saved, promised>> /\ load' = <<>>
      /\ exit_code = NoCode /\ pending = <<>> /\ db = promised
  BY DEF Submit, Continue, input, Store!RefuseBatch, Store!BeginInsert, IInv, Phases, InStep
<1>2. CASE Store!RefuseBatch(records) /\ Report /\ Continue
  <2>1. /\ command' = NoCommand /\ phase' = "run" /\ UNCHANGED pending
        /\ error' \in Store!RefuseReasons(records)
    BY <1>2 DEF Continue, Store!RefuseBatch
  <2>2. \A j \in DOMAIN records :
          records[j].id \in Ids /\ records[j].gpa \in EngineGpas /\ records[j].name \in Names
    <3>1. ASSUME NEW j \in DOMAIN records PROVE records[j] \in CleanRecords
      OBVIOUS
    <3> QED
      BY <3>1, Checked DEF CleanRecords
  <2>3. error' \notin {"INVALID_ID", "INVALID_GPA", "INVALID_NAME"}
    BY <2>1, <2>2 DEF Store!RefuseReasons
  <2>4. Inputs' /\ Clean'
    BY <1>1, <2>1, <2>3 DEF IInv, Inputs, Clean
  <2>5. Phases' /\ InStep'
    BY <1>1, <2>1 DEF IInv, Phases, InStep, CleanExitSaved
  <2> QED
    BY <2>4, <2>5 DEF IInv
<1>3. CASE Store!BeginInsert(records) /\ phase' = "insert" /\ command' = command
  <2>1. pending' = records /\ pending' # <<>> /\ error' = "OK"
    BY <1>3 DEF Store!BeginInsert, Store!Answers
  <2>2. Inputs' /\ Clean'
    BY <1>1, <1>3, <2>1 DEF IInv, Inputs, Clean
  <2>3. Phases' /\ InStep'
    BY <1>1, <1>3, <2>1 DEF IInv, Phases, InStep, CleanExitSaved
  <2> QED
    BY <2>2, <2>3 DEF IInv
<1> QED
  BY <1>2, <1>3 DEF Submit, input

(* The shell submits one checked record.                                     *)
LEMMA InsertStep ==
  ASSUME IInv, HandleInsert
  PROVE  IInv'
<1>1. phase = "run" /\ load = <<>>
  BY AtRun DEF HandleInsert, Usable, Handling
<1>2. command \in Commands /\ command.type = "insert" /\ IsRecord(command)
  BY DEF HandleInsert, Usable, Handling, IsUsable, IInv, Inputs, NoCommand
<1>3. RecordOf(command) \in CleanRecords
  BY <1>2, Checked, CommandTyped DEF IsRecord, IsValidName, RecordOf, CleanRecords
<1>4. <<RecordOf(command)>> \in Seq(CleanRecords)
  BY <1>3
<1>5. Submit(<<RecordOf(command)>>) /\ load' = <<>> /\ UNCHANGED <<saved, promised>>
  BY <1>1 DEF HandleInsert
<1> HIDE DEF HandleInsert
<1> QED
  BY <1>1, <1>4, <1>5, SubmitStep

(* The shell submits the records of a file that passed to its last line.     *)
LEMMA SubmitBatchStep ==
  ASSUME IInv, SubmitBatch
  PROVE  IInv'
<1>1. phase = "load" /\ load \in Loads
  BY DEF SubmitBatch, IInv, Inputs, Phases
<1>2. load.records \in Seq(CleanRecords)
  BY <1>1 DEF Loads
<1> QED
  BY <1>1, <1>2, SubmitStep DEF SubmitBatch

(* The whole batch is there and promised, or none of it is.                  *)
LEMMA EndInsertStep ==
  ASSUME IInv, EndInsert
  PROVE  IInv'
<1>1. /\ phase = "insert" /\ exit_code = NoCode /\ load = <<>> /\ db = promised
      /\ db \in WrittenMaps /\ pending \in Seq(CleanRecords)
  BY DEF EndInsert, IInv, Phases, InStep, Clean
<1>2. /\ command' = NoCommand /\ phase' = "run" /\ pending' = <<>>
      /\ UNCHANGED <<eof, lines_read, pieces, exit_code, load, saved>>
      /\ error' \in {"OK", "ALLOCATION_FAILED"}
  BY DEF EndInsert, Continue, input, Store!FinishInsert, Store!UndoInsert, Store!Answers
<1>3. db' = IF error' = "OK" THEN WithRecords(db, pending) ELSE db
  BY DEF EndInsert, Store!FinishInsert, Store!UndoInsert, Store!Answers, WithRecords
<1>4. promised' = db'
  BY <1>1, <1>3 DEF EndInsert, Report, Promise, Say, Message
<1>5. db' \in WrittenMaps
  BY <1>1, <1>3, WithRecordsTyped
<1>6. Inputs'
  BY <1>2 DEF IInv, Inputs
<1>7. Clean'
  BY <1>2, <1>4, <1>5 DEF IInv, Clean
<1>8. Phases' /\ InStep'
  BY <1>1, <1>2, <1>4 DEF IInv, Phases, InStep, CleanExitSaved, NoCode
<1> QED
  BY <1>6, <1>7, <1>8 DEF IInv

(* main: the file is booted, or the process ends before any command.         *)
LEMMA MainSteps ==
  ASSUME IInv, MainStep
  PROVE  IInv'
<1>1. CASE RefuseArguments \/ FailBoot
  <2>1. /\ phase = "boot" /\ phase' = "exited" /\ exit_code' = 1
        /\ UNCHANGED <<eof, lines_read, pieces, command, load, saved, promised, db, pending>>
        /\ error' \notin {"INVALID_ID", "INVALID_GPA", "INVALID_NAME"}
    BY <1>1 DEF RefuseArguments, FailBoot, Exit, store, input, Store!FailBoot, IInv, Clean
  <2>2. Inputs' /\ Clean'
    BY <2>1 DEF IInv, Inputs, Clean
  <2>3. Phases' /\ InStep'
    BY <2>1 DEF IInv, Phases, InStep, CleanExitSaved, NoCode
  <2> QED
    BY <2>2, <2>3 DEF IInv
<1>2. CASE Boot
  <2>1. /\ phase = "boot" /\ phase' = "run" /\ db' \in Contents /\ saved' = db' /\ promised' = db'
        /\ UNCHANGED <<eof, lines_read, pieces, command, load, exit_code, pending>>
        /\ error' = "OK"
    BY <1>2 DEF Boot, input, Store!Boot, Store!Answers
  <2>2. Inputs' /\ Clean'
    BY <2>1, ContentsAssumption DEF IInv, Inputs, Clean
  <2>3. Phases' /\ InStep'
    BY <2>1 DEF IInv, Phases, InStep, CleanExitSaved
  <2> QED
    BY <2>2, <2>3 DEF IInv
<1> QED
  BY <1>1, <1>2 DEF MainStep

(* fgets returns a piece, or the input ends.                                 *)
LEMMA ReadSteps ==
  ASSUME IInv, ReadLine \/ ReadPiece \/ InputEnds
  PROVE  IInv'
<1>1. UNCHANGED <<db, pending, error, phase, load, exit_code, saved, promised>>
  BY DEF ReadLine, ReadPiece, InputEnds, store
<1>2. (command' = command \/ command' \in Commands) /\ pieces' \in Seq(Commands)
  <2>1. CASE ReadLine
    <3>1. PICK line \in Lines : command' = Head(line) /\ pieces' = Tail(line)
      BY <2>1 DEF ReadLine
    <3>2. line \in Seq(Commands) /\ line # <<>>
      BY LineAssumption
    <3> QED
      BY <3>1, <3>2
  <2>2. CASE ReadPiece
    BY <2>2 DEF ReadPiece, IInv, Inputs
  <2>3. CASE InputEnds
    BY <2>3 DEF InputEnds, IInv, Inputs
  <2> QED
    BY <2>1, <2>2, <2>3
<1>3. lines_read' \in 0 .. MaxLines
  BY BoundAssumption DEF ReadLine, ReadPiece, InputEnds, IInv, Phases
<1>4. Inputs' /\ Clean'
  BY <1>1, <1>2 DEF IInv, Inputs, Clean
<1>5. Phases' /\ InStep'
  BY <1>1, <1>3 DEF IInv, Phases, InStep, CleanExitSaved
<1> QED
  BY <1>4, <1>5 DEF IInv

(* What is left of a line that was longer than a piece.                      *)
LEMMA LongerTail ==
  ASSUME NEW S, NEW s \in Seq(S), s # <<>>, Len(s) # 1
  PROVE  Tail(s) \in Seq(S) \ {<<>>}
<1>1. PICK t \in Seq(S) : t = Tail(s) /\ Len(t) = Len(s) - 1
  BY HeadTailProperties
<1>2. Len(s) \in Nat \ {0, 1}
  BY EmptySeq
<1>3. Len(t) # 0
  BY <1>1, <1>2
<1>4. t # <<>>
  BY <1>3, EmptySeq
<1> QED
  BY <1>1, <1>4

(* The rows ahead, when one has been read, are rows.                         *)
LEMMA RowTyped ==
  ASSUME IInv, RowIsNext
  PROVE  /\ load \in Loads /\ Row \in Rows /\ RestOfLines \in Files
         /\ load.records \in Seq(CleanRecords) /\ load.capacity \in Nat /\ load.line_number \in Nat
<1>1. load \in Loads
  BY DEF RowIsNext, IInv, Inputs, Phases
<1>2. load.lines \in Seq(Seq(Rows) \ {<<>>}) /\ load.lines # <<>>
  BY <1>1 DEF RowIsNext, Loads, Files
<1>3. Head(load.lines) \in Seq(Rows) /\ Head(load.lines) # <<>>
  BY <1>2
<1>4. Row \in Rows
  BY <1>3 DEF Row
<1>5. Tail(load.lines) \in Seq(Seq(Rows) \ {<<>>})
  BY <1>2
<1>6. ASSUME Len(Head(load.lines)) # 1
      PROVE  <<Tail(Head(load.lines))>> \in Seq(Seq(Rows) \ {<<>>})
  <2>1. Tail(Head(load.lines)) \in Seq(Rows) \ {<<>>}
    BY <1>3, <1>6, LongerTail
  <2> QED
    BY <2>1
<1>7. RestOfLines \in Files
  <2> DEFINE rest == <<Tail(Head(load.lines))>>
  <2>1. Len(Head(load.lines)) # 1 => rest \o Tail(load.lines) \in Files
    <3> SUFFICES ASSUME Len(Head(load.lines)) # 1
                 PROVE  rest \o Tail(load.lines) \in Files
      OBVIOUS
    <3>1. rest \in Files /\ Tail(load.lines) \in Files
      BY <1>5, <1>6 DEF Files
    <3> HIDE DEF rest
    <3> QED
      BY <3>1, ConcatProperties DEF Files
  <2> QED
    BY <1>5, <2>1 DEF RestOfLines, Files
<1> QED
  BY <1>1, <1>4, <1>7 DEF Loads

(* The file is opened, and its rows are read one after the other.            *)
LEMMA LoadSteps ==
  ASSUME IInv, OpenBatch \/ SkipRow \/ LoadRow
  PROVE  IInv'
<1>1. /\ phase \in {"run", "load"} /\ phase' = "load"
      /\ UNCHANGED <<db, pending, error, eof, lines_read, pieces, command, exit_code, saved, promised>>
  BY DEF OpenBatch, SkipRow, LoadRow, GoodRowIsNext, RowIsNext, Usable, Handling, store, input
<1>2. load' \in Loads
  <2>1. CASE OpenBatch
    <3>1. command.file \in Files
      BY <2>1, CommandTyped DEF OpenBatch, Usable, Handling, IsUsable, IInv, Inputs, NoCommand
    <3> QED
      BY <2>1, <3>1, CapacityAssumption DEF OpenBatch, Loads
  <2>2. CASE SkipRow
    <3>1. RowIsNext
      BY <2>2 DEF SkipRow
    <3>2. load \in Loads /\ RestOfLines \in Files /\ load.line_number \in Nat
      BY <3>1, RowTyped
    <3>3. load.line_number + 1 \in Nat /\ load' = [load EXCEPT !.lines = RestOfLines,
                                                           !.line_number = load.line_number + 1]
      BY <2>2, <3>2 DEF SkipRow
    <3> QED
      BY <3>2, <3>3 DEF Loads
  <2>3. CASE LoadRow
    <3>1. RowIsNext /\ Row # Blank /\ IsRecord(Row)
      BY <2>3 DEF LoadRow, GoodRowIsNext
    <3>2. /\ RecordOf(Row) \in CleanRecords /\ load.records \in Seq(CleanRecords)
          /\ RestOfLines \in Files /\ load.capacity \in Nat /\ load.line_number \in Nat
      BY <3>1, RowTyped, Checked
    <3>3. Append(load.records, RecordOf(Row)) \in Seq(CleanRecords)
      BY <3>2
    <3>4. PICK capacity \in Nat :
            load' = [lines       |-> RestOfLines,
                     records     |-> Append(load.records, RecordOf(Row)),
                     capacity    |-> capacity,
                     line_number |-> load.line_number + 1]
      <4>1. 2 * load.capacity \in Nat
        BY <3>2
      <4> QED
        BY <2>3, <3>2, <4>1 DEF LoadRow
    <3> QED
      BY <3>2, <3>3, <3>4 DEF Loads
  <2> QED
    BY <2>1, <2>2, <2>3
<1>3. load' # <<>>
  <2>1. ASSUME NEW l \in Loads PROVE l # <<>>
    <3>1. DOMAIN l = {"lines", "records", "capacity", "line_number"}
      BY DEF Loads
    <3>2. \A k \in DOMAIN <<>> : FALSE
      OBVIOUS
    <3> QED
      BY <3>1, <3>2
  <2> QED
    BY <1>2, <2>1
<1>4. Inputs' /\ Clean'
  BY <1>1, <1>2 DEF IInv, Inputs, Clean
<1>5. Phases' /\ InStep'
  BY <1>1, <1>3 DEF IInv, Phases, InStep, CleanExitSaved
<1> QED
  BY <1>4, <1>5 DEF IInv

(* The file holds what was promised when a save has answered "OK", and the   *)
(* process exits with 0 only after one that has.                             *)
LEMMA SaveSteps ==
  ASSUME IInv, HandleSave \/ HandleSaveExit \/ HandleEof
  PROVE  IInv'
<1>1. /\ phase = "run" /\ exit_code = NoCode /\ pending = <<>> /\ load = <<>> /\ db = promised
  BY AtRun DEF HandleSave, HandleSaveExit, HandleEof, Usable, Handling, AtEnd, AtPrompt
<1>2. /\ command' \in {command, NoCommand}
      /\ UNCHANGED <<eof, lines_read, pieces, load, promised, pending>>
      /\ error' \in {"OK", "FILE_IO"}
  BY DEF HandleSave, HandleSaveExit, HandleEof, Continue, Store!Save, Store!Shutdown,
         Store!RefuseShutdown, Store!Answers, input
<1>3. /\ db' \in {db, Store!EmptyDb} /\ saved' \in {db, InDoubt}
      /\ \/ phase' = "run" /\ exit_code' = exit_code /\ db' = db
         \/ phase' = "exited" /\ exit_code' = 1
         \/ phase' = "exited" /\ exit_code' = 0 /\ saved' = db
  BY DEF HandleSave, HandleSaveExit, HandleEof, Continue, Exit, Store!Save, Store!Shutdown,
         Store!RefuseShutdown, Store!Answers
<1>4. Store!EmptyDb \in WrittenMaps
  BY DEF Store!EmptyDb, WrittenMaps
<1>5. Inputs' /\ Clean'
  BY <1>2, <1>3, <1>4 DEF IInv, Inputs, Clean
<1>6. Phases' /\ InStep'
  BY <1>1, <1>2, <1>3 DEF IInv, Phases, InStep, CleanExitSaved, NoCode
<1> QED
  BY <1>5, <1>6 DEF IInv

-----------------------------------------------------------------------------
(* The invariant *)

(* Before main begins nothing was promised.                                  *)
THEOREM InitEstablishes == Init => IInv
<1> SUFFICES ASSUME Init PROVE IInv
  OBVIOUS
<1>1. Store!EmptyDb \in WrittenMaps
  BY DEF Store!EmptyDb, WrittenMaps
<1>2. db = Store!EmptyDb /\ promised = Store!EmptyDb /\ saved = InDoubt /\ pending = <<>> /\ error = "OK"
  BY DEF Init, Store!Init
<1>3. Inputs
  BY DEF Init, Inputs
<1>4. Phases
  BY <1>2, BoundAssumption DEF Init, Phases
<1>5. Clean
  BY <1>1, <1>2 DEF Clean
<1>6. InStep
  BY <1>2 DEF Init, InStep, CleanExitSaved, NoCode
<1> QED
  BY <1>3, <1>4, <1>5, <1>6 DEF IInv

(* One case per handler of the shell and per return of main.                 *)
THEOREM NextPreserves == IInv /\ [Next]_vars => IInv'
<1> SUFFICES ASSUME IInv, [Next]_vars PROVE IInv'
  OBVIOUS
<1>1. CASE MainStep
  BY <1>1, MainSteps
<1>2. CASE ReadLine \/ ReadPiece \/ InputEnds
  BY <1>2, ReadSteps
<1>3. CASE HandleHelp \/ HandleUnknown \/ HandleEmpty \/ RefuseUsage \/ HandleRange \/ FailOpenBatch
  <2>1. phase = "run" /\ \E kind : Dismiss(kind)
    BY <1>3 DEF HandleHelp, HandleUnknown, HandleEmpty, RefuseUsage, HandleRange, FailOpenBatch,
                Usable, Handling
  <2> QED
    BY <2>1, DismissStep
<1>4. CASE HandleFind
  BY <1>4, FindStep
<1>5. CASE HandleDelete
  BY <1>5, DeleteStep
<1>6. CASE HandleUpdateName
  BY <1>6, UpdateNameStep
<1>7. CASE HandleUpdateGpa
  BY <1>7, UpdateGpaStep
<1>8. CASE HandleInsert
  BY <1>8, InsertStep
<1>9. CASE EndInsert
  BY <1>9, EndInsertStep
<1>10. CASE OpenBatch \/ SkipRow \/ LoadRow
  BY <1>10, LoadSteps
<1>11. CASE FailGrow \/ RefuseRow \/ FailRead \/ LoadNothing
  <2>1. phase = "load" /\ \E message : Abandon(message)
    BY <1>11 DEF FailGrow, RefuseRow, FailRead, LoadNothing, GoodRowIsNext, RowIsNext
  <2> QED
    BY <2>1, AbandonStep
<1>12. CASE SubmitBatch
  BY <1>12, SubmitBatchStep
<1>13. CASE HandleSave \/ HandleSaveExit \/ HandleEof
  BY <1>13, SaveSteps
<1>14. CASE UNCHANGED vars
  <2>1. UNCHANGED <<db, pending, error, phase, lines_read, pieces, command, load, exit_code,
                    saved, promised>>
    BY <1>14 DEF vars, store, input
  <2> QED
    BY <2>1 DEF IInv, Inputs, Phases, Clean, InStep, CleanExitSaved
<1> QED
  BY <1>1, <1>2, <1>3, <1>4, <1>5, <1>6, <1>7, <1>8, <1>9, <1>10, <1>11, <1>12, <1>13, <1>14
     DEF Next, ShellStep

(* The inductive invariant holds in every state.                             *)
THEOREM Invariance == Spec => []IInv
<1> QED
  BY InitEstablishes, NextPreserves, PTL DEF Spec

(* The process is at one place, with what it needs there: a batch in the     *)
(* engine exactly while it waits for it, an array of records exactly while   *)
(* it loads a file, an exit code exactly when it has ended.                  *)
THEOREM TypeCorrect == Spec => []TypeOK
<1>1. WrittenMaps \subseteq Maps
  BY DEF WrittenMaps, Maps
<1>2. IInv => TypeOK
  BY <1>1 DEF IInv, Phases, Clean, TypeOK
<1> QED
  BY <1>2, Invariance, PTL

(* Whatever the handlers of shell.c print between two prompts, the database  *)
(* is what the messages amount to, in any sequence of commands and failures. *)
THEOREM MessagesAreTrue == Spec => []MessagesTellTheDatabase
<1>1. IInv => MessagesTellTheDatabase
  BY DEF IInv, InStep, MessagesTellTheDatabase, AtPrompt
<1> QED
  BY <1>1, Invariance, PTL

(* shell_is_valid_gpa keeps the NaN that engine_validate_gpa would let pass  *)
(* (engine.c:1121) out of the database, also on the way over a batch file.   *)
THEOREM EngineGetsOnlyValid == Spec => []OnlyValidReachesEngine
<1>1. ASSUME IInv PROVE OnlyValidReachesEngine
  <2>1. \A id \in Ids : db[id] # Absent => db[id] \in [gpa : EngineGpas \ {NaN}, name : Names]
    BY <1>1 DEF IInv, Clean, WrittenMaps
  <2>2. \A id \in Ids : db[id] # Absent => db[id].gpa # NaN
    BY <2>1
  <2> QED
    BY <1>1, <2>2 DEF IInv, Clean, OnlyValidReachesEngine
<1> QED
  BY <1>1, Invariance, PTL

(* main returns 0 only behind a shutdown that has written everything that    *)
(* was reported done (shell.h).                                              *)
THEOREM CleanExit == Spec => []CleanExitSaved
<1>1. IInv => CleanExitSaved
  BY DEF IInv, InStep
<1> QED
  BY <1>1, Invariance, PTL

(* The program keeps the assumption it makes of its backing file             *)
(* (ContentsAssumption): what a save leaves in it is free of NaN again.      *)
THEOREM SavesWhatItCanBoot == Spec => [](saved # InDoubt => saved \in WrittenMaps)
<1>1. IInv => (saved # InDoubt => saved \in WrittenMaps)
  BY DEF IInv, Clean
<1> QED
  BY <1>1, Invariance, PTL

-----------------------------------------------------------------------------
(* Error lines *)

(* No line of a batch file is longer than the buffer of fgets.               *)
FitsBuffer(line) ==
  line.type = "insert_batch" /\ line.file \in Files => \A n \in DOMAIN line.file : Len(line.file[n]) = 1

(* What is left to read of a batch file begins behind line_number, and every *)
(* bad line is still to come.                                                *)
ReadTo(file, number, lines) ==
  /\ file \in Files
  /\ Len(file) = number + Len(lines)
  /\ \A i \in DOMAIN lines : lines[i] = file[number + i]
  /\ \A n \in BadLines(file) : n > number

InFile ==
  /\ \A k \in DOMAIN pieces : FitsBuffer(pieces[k])
  /\ FitsBuffer(command)
  /\ phase = "load" =>
       command.type = "insert_batch" /\ ReadTo(command.file, load.line_number, load.lines)

(* A step that does not load a file, and reads no line.                      *)
LEMMA ElsewhereInFile ==
  ASSUME InFile, pieces' = pieces, command' \in {command, NoCommand}, phase' # "load"
  PROVE  InFile'
<1>1. FitsBuffer(NoCommand)
  BY DEF FitsBuffer, NoCommand
<1>2. FitsBuffer(command')
  BY <1>1 DEF InFile
<1> QED
  BY <1>2 DEF InFile, FitsBuffer

(* A line read is one of the commands that the user enters.                  *)
LEMMA ReadInFile ==
  ASSUME IInv, InFile, ReadLine \/ ReadPiece,
         \A line \in Lines : \A k \in DOMAIN line : FitsBuffer(line[k])
  PROVE  InFile'
<1>1. phase' = "run"
  BY DEF ReadLine, ReadPiece, AtPrompt
<1>2. PICK line \in Seq(Commands) :
        /\ line # <<>> /\ \A k \in DOMAIN line : FitsBuffer(line[k])
        /\ command' = Head(line) /\ pieces' = Tail(line)
  <2>1. CASE ReadLine
    BY <2>1, LineAssumption DEF ReadLine
  <2>2. CASE ReadPiece
    BY <2>2 DEF ReadPiece, IInv, Inputs, InFile
  <2> QED
    BY <2>1, <2>2
<1>3. FitsBuffer(command')
  BY <1>2
<1>4. \A k \in DOMAIN pieces' : FitsBuffer(pieces'[k])
  <2>1. ASSUME NEW k \in 1 .. Len(Tail(line)) PROVE FitsBuffer(Tail(line)[k])
    <3>1. k + 1 \in DOMAIN line /\ Tail(line)[k] = line[k + 1]
      BY <1>2, <2>1
    <3> QED
      BY <1>2, <3>1
  <2>2. DOMAIN Tail(line) = 1 .. Len(Tail(line))
    BY <1>2
  <2> QED
    BY <1>2, <2>1, <2>2
<1> QED
  BY <1>1, <1>3, <1>4 DEF InFile, FitsBuffer

(* Where every line fits the buffer, the next row is the next line.          *)
LEMMA NextRow ==
  ASSUME IInv, InFile, RowIsNext
  PROVE  LET file == command.file
             number == load.line_number IN
         /\ number \in Nat /\ number + 1 \in DOMAIN file
         /\ file[number + 1] = <<Row>>
         /\ RestOfLines = Tail(load.lines)
<1> DEFINE file == command.file
           number == load.line_number
           lines == load.lines
<1>1. /\ phase = "load" /\ lines # <<>> /\ number \in Nat /\ lines \in Seq(Seq(Rows) \ {<<>>})
      /\ Row \in Rows
  BY RowTyped DEF RowIsNext, Loads, Files
<1>2. ReadTo(file, number, lines) /\ \A n \in DOMAIN file : Len(file[n]) = 1
  BY <1>1 DEF InFile, FitsBuffer, ReadTo
<1>3. file \in Seq(Seq(Rows) \ {<<>>}) /\ Len(file) = number + Len(lines)
  BY <1>2 DEF ReadTo, Files
<1>4. Row = Head(Head(lines)) /\ RestOfLines = IF Len(Head(lines)) = 1 THEN Tail(lines)
                                               ELSE <<Tail(Head(lines))>> \o Tail(lines)
  BY DEF Row, RestOfLines
<1> HIDE DEF file, number, lines
<1>5. 1 \in DOMAIN lines /\ number + 1 \in DOMAIN file
  BY <1>1, <1>3
<1>6. Head(lines) = file[number + 1] /\ Head(lines) \in Seq(Rows) /\ Len(Head(lines)) = 1
  BY <1>1, <1>2, <1>5 DEF ReadTo
<1>7. Head(lines) = <<Row>>
  BY <1>4, <1>6
<1> QED
  BY <1>1, <1>4, <1>5, <1>6, <1>7 DEF file, number, lines

(* A line that was good, or blank, is behind.                                *)
LEMMA RowInFile ==
  ASSUME IInv, InFile, SkipRow \/ LoadRow
  PROVE  InFile'
<1> DEFINE file == command.file
           number == load.line_number
           lines == load.lines
<1>1. /\ RowIsNext /\ (Row = Blank \/ IsRecord(Row))
      /\ UNCHANGED <<phase, pieces, command>>
  BY DEF SkipRow, LoadRow, GoodRowIsNext, input
<1>2. load'.lines = RestOfLines /\ load'.line_number = number + 1
  <2>1. load \in Loads
    BY <1>1, RowTyped
  <2>2. CASE SkipRow
    <3> DEFINE rest == RestOfLines
    <3>1. load' = [load EXCEPT !.lines = rest, !.line_number = number + 1]
      BY <2>2 DEF SkipRow
    <3> HIDE DEF rest, number
    <3>2. load'.lines = rest /\ load'.line_number = number + 1
      BY <2>1, <3>1 DEF Loads
    <3> QED
      BY <3>2 DEF rest
  <2>3. CASE LoadRow
    BY <2>3 DEF LoadRow
  <2> QED
    BY <2>2, <2>3
<1>3. /\ number \in Nat /\ number + 1 \in DOMAIN file /\ file[number + 1] = <<Row>>
      /\ RestOfLines = Tail(lines)
  BY <1>1, NextRow
<1>4. /\ phase = "load" /\ lines \in Seq(Seq(Rows) \ {<<>>}) /\ lines # <<>>
      /\ command.type = "insert_batch" /\ ReadTo(file, number, lines)
  BY <1>1, RowTyped DEF RowIsNext, InFile, Loads, Files
<1> HIDE DEF file, number, lines
<1>5. ReadTo(file, number + 1, Tail(lines))
  <2>1. file \in Files /\ Len(file) = number + Len(lines)
    BY <1>4 DEF ReadTo
  <2>2. Len(Tail(lines)) = Len(lines) - 1 /\ Len(lines) \in Nat
        /\ DOMAIN Tail(lines) = 1 .. Len(lines) - 1 /\ DOMAIN lines = 1 .. Len(lines)
    BY <1>4
  <2>3. Len(file) = number + 1 + Len(Tail(lines))
    <3> DEFINE rest == Len(Tail(lines))
    <3>1. rest = Len(lines) - 1
      BY <2>2
    <3> HIDE DEF rest
    <3>2. Len(file) = number + 1 + rest
      BY <1>3, <2>1, <2>2, <3>1
    <3> QED
      BY <3>2 DEF rest
  <2>4. ASSUME NEW i \in DOMAIN Tail(lines) PROVE Tail(lines)[i] = file[number + 1 + i]
    <3>1. i \in Nat /\ i + 1 \in DOMAIN lines /\ Tail(lines)[i] = lines[i + 1]
      BY <1>4, <2>2
    <3>2. lines[i + 1] = file[number + (i + 1)]
      BY <1>4, <3>1 DEF ReadTo
    <3>3. number + (i + 1) = number + 1 + i
      BY <1>3, <3>1
    <3> QED
      BY <3>1, <3>2, <3>3
  <2>5. ASSUME NEW n \in BadLines(file) PROVE n > number + 1
    <3>1. n > number /\ n \in DOMAIN file /\ n \in Nat
      BY <1>4, <2>1 DEF ReadTo, BadLines, Files
    <3>2. n # number + 1
      <4> SUFFICES ASSUME n = number + 1 PROVE FALSE
        OBVIOUS
      <4>1. PICK k \in DOMAIN file[number + 1] : file[number + 1][k] # Blank /\ ~IsRecord(file[number + 1][k])
        BY DEF BadLines
      <4>2. file[number + 1][k] = Row
        BY <1>3, <4>1
      <4> QED
        BY <1>1, <4>1, <4>2
    <3> QED
      BY <1>3, <3>1, <3>2
  <2> QED
    BY <2>1, <2>3, <2>4, <2>5 DEF ReadTo
<1>6. ReadTo(file, load'.line_number, load'.lines)
  BY <1>2, <1>3, <1>5
<1> QED
  BY <1>1, <1>4, <1>6 DEF InFile, FitsBuffer, file

(* Before its first line is read, every line is to come.                     *)
LEMMA OpenInFile ==
  ASSUME IInv, InFile, OpenBatch
  PROVE  InFile'
<1> DEFINE file == command.file
<1>1. /\ command.type = "insert_batch" /\ load'.lines = file /\ load'.line_number = 0
      /\ UNCHANGED <<pieces, command>>
  BY DEF OpenBatch, Usable, Handling, input
<1>2. file \in Files
  BY CommandTyped DEF OpenBatch, Usable, Handling, IsUsable, IInv, Inputs, NoCommand
<1> HIDE DEF file
<1>3. DOMAIN file = 1 .. Len(file) /\ Len(file) \in Nat
  BY <1>2 DEF Files
<1>4. \A n \in BadLines(file) : n > 0
  BY <1>3 DEF BadLines
<1>5. ReadTo(file, 0, file)
  BY <1>2, <1>3, <1>4 DEF ReadTo
<1> QED
  BY <1>1, <1>5 DEF InFile, FitsBuffer, file

(* The place in the file is kept by every action.                            *)
THEOREM NextInFile ==
  ASSUME \A line \in Lines : \A k \in DOMAIN line : FitsBuffer(line[k])
  PROVE  IInv /\ InFile /\ [Next]_vars => InFile'
<1> SUFFICES ASSUME IInv, InFile, [Next]_vars PROVE InFile'
  OBVIOUS
<1>1. CASE ReadLine \/ ReadPiece
  BY <1>1, ReadInFile
<1>2. CASE OpenBatch
  BY <1>2, OpenInFile
<1>3. CASE SkipRow \/ LoadRow
  BY <1>3, RowInFile
<1>4. CASE InputEnds \/ UNCHANGED vars
  <2>1. UNCHANGED <<phase, pieces, command, load>>
    BY <1>4 DEF InputEnds, vars, input
  <2> QED
    BY <2>1 DEF InFile, FitsBuffer, ReadTo
<1>5. CASE MainStep
  <2>1. pieces' = pieces /\ command' = command /\ phase' \in {"run", "exited"}
    BY <1>5 DEF MainStep, RefuseArguments, Boot, FailBoot, Exit, input
  <2> QED
    BY <2>1, ElsewhereInFile
<1>6. CASE \/ HandleHelp \/ HandleUnknown \/ HandleEmpty \/ RefuseUsage \/ HandleRange \/ FailOpenBatch
           \/ HandleFind \/ HandleDelete \/ HandleUpdateName \/ HandleUpdateGpa
  <2>1. pieces' = pieces /\ command' = NoCommand /\ phase' = "run"
    BY <1>6 DEF HandleHelp, HandleUnknown, HandleEmpty, RefuseUsage, HandleRange, FailOpenBatch,
                HandleFind, HandleDelete, HandleUpdateName, HandleUpdateGpa, Dismiss, Continue, input
  <2> QED
    BY <2>1, ElsewhereInFile
<1>7. CASE HandleInsert \/ EndInsert \/ SubmitBatch
  <2>1. pieces' = pieces /\ command' \in {command, NoCommand} /\ phase' \in {"run", "insert"}
    BY <1>7 DEF HandleInsert, EndInsert, SubmitBatch, Submit, Continue, input
  <2> QED
    BY <2>1, ElsewhereInFile
<1>8. CASE FailGrow \/ RefuseRow \/ FailRead \/ LoadNothing
  <2>1. pieces' = pieces /\ command' = NoCommand /\ phase' = "run"
    BY <1>8 DEF FailGrow, RefuseRow, FailRead, LoadNothing, Abandon, Continue, input
  <2> QED
    BY <2>1, ElsewhereInFile
<1>9. CASE HandleSave \/ HandleSaveExit \/ HandleEof
  <2>1. pieces' = pieces /\ command' \in {command, NoCommand} /\ phase' \in {"run", "exited"}
    BY <1>9 DEF HandleSave, HandleSaveExit, HandleEof, Continue, Exit, input
  <2> QED
    BY <2>1, ElsewhereInFile
<1> QED
  BY <1>1, <1>2, <1>3, <1>4, <1>5, <1>6, <1>7, <1>8, <1>9 DEF Next, ShellStep

(* As long as no line of a batch file is longer than the buffer, the message *)
(* about a row names the first bad line, blank lines counted and whatever    *)
(* was loaded before (shell.c:1362).                                         *)
THEOREM ErrorsNameTheirLine ==
  ASSUME \A line \in Lines : \A k \in DOMAIN line : FitsBuffer(line[k])
  PROVE  Spec => ErrorLineIsBad
<1> DEFINE Refused == phase = "load" /\ phase' = "run" /\ printed'.kind = "row" /\ printed'.line # 0
           Named == /\ printed'.line \in BadLines(command.file)
                    /\ \A n \in BadLines(command.file) : n >= printed'.line
<1>1. Init => InFile
  BY DEF Init, InFile, FitsBuffer, NoCommand
<1>2. IInv /\ InFile /\ [Next]_vars => InFile'
  BY NextInFile
<1>3. ASSUME IInv, InFile, [Next]_vars, Refused PROVE Named
  <2>1. RefuseRow
    <3>1. phase = "load" /\ phase' = "run"
      BY <1>3
    <3>2. CASE SubmitBatch
      <4>1. printed'.kind \in {"done", "engine_error"}
        BY <3>1, <3>2 DEF SubmitBatch, Submit, Report, Say, Message
      <4> QED
        BY <1>3, <4>1
    <3>3. CASE FailGrow \/ LoadNothing \/ FailRead
      <4>1. printed' \in {Message("no_memory"), Message("none_loaded"), [kind |-> "row", line |-> 0]}
        BY <3>3 DEF FailGrow, LoadNothing, FailRead, Abandon
      <4> QED
        BY <1>3, <4>1 DEF Message
    <3>4. CASE \/ UNCHANGED vars \/ InputEnds \/ SkipRow \/ LoadRow
      BY <3>1, <3>4 DEF vars, InputEnds, SkipRow, LoadRow
    <3>5. CASE \/ ReadLine \/ ReadPiece \/ HandleEof \/ MainStep
      BY <3>1, <3>5 DEF ReadLine, ReadPiece, HandleEof, AtEnd, AtPrompt, MainStep, RefuseArguments,
                        Boot, FailBoot
    <3>6. CASE \/ HandleHelp \/ HandleUnknown \/ HandleEmpty \/ RefuseUsage \/ HandleFind \/ HandleDelete
               \/ HandleUpdateName \/ HandleUpdateGpa \/ HandleRange \/ HandleInsert \/ EndInsert
               \/ OpenBatch \/ FailOpenBatch \/ HandleSave \/ HandleSaveExit
      BY <3>1, <3>6 DEF HandleHelp, HandleUnknown, HandleEmpty, RefuseUsage, HandleFind, HandleDelete,
                        HandleUpdateName, HandleUpdateGpa, HandleRange, HandleInsert, EndInsert,
                        OpenBatch, FailOpenBatch, HandleSave, HandleSaveExit, Usable, Handling
    <3> QED
      BY <1>3, <3>2, <3>3, <3>4, <3>5, <3>6 DEF Next, ShellStep
  <2> DEFINE file == command.file
             number == load.line_number
  <2>2. RowIsNext /\ Row # Blank /\ ~IsRecord(Row) /\ printed' = [kind |-> "row", line |-> number + 1]
    BY <2>1 DEF RefuseRow, Abandon
  <2>3. number \in Nat /\ number + 1 \in DOMAIN file /\ file[number + 1] = <<Row>>
    BY <1>3, <2>2, NextRow
  <2>4. file \in Files /\ \A n \in BadLines(file) : n > number
    BY <1>3, <2>2 DEF RowIsNext, InFile, ReadTo
  <2> HIDE DEF file, number
  <2>5. number + 1 \in BadLines(file)
    <3>1. 1 \in DOMAIN file[number + 1] /\ file[number + 1][1] = Row
      BY <2>3
    <3> QED
      BY <2>2, <2>3, <3>1 DEF BadLines
  <2>6. \A n \in BadLines(file) : n >= number + 1
    <3>1. \A n \in BadLines(file) : n \in Nat
      BY <2>4 DEF BadLines, Files
    <3> QED
      BY <2>3, <2>4, <3>1
  <2> QED
    BY <2>2, <2>5, <2>6 DEF file, number
<1>4. Spec => [](IInv /\ InFile)
  BY <1>1, <1>2, InitEstablishes, NextPreserves, PTL DEF Spec
<1>5. IInv /\ InFile /\ [Next]_vars => [Refused => Named]_vars
  BY <1>3
<1> QED
  BY <1>4, <1>5, PTL DEF Spec, ErrorLineIsBad
================================================================================

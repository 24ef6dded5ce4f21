------------------------- MODULE Migrations_proofs -------------------------
(***************************************************************************)
(* Proofs about Migrations: what the version of a database promises, and   *)
(* when a start fails, for any number of processes and starts.             *)
(***************************************************************************)
EXTENDS Migrations, TLAPS

Alter == {i \in Structure : Script[i].kind = "alter"}

(* The statements that lead to this version or an earlier one are applied. *)
Reached(v) == \A i \in Structure : Script[i].version <= v => i \in applied

(* What a process has behind it is applied, and so is what it takes for    *)
(* granted since it has read the version.                                  *)
Traced(p) ==
  /\ proc[p].pc \in {"insert", "run"} => 1 \in applied
  /\ proc[p].pc = "run" =>
       /\ Reached(proc[p].actual)
       /\ \A i \in Structure : i < proc[p].at => i \in applied

InOrder == TypeOK /\ Reached(version) /\ \A p \in Process : Traced(p)

(* As long as nothing was interrupted or met another one, the columns are  *)
(* exactly those of the version, and of the statements that the one        *)
(* process that migrates has behind it.                                    *)
Exactly(v) == \A i \in Alter : i \in applied <=> Script[i].version <= v
Halfway(p) ==
  /\ proc[p].row
  /\ \A i \in Alter : i \in applied <=> Script[i].version <= proc[p].actual \/ i < proc[p].at
Smooth ==
  /\ \A p \in Process : proc[p].pc # "fatal"
  /\ \A p, q \in Process : Migrating(p) /\ Migrating(q) => p = q
  /\ (\A p \in Process : proc[p].pc # "run") => Exactly(version)
  /\ \A p \in Process : proc[p].pc = "insert" => version = NoVersion
  /\ \A p \in Process : proc[p].pc = "run" => Halfway(p)
Undisturbed == ~disturbed => Smooth
-----------------------------------------------------------------------------
(* The statements: eleven, the first creates the tables, and each leads to *)
(* a version that exists.                                                  *)
LEMMA Statements ==
  /\ Len(Script) = 11 /\ Steps = 1..11
  /\ Script[1].kind = "create"
  /\ \A i \in Steps : Script[i].version \in 1..CurrentSqlVersion
<1>1. Len(Script) = 11 /\ Steps = 1..11
  BY DEF Script, Steps
<1>2. Script[1].kind = "create"
  BY DEF Script, Statement
<1>3. \A i \in 1..11 : Script[i].version \in 1..CurrentSqlVersion
  <2> SUFFICES ASSUME NEW i \in 1..11  PROVE Script[i].version \in 1..6
    BY DEF CurrentSqlVersion
  <2>1. \/ i = 1 \/ i = 2 \/ i = 3 \/ i = 4 \/ i = 5 \/ i = 6
        \/ i = 7 \/ i = 8 \/ i = 9 \/ i = 10 \/ i = 11
    OBVIOUS
  <2> QED BY <2>1 DEF Script, Statement
<1> QED BY <1>1, <1>2, <1>3

(* The first statement creates tables, and alters none.                    *)
LEMMA FirstStatement == 1 \in Structure \ Alter /\ Structure \subseteq Nat /\ Structure \subseteq Steps
BY Statements DEF Structure, Alter

(* The ways in which a step changes a process.                             *)
Becomes(p, q) == proc' = [x \in Process |-> IF x = p THEN q ELSE proc[x]]

(* Only the process that takes a step changes.                             *)
LEMMA Becoming ==
  ASSUME TypeOK, NEW p \in Process, NEW q \in ProcessState, Becomes(p, q)
  PROVE  /\ proc' \in [Process -> ProcessState] /\ proc'[p] = q
         /\ \A x \in Process \ {p} : proc'[x] = proc[x]
BY DEF TypeOK, Becomes

(* What each step makes of its process.                                    *)
LEMMA Changes ==
  ASSUME TypeOK, NEW p \in Process
  PROVE  /\ \A pc : Goto(p, pc) => Becomes(p, [proc[p] EXCEPT !.pc = pc])
         /\ \A q : proc' = [proc EXCEPT ![p] = q] => Becomes(p, q)
         /\ proc' = Advance(p) => Becomes(p, [proc[p] EXCEPT !.at = @ + 1])
BY DEF TypeOK, Goto, Becomes, Advance

(* The names of the places where a process may be.                         *)
LEMMA PCs == {"off", "read", "insert", "run", "open", "fatal"} \subseteq PC
BY DEF PC

(* A process that is not running, and one that starts.                     *)
LEMMA Starting == Off \in ProcessState /\ [Off EXCEPT !.pc = "read"] \in ProcessState
<1>1. 0 \in Version /\ 1 \in 1..Len(Script) + 1
  BY Statements DEF Version, CurrentSqlVersion
<1> QED BY <1>1, PCs DEF Off, ProcessState

(* A process moves on: where to, and what it knows.                        *)
LEMMA Moves ==
  ASSUME NEW q \in ProcessState
  PROVE  /\ \A pc \in PC : /\ [q EXCEPT !.pc = pc] \in ProcessState
                           /\ [q EXCEPT !.pc = pc].pc = pc
                           /\ [q EXCEPT !.pc = pc].actual = q.actual
                           /\ [q EXCEPT !.pc = pc].row = q.row
                           /\ [q EXCEPT !.pc = pc].at = q.at
         /\ q.at \in Steps => [q EXCEPT !.at = @ + 1] \in ProcessState
         /\ [q EXCEPT !.at = @ + 1].pc = q.pc
         /\ [q EXCEPT !.at = @ + 1].actual = q.actual
         /\ [q EXCEPT !.at = @ + 1].row = q.row
         /\ [q EXCEPT !.at = @ + 1].at = q.at + 1
<1>1. q.at \in Steps => q.at + 1 \in 1..Len(Script) + 1
  BY Statements
<1> QED BY <1>1 DEF ProcessState

(* A process that begins with the migrations.                              *)
Running(v, row) == [pc |-> "run", actual |-> v, row |-> row, at |-> 2]
LEMMA Begins ==
  ASSUME NEW v \in Version, NEW row \in BOOLEAN
  PROVE  Running(v, row) \in ProcessState
<1>1. 2 \in 1..Len(Script) + 1
  BY Statements
<1> QED BY <1>1, PCs DEF Running, ProcessState

(* Steps that neither change the version nor take anything away keep the   *)
(* order, as long as it fits the process that took them.                   *)
LEMMA OrderStays ==
  ASSUME InOrder, NEW p \in Process, NEW q \in ProcessState, Becomes(p, q),
         applied \subseteq applied', applied' \subseteq Structure,
         version' \in Version \cup {NoVersion}, Reached(version)',
         hash' \in {"v1", "v2"}, starts' \in 0..MaxStart, disturbed' \in BOOLEAN,
         q.pc \in {"insert", "run"} => 1 \in applied',
         q.pc = "run" => \A i \in Structure :
                           Script[i].version <= q.actual \/ i < q.at => i \in applied'
  PROVE  InOrder'
<1>1. /\ proc' \in [Process -> ProcessState] /\ proc'[p] = q
      /\ \A x \in Process \ {p} : proc'[x] = proc[x]
  BY Becoming DEF InOrder
<1>2. Traced(p)'
  BY <1>1 DEF Traced, Reached
<1>3. ASSUME NEW x \in Process \ {p}  PROVE Traced(x)'
  <2>1. Traced(x) /\ proc'[x] = proc[x]
    BY <1>1 DEF InOrder
  <2> QED BY <2>1 DEF Traced, Reached
<1>4. TypeOK'
  BY <1>1 DEF TypeOK
<1> QED BY <1>2, <1>3, <1>4 DEF InOrder

(* At the start no process runs, and the columns are those of the version. *)
LEMMA InOrderInit == Init => InOrder
<1> SUFFICES ASSUME Init  PROVE InOrder
  OBVIOUS
<1>1. version \in Version \cup {NoVersion}
  BY DEF Init, Version, CurrentSqlVersion
<1>2. \A p \in Process : Traced(p)
  BY DEF Init, Traced, Off
<1>3. Reached(version)
  BY DEF Init, Reached
<1>4. proc \in [Process -> ProcessState] /\ starts \in 0..MaxStart
  BY Starting, MigrationsAssumption DEF Init
<1>5. hash \in {"v1", "v2"} /\ disturbed \in BOOLEAN /\ applied \subseteq Structure
  BY DEF Init
<1>6. TypeOK
  BY <1>1, <1>4, <1>5 DEF TypeOK
<1> QED BY <1>2, <1>3, <1>6 DEF InOrder

(* Every step keeps the order.                                             *)
LEMMA InOrderNext ==
  ASSUME InOrder, [Next]_vars
  PROVE  InOrder'
<1>1. /\ TypeOK /\ Reached(version) /\ \A x \in Process : Traced(x) /\ proc[x] \in ProcessState
      /\ MaxStart \in Nat
  BY MigrationsAssumption DEF InOrder, TypeOK
<1>2. Reached(version)' \/ version' # version \/ ~(applied \subseteq applied')
  BY <1>1 DEF Reached
<1>3. CASE UNCHANGED vars
  BY <1>3 DEF vars, InOrder, TypeOK, Reached, Traced
<1>4. ASSUME NEW p \in Process, Start(p)  PROVE InOrder'
  <2> DEFINE q == [Off EXCEPT !.pc = "read"]
  <2>1. q \in ProcessState /\ q.pc = "read" /\ Becomes(p, q)
    BY <1>1, <1>4, Starting, Changes DEF Start, Off
  <2>2. starts' \in 0..MaxStart /\ disturbed' \in BOOLEAN
    <3>1. starts' \in 0..MaxStart
      BY <1>1, <1>4 DEF Start, TypeOK
    <3>2. disturbed' \in BOOLEAN
      BY Zenon, <1>4 DEF Start
    <3> QED BY <3>1, <3>2
  <2> HIDE DEF q
  <2> QED BY <1>1, <1>2, <1>4, <2>1, <2>2, OrderStays DEF Start, TypeOK
<1>5. ASSUME NEW p \in Process, Stop(p)  PROVE InOrder'
  <2>1. Becomes(p, Off) /\ Off \in ProcessState /\ Off.pc = "off"
    BY <1>1, <1>5, Starting, Changes DEF Stop, Off
  <2>2. disturbed' \in BOOLEAN
    BY Zenon, <1>5 DEF Stop
  <2> QED BY <1>1, <1>2, <1>5, <2>1, <2>2, OrderStays DEF Stop, TypeOK
<1>6. ASSUME NEW p \in Process, ReadVersion(p)  PROVE InOrder'
  <2>1. applied \subseteq applied' /\ 1 \in applied' /\ applied' \subseteq Structure
    BY <1>1, <1>6, FirstStatement DEF ReadVersion, TypeOK
  <2>2. ASSUME NEW pc \in {"insert", "open"}, Goto(p, pc)  PROVE InOrder'
    <3> DEFINE q == [proc[p] EXCEPT !.pc = pc]
    <3>1. Becomes(p, q) /\ q \in ProcessState /\ q.pc = pc
      <4>1. pc \in PC
        BY PCs
      <4> QED BY <1>1, <2>2, <4>1, Changes, Moves
    <3> HIDE DEF q
    <3> QED BY <1>1, <1>2, <1>6, <2>1, <3>1, OrderStays DEF ReadVersion, TypeOK
  <2>3. disturbed' \in BOOLEAN /\ UNCHANGED <<version, hash, starts>>
    BY <1>1, <1>6 DEF ReadVersion, TypeOK
  <2>4. ASSUME NEW v \in Version, NEW row \in BOOLEAN, RunFrom(p, v, row), Reached(v)
        PROVE  InOrder'
    <3>1. Running(v, row) \in ProcessState
      BY Begins
    <3>2. Becomes(p, Running(v, row))
      BY <1>1, <2>4, Changes DEF RunFrom, Running
    <3>3. \A i \in Structure : Script[i].version <= v \/ i < 2 => i \in applied'
      <4>1. \A i \in Structure : i < 2 => i = 1
        BY Statements DEF Structure
      <4> QED BY <2>1, <2>4, <4>1 DEF Reached
    <3> QED BY <1>1, <1>2, <2>1, <2>3, <3>1, <3>2, <3>3, OrderStays DEF TypeOK, Running
  <2>5. 0 \in Version /\ 0..CurrentSqlVersion - 1 \subseteq Version /\ TRUE \in BOOLEAN /\ FALSE \in BOOLEAN
    BY DEF Version, CurrentSqlVersion
  <2>6. Reached(0)
    BY Statements DEF Reached, Structure
  <2> QED BY <1>1, <1>6, <2>2, <2>4, <2>5, <2>6 DEF ReadVersion
<1>7. ASSUME NEW p \in Process, InsertVersion(p)  PROVE InOrder'
  <2>1. PICK row \in BOOLEAN : RunFrom(p, 0, row)
    <3>1. (version = NoVersion) \in BOOLEAN
      BY Zenon
    <3> QED BY <1>7, <3>1 DEF InsertVersion
  <2>2. Becomes(p, Running(0, row)) /\ Running(0, row) \in ProcessState
    <3>1. Running(0, row) \in ProcessState
      BY Begins DEF Version, CurrentSqlVersion
    <3> QED BY <1>1, <2>1, <3>1, Changes DEF RunFrom, Running
  <2>3. \A i \in Structure : ~(Script[i].version <= 0) /\ (i < 2 => i = 1)
    BY Statements DEF Structure
  <2>4. 1 \in applied /\ UNCHANGED <<applied, hash, starts>> /\ disturbed' \in BOOLEAN
    BY <1>1, <1>7 DEF Traced, InsertVersion, TypeOK
  <2>5. Reached(version)' /\ version' \in Version \cup {NoVersion}
    <3>1. version' \in {0, version}
      BY <1>7 DEF InsertVersion
    <3>2. 0 \in Version
      BY DEF Version, CurrentSqlVersion
    <3> QED BY <1>1, <2>3, <2>4, <3>1, <3>2 DEF Reached, TypeOK
  <2> QED BY <1>1, <2>2, <2>3, <2>4, <2>5, OrderStays DEF TypeOK, Running
<1>8. ASSUME NEW p \in Process, Skip(p) \/ RunMigration(p)  PROVE InOrder'
  <2> DEFINE q == [proc[p] EXCEPT !.at = @ + 1]
  <2>1. Becomes(p, q) /\ q \in ProcessState
    BY <1>1, <1>8, Changes, Moves DEF Skip, RunMigration
  <2>2. /\ q.pc = "run" /\ q.actual = proc[p].actual /\ q.at = proc[p].at + 1
        /\ proc[p].at \in Nat
    BY <1>1, <1>8, Statements, Moves DEF Skip, RunMigration
  <2> HIDE DEF q
  <2>3. applied \subseteq applied' /\ applied' \subseteq Structure
    BY <1>1, <1>8 DEF Skip, RunMigration, Apply, TypeOK
  <2>4. proc[p].at \in Structure => proc[p].at \in applied'
    <3>1. CASE Skip(p)
      <4>1. proc[p].actual \in Int /\ \A i \in Structure : Script[i].version \in Int
        BY <1>1, Statements DEF ProcessState, Version, CurrentSqlVersion, Structure
      <4>2. proc[p].at \in Structure => Script[proc[p].at].version <= proc[p].actual
        BY <3>1, <4>1 DEF Skip, Due
      <4> QED BY <1>1, <3>1, <4>2 DEF Skip, Traced, Reached
    <3>2. CASE RunMigration(p)
      BY <3>2 DEF RunMigration, Apply
    <3> QED BY <1>8, <3>1, <3>2
  <2>5. \A i \in Structure : Script[i].version <= q.actual \/ i < q.at => i \in applied'
    <3>1. \A i \in Structure : Script[i].version <= proc[p].actual \/ i < proc[p].at => i \in applied
      BY <1>1, <1>8 DEF Skip, RunMigration, Traced, Reached
    <3>2. \A i \in Structure : i < q.at => i < proc[p].at \/ i = proc[p].at
      BY <2>2, FirstStatement
    <3> QED BY <2>2, <2>3, <2>4, <3>1, <3>2
  <2>6. 1 \in applied
    BY <1>1, <1>8 DEF Skip, RunMigration, Traced
  <2>7. hash' \in {"v1", "v2"}
    BY <1>1, <1>8 DEF Skip, RunMigration, Apply, TypeOK
  <2>8. UNCHANGED <<version, starts, disturbed>>
    BY <1>8 DEF Skip, RunMigration
  <2> QED BY <1>1, <1>2, <2>1, <2>3, <2>5, <2>6, <2>7, <2>8, OrderStays DEF TypeOK
<1>9. ASSUME NEW p \in Process, Fatal(p)  PROVE InOrder'
  <2> DEFINE q == [proc[p] EXCEPT !.pc = "fatal"]
  <2>1. Becomes(p, q) /\ q \in ProcessState /\ q.pc = "fatal"
    BY <1>1, <1>9, Changes, Moves, PCs DEF Fatal
  <2> HIDE DEF q
  <2> QED BY <1>1, <1>2, <1>9, <2>1, OrderStays DEF Fatal, TypeOK
<1>10. ASSUME NEW p \in Process, WriteVersion(p)  PROVE InOrder'
  <2> DEFINE q == [proc[p] EXCEPT !.pc = "open"]
  <2>1. Becomes(p, q) /\ q \in ProcessState /\ q.pc = "open"
    BY <1>1, <1>10, Changes, Moves, PCs DEF WriteVersion
  <2> HIDE DEF q
  <2>2. Structure \subseteq applied
    <3>1. proc[p].at = 12
      BY <1>1, <1>10, Statements DEF WriteVersion, End, Finished, ProcessState
    <3>2. \A i \in Structure : i < 12
      BY Statements DEF Structure
    <3> QED BY <1>1, <1>10, <3>1, <3>2 DEF WriteVersion, End, Finished, Traced
  <2>3. Reached(version)' /\ version' \in Version \cup {NoVersion}
    BY <1>1, <1>10, <2>2 DEF WriteVersion, Reached, TypeOK, Version, CurrentSqlVersion
  <2> QED BY <1>1, <1>10, <2>1, <2>3, OrderStays DEF WriteVersion, TypeOK
<1> QED BY <1>3, <1>4, <1>5, <1>6, <1>7, <1>8, <1>9, <1>10 DEF Next, Continue
-----------------------------------------------------------------------------
(* A step of the only process that migrates, or of one that starts when    *)
(* none does, goes smoothly if it fits what the tables become.             *)
LEMMA SmoothStays ==
  ASSUME InOrder, Smooth, NEW p \in Process, NEW q \in ProcessState, Becomes(p, q),
         \A x \in Process \ {p} : ~Migrating(x),
         q.pc # "fatal", q.pc = "insert" => version' = NoVersion,
         q.pc # "run" => Exactly(version)',
         q.pc = "run" =>
           /\ q.row
           /\ \A i \in Alter : i \in applied' <=> Script[i].version <= q.actual \/ i < q.at
  PROVE  Smooth'
<1>1. proc'[p] = q /\ \A x \in Process \ {p} : proc'[x] = proc[x]
  BY Becoming DEF InOrder
<1>2. \A x \in Process \ {p} : ~Migrating(x)' /\ proc'[x].pc \notin {"insert", "run"}
  BY <1>1 DEF Migrating
<1>3. \A x \in Process : proc'[x].pc # "fatal"
  BY <1>1 DEF Smooth
<1>4. \A x, y \in Process : Migrating(x)' /\ Migrating(y)' => x = y
  BY <1>2
<1>5. (\A x \in Process : proc'[x].pc # "run") => Exactly(version)'
  BY <1>1
<1>6. \A x \in Process : proc'[x].pc = "insert" => version' = NoVersion
  BY <1>1, <1>2
<1>7. \A x \in Process : proc'[x].pc = "run" => Halfway(x)'
  BY <1>1, <1>2 DEF Halfway
<1> QED BY <1>3, <1>4, <1>5, <1>6, <1>7 DEF Smooth

(* At the start no process runs.                                           *)
LEMMA SmoothInit == Init => Smooth
BY DEF Init, Smooth, Exactly, Alter, Migrating, Off

(* Every step that is not disturbed goes smoothly.                         *)
LEMMA UndisturbedNext ==
  ASSUME InOrder, Undisturbed, [Next]_vars
  PROVE  Undisturbed'
<1> SUFFICES ASSUME ~disturbed'  PROVE Smooth'
  BY DEF Undisturbed
<1>1. /\ TypeOK /\ \A x \in Process : Traced(x) /\ proc[x] \in ProcessState
  BY DEF InOrder, TypeOK
<1>2. Smooth
  <2>1. ~disturbed
    BY DEF Next, Continue, Start, ReadVersion, InsertVersion, Skip, RunMigration, Fatal,
           WriteVersion, Stop, vars
  <2> QED BY <2>1 DEF Undisturbed
<1>3. CASE UNCHANGED vars
  BY <1>2, <1>3 DEF vars, Smooth, Exactly, Halfway, Migrating
<1>4. ASSUME NEW p \in Process, Migrating(p)
      PROVE  /\ \A x \in Process \ {p} : ~Migrating(x)
             /\ proc[p].pc # "run" => Exactly(version)
  BY <1>2, <1>4 DEF Smooth, Migrating
<1>5. \A i \in Alter : i \in Nat /\ Script[i].version \in 1..CurrentSqlVersion /\ i \in 2..11
  BY Statements DEF Alter, Structure
<1>6. ASSUME NEW p \in Process, Start(p)  PROVE Smooth'
  <2> DEFINE q == [Off EXCEPT !.pc = "read"]
  <2>1. q \in ProcessState /\ q.pc = "read" /\ Becomes(p, q)
    BY <1>1, <1>6, Starting, Changes DEF Start, Off
  <2> HIDE DEF q
  <2>2. \A x \in Process : ~Migrating(x)
    BY <1>6 DEF Start
  <2>3. Exactly(version)'
    BY <1>2, <1>6, <2>2 DEF Start, Smooth, Exactly, Migrating
  <2> QED BY <1>2, <2>1, <2>2, <2>3, SmoothStays
<1>7. ASSUME NEW p \in Process, Stop(p)  PROVE Smooth'
  <2>1. Becomes(p, Off) /\ Off \in ProcessState /\ Off.pc = "off"
    BY <1>1, <1>7, Starting, Changes DEF Stop, Off
  <2>2. ~Migrating(p)
    BY <1>7 DEF Stop
  <2>3. proc'[p] = Off /\ \A x \in Process \ {p} : proc'[x] = proc[x]
    BY <1>1, <2>1, Becoming
  <2>4. UNCHANGED <<applied, version>>
    BY <1>7 DEF Stop
  <2>5. \A x \in Process : Migrating(x)' => x # p /\ Migrating(x)
    BY <2>1, <2>3 DEF Migrating
  <2>6. \A x \in Process : proc'[x].pc \in {"insert", "run", "fatal"} => x # p /\ proc'[x] = proc[x]
    BY <2>1, <2>3
  <2>7. (\A x \in Process : proc'[x].pc # "run") => \A x \in Process : proc[x].pc # "run"
    BY <2>2, <2>3 DEF Migrating
  <2> QED BY <1>2, <2>4, <2>5, <2>6, <2>7 DEF Smooth, Exactly, Halfway
<1>8. ASSUME NEW p \in Process, ReadVersion(p)  PROVE Smooth'
  <2>1. Migrating(p) /\ proc[p].pc # "run"
    BY <1>8 DEF ReadVersion, Migrating
  <2>2. Exactly(version) /\ \A x \in Process \ {p} : ~Migrating(x)
    BY <1>4, <2>1
  <2>3. \A i \in Alter : i \in applied' <=> Script[i].version <= version
    BY <1>8, <2>2, FirstStatement DEF ReadVersion, Exactly
  <2>4. version' = version
    BY <1>8 DEF ReadVersion
  <2>5. ASSUME NEW pc \in {"insert", "open"}, Goto(p, pc), pc = "insert" => version = NoVersion
        PROVE  Smooth'
    <3> DEFINE q == [proc[p] EXCEPT !.pc = pc]
    <3>1. Becomes(p, q) /\ q \in ProcessState /\ q.pc = pc
      <4>1. pc \in PC
        BY PCs
      <4> QED BY <1>1, <2>5, <4>1, Changes, Moves
    <3> HIDE DEF q
    <3>2. Exactly(version)'
      BY <2>3, <2>4 DEF Exactly
    <3> QED BY <1>2, <2>2, <2>4, <2>5, <3>1, <3>2, SmoothStays
  <2>6. ASSUME version \in 0..CurrentSqlVersion - 1,
               proc' = [proc EXCEPT ![p] = Running(version, TRUE)]
        PROVE  Smooth'
    <3>1. Running(version, TRUE) \in ProcessState
      <4>1. version \in Version /\ TRUE \in BOOLEAN
        BY <2>6 DEF Version, CurrentSqlVersion
      <4> QED BY <4>1, Begins
    <3>2. Becomes(p, Running(version, TRUE))
      BY <1>1, <2>6, Changes
    <3>3. \A i \in Alter : ~(i < 2)
      BY <1>5
    <3>4. \A i \in Alter : i \in applied' <=>
            Script[i].version <= Running(version, TRUE).actual \/ i < Running(version, TRUE).at
      BY <2>3, <3>3 DEF Running
    <3>5. Running(version, TRUE).pc = "run" /\ Running(version, TRUE).row
      BY DEF Running
    <3> QED BY <1>2, <2>2, <3>1, <3>2, <3>4, <3>5, SmoothStays
  <2> QED BY <1>8, <2>5, <2>6 DEF ReadVersion, RunFrom, Running
<1>9. ASSUME NEW p \in Process, InsertVersion(p)  PROVE Smooth'
  <2>1. Migrating(p) /\ proc[p].pc # "run"
    BY <1>9 DEF InsertVersion, Migrating
  <2>2. Exactly(version) /\ \A x \in Process \ {p} : ~Migrating(x)
    BY <1>4, <2>1
  <2>3. version = NoVersion
    BY <1>2, <1>9 DEF InsertVersion, Smooth
  <2>4. proc' = [proc EXCEPT ![p] = Running(0, TRUE)] /\ applied' = applied
    BY <1>9, <2>3 DEF InsertVersion, RunFrom, Running
  <2>5. Running(0, TRUE) \in ProcessState
    <3>1. 0 \in Version /\ TRUE \in BOOLEAN
      BY DEF Version, CurrentSqlVersion
    <3> QED BY <3>1, Begins
  <2>6. Becomes(p, Running(0, TRUE))
    BY <1>1, <2>4, Changes
  <2>7. \A i \in Alter : ~(Script[i].version <= 0) /\ ~(Script[i].version <= NoVersion) /\ ~(i < 2)
    BY <1>5 DEF NoVersion, CurrentSqlVersion
  <2>8. \A i \in Alter : i \in applied' <=>
          Script[i].version <= Running(0, TRUE).actual \/ i < Running(0, TRUE).at
    BY <2>2, <2>3, <2>4, <2>7 DEF Exactly, Running
  <2>9. Running(0, TRUE).pc = "run" /\ Running(0, TRUE).row
    BY DEF Running
  <2> QED BY <1>2, <2>2, <2>5, <2>6, <2>8, <2>9, SmoothStays
<1>10. ASSUME NEW p \in Process, proc[p].pc = "run"
       PROVE  /\ \A x \in Process \ {p} : ~Migrating(x)
              /\ proc[p].row
              /\ \A i \in Alter :
                   i \in applied <=> Script[i].version <= proc[p].actual \/ i < proc[p].at
  BY <1>2, <1>4, <1>10 DEF Migrating, Smooth, Halfway
<1>11. ASSUME NEW p \in Process, Skip(p) \/ RunMigration(p)  PROVE Smooth'
  <2> DEFINE q == [proc[p] EXCEPT !.at = @ + 1]
             at == proc[p].at
  <2>1. proc[p].pc = "run" /\ at \in Steps /\ at \in Nat
    BY <1>11, Statements DEF Skip, RunMigration
  <2>2. Becomes(p, q) /\ q \in ProcessState
    BY <1>1, <1>11, <2>1, Changes, Moves DEF Skip, RunMigration
  <2>3. q.pc = "run" /\ q.actual = proc[p].actual /\ q.at = at + 1 /\ q.row = proc[p].row
    BY <1>1, <2>1, Moves
  <2> HIDE DEF q
  <2>4. proc[p].actual \in Int
    BY <1>1 DEF ProcessState, Version
  <2>5. \A i \in Alter : i < at + 1 <=> i < at \/ i = at
    BY <1>5, <2>1
  <2>6. \A i \in Alter : i \in applied' <=> i \in applied \/ (i = at /\ Due(proc[p].actual, at))
    BY <1>11 DEF Skip, RunMigration, Apply, Alter
  <2>7. at \in Alter => (Due(proc[p].actual, at) <=> ~(Script[at].version <= proc[p].actual))
    BY <1>5, <2>4 DEF Due
  <2> HIDE DEF at
  <2>8. \A i \in Alter : i \in applied' <=> Script[i].version <= q.actual \/ i < q.at
    <3> SUFFICES ASSUME NEW i \in Alter
                 PROVE  i \in applied' <=> Script[i].version <= q.actual \/ i < q.at
      OBVIOUS
    <3>1. i \in applied <=> Script[i].version <= proc[p].actual \/ i < at
      BY <1>10, <2>1 DEF at
    <3> QED BY <2>3, <2>5, <2>6, <2>7, <3>1
  <2> QED BY <1>2, <1>10, <2>1, <2>2, <2>3, <2>8, SmoothStays
<1>12. ASSUME NEW p \in Process, Fatal(p)  PROVE FALSE
  <2>1. proc[p].pc = "run" /\ proc[p].at \in Alter \cap applied /\ Due(proc[p].actual, proc[p].at)
    BY <1>12 DEF Fatal, Alter, Structure
  <2>2. Script[proc[p].at].version <= proc[p].actual \/ proc[p].at < proc[p].at
    BY <1>10, <2>1
  <2>3. proc[p].at \in Nat /\ proc[p].actual \in Int /\ Script[proc[p].at].version \in Int
    BY <1>1, <1>5, <2>1 DEF ProcessState, Version, CurrentSqlVersion
  <2> QED BY <2>1, <2>2, <2>3 DEF Due
<1>13. ASSUME NEW p \in Process, WriteVersion(p)  PROVE Smooth'
  <2> DEFINE q == [proc[p] EXCEPT !.pc = "open"]
  <2>1. Becomes(p, q) /\ q \in ProcessState /\ q.pc = "open"
    BY <1>1, <1>13, Changes, Moves, PCs DEF WriteVersion
  <2> HIDE DEF q
  <2>2. proc[p].pc = "run" /\ proc[p].at = 12
    BY <1>1, <1>13, Statements DEF WriteVersion, End, Finished, ProcessState
  <2>3. version' = CurrentSqlVersion /\ applied' = applied
    BY <1>10, <1>13, <2>2 DEF WriteVersion
  <2>4. \A i \in Alter : i \in applied /\ Script[i].version <= CurrentSqlVersion
    <3>1. \A i \in Alter : i < 12 /\ Script[i].version <= CurrentSqlVersion
      BY <1>5 DEF CurrentSqlVersion
    <3> QED BY <1>10, <2>2, <3>1
  <2>5. Exactly(version)'
    BY <2>3, <2>4 DEF Exactly
  <2> QED BY <1>2, <1>10, <2>1, <2>2, <2>5, SmoothStays
<1> QED BY <1>3, <1>6, <1>7, <1>8, <1>9, <1>11, <1>12, <1>13 DEF Next, Continue
-----------------------------------------------------------------------------
(* The inductive invariant of the version.                                 *)
THEOREM MigrationsInOrder == Spec => []InOrder
BY InOrderInit, InOrderNext, PTL DEF Spec

(* Every variable keeps its type.                                          *)
THEOREM TypesCorrect == Spec => []TypeOK
BY MigrationsInOrder, PTL DEF InOrder

(* The version is the newest one only when the whole schema is there,      *)
(* however many processes migrate at once and wherever they are stopped.   *)
THEOREM VersionIsAlwaysTrue == Spec => []VersionIsTrue
<1>1. InOrder => VersionIsTrue
  <2>1. \A i \in Structure : Script[i].version <= CurrentSqlVersion
    BY Statements DEF Structure
  <2> QED BY <2>1 DEF InOrder, TypeOK, Reached, VersionIsTrue
<1> QED BY <1>1, MigrationsInOrder, PTL

(* A start fails only if an earlier migration was interrupted, or another  *)
(* one ran beside it.                                                      *)
THEOREM OnlyDisturbedFail == Spec => []FailsOnlyDisturbed
<1>1. Init => InOrder /\ Undisturbed
  BY InOrderInit, SmoothInit DEF Undisturbed
<1>2. InOrder /\ Undisturbed /\ [Next]_vars => (InOrder /\ Undisturbed)'
  BY InOrderNext, UndisturbedNext
<1>3. Undisturbed => FailsOnlyDisturbed
  BY DEF Undisturbed, Smooth, FailsOnlyDisturbed
<1> QED BY <1>1, <1>2, <1>3, PTL DEF Spec
=============================================================================

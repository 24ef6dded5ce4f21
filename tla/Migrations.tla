----------------------------- MODULE Migrations -----------------------------
(***************************************************************************)
(* Opening the database: migrateDatabase in user/migrations.go over the    *)
(* SQL of migrations/.                                                     *)
(*                                                                         *)
(* A process that opens the database brings its schema up to date: the     *)
(* server when it starts, and each command of ctl.  It reads the version   *)
(* the schema has, runs the migrations above that version one statement    *)
(* after the other, and writes the new version when all are through.       *)
(* SQLite commits every statement by itself.  The process may be stopped   *)
(* between any two of them and started again, and two processes may open   *)
(* the database at the same time; it may be busy for either.               *)
(***************************************************************************)
EXTENDS Integers, Sequences, FiniteSets

CONSTANTS
  Process,    \* the server, and commands run beside it
  MaxStart    \* bound: how often processes are started

ASSUME MigrationsAssumption == MaxStart \in Nat

CurrentSqlVersion == 6

(* The statements in their order, each with the version it leads to.  A    *)
(* column is added or renamed once; tables and indexes are created if they *)
(* do not exist; "passwords" is migrateToV2Passwords.                      *)
Statement(version, kind) == [version |-> version, kind |-> kind]
Script == <<
  Statement(1, "create"), Statement(2, "alter"), Statement(3, "passwords"),
  Statement(4, "alter"), Statement(5, "alter"), Statement(5, "alter"), Statement(5, "create"),
  Statement(6, "alter"), Statement(6, "alter"), Statement(6, "alter"), Statement(6, "create") >>
Steps == DOMAIN Script
Structure == {i \in Steps : Script[i].kind # "passwords"}

NoVersion == -1
Version == 0..CurrentSqlVersion

VARIABLES
  applied,    \* the statements that have shaped the tables
  version,    \* the row fmd_db_version, or NoVersion
  hash,       \* how the passwords of the accounts are hashed
  proc,       \* what each process is doing
  starts,     \* starts so far
  disturbed   \* history: a migration was interrupted, met another one, or was
              \* refused something by the database

vars == <<applied, version, hash, proc, starts, disturbed>>

PC == {"off", "read", "insert", "run", "open", "fatal"}
(* The version a process has read, whether it knows the row it is in, and  *)
(* the statement it is at.                                                 *)
ProcessState == [pc : PC, actual : Version, row : BOOLEAN, at : 1..Len(Script) + 1]
Off == [pc |-> "off", actual |-> 0, row |-> FALSE, at |-> 1]

TypeOK ==
  /\ applied \subseteq Structure
  /\ version \in Version \cup {NoVersion}
  /\ hash \in {"v1", "v2"}
  /\ proc \in [Process -> ProcessState]
  /\ starts \in 0..MaxStart
  /\ disturbed \in BOOLEAN

(* The file is new and has no accounts, or has been left by a release of   *)
(* that version.                                                           *)
Init ==
  /\ version \in {NoVersion} \cup 1..CurrentSqlVersion
  /\ applied = {i \in Structure : Script[i].version <= version}
  /\ hash = IF version \in 1..2 THEN "v1" ELSE "v2"
  /\ proc = [p \in Process |-> Off]
  /\ starts = 0 /\ disturbed = FALSE

Migrating(p) == proc[p].pc \in {"read", "insert", "run"}
Goto(p, pc) == proc' = [proc EXCEPT ![p].pc = pc]
-----------------------------------------------------------------------------
Start(p) ==
  /\ proc[p].pc \in {"off", "fatal"}
  /\ starts < MaxStart /\ starts' = starts + 1
  /\ proc' = [proc EXCEPT ![p] = [Off EXCEPT !.pc = "read"]]
  /\ disturbed' = (disturbed \/ \E q \in Process : Migrating(q))
  /\ UNCHANGED <<applied, version, hash>>

(* A process that takes the version to be n.                               *)
RunFrom(p, n, row) ==
  proc' = [proc EXCEPT ![p] = [pc |-> "run", actual |-> n, row |-> row, at |-> 2]]

(* 000001 runs at every start.  Then the version is looked up.  Without    *)
(* one a row for it is inserted; where the lookup fails for another reason *)
(* the version counts as 0.                                                *)
ReadVersion(p) ==
  /\ proc[p].pc = "read"
  /\ applied' = applied \cup {1}
  /\ \/ /\ \/ version = NoVersion /\ Goto(p, "insert")
           \/ version = CurrentSqlVersion /\ Goto(p, "open")
           \/ version \in 0..CurrentSqlVersion - 1 /\ RunFrom(p, version, TRUE)
        /\ UNCHANGED disturbed
     \/ RunFrom(p, 0, FALSE) /\ disturbed' = TRUE
  /\ UNCHANGED <<version, hash, starts>>

(* Whether the insert worked is not looked at: the unique index refuses a  *)
(* second row, and the database may be busy.                               *)
InsertVersion(p) ==
  /\ proc[p].pc = "insert"
  /\ \/ /\ RunFrom(p, 0, version = NoVersion) /\ UNCHANGED disturbed
        /\ version' = IF version = NoVersion THEN 0 ELSE version
     \/ RunFrom(p, 0, FALSE) /\ disturbed' = TRUE /\ UNCHANGED version
  /\ UNCHANGED <<applied, hash, starts>>

(* The next statement of a migration above the version.                    *)
DueAgain(actual, i) == actual <= Script[i].version       \* mutant: off by one
Due(actual, i) == actual < Script[i].version

(* migrateToV2Passwords saves whole rows of the newest FMDUser, which the  *)
(* database refuses as long as a column is missing or has its old name; it *)
(* does not look at that.                                                  *)
RowFits == {i \in Structure : Script[i].kind = "alter"} \subseteq applied

Apply(i) ==
  /\ applied' = applied \cup ({i} \cap Structure)
  /\ hash' = IF Script[i].kind = "passwords" /\ RowFits THEN "v2" ELSE hash

Advance(p) == [proc EXCEPT ![p].at = @ + 1]
Skip(p) ==
  /\ proc[p].pc = "run" /\ proc[p].at \in Steps /\ ~Due(proc[p].actual, proc[p].at)
  /\ proc' = Advance(p)
  /\ UNCHANGED <<applied, version, hash, starts, disturbed>>

RunMigration(p) ==
  LET i == proc[p].at IN
    /\ proc[p].pc = "run" /\ i \in Steps /\ Due(proc[p].actual, i)
    /\ Script[i].kind = "alter" => i \notin applied
    /\ Apply(i)
    /\ proc' = Advance(p)
    /\ UNCHANGED <<version, starts, disturbed>>

(* A column that exists cannot be added, one that was renamed cannot be    *)
(* renamed, and any statement may find the database busy: log.Fatal.       *)
Fatal(p) ==
  LET i == proc[p].at IN
    /\ \/ /\ proc[p].pc = "run" /\ i \in Steps /\ Due(proc[p].actual, i)
          /\ \/ Script[i].kind = "alter" /\ i \in applied /\ UNCHANGED disturbed
             \/ Script[i].kind # "passwords" /\ disturbed' = TRUE
       \/ proc[p].pc = "read" /\ disturbed' = TRUE
    /\ Goto(p, "fatal")
    /\ UNCHANGED <<applied, version, hash, starts>>

Finished(p) == proc[p].pc = "run" /\ proc[p].at \notin Steps
FinishedEarly(p) == proc[p].pc = "run" /\ proc[p].at >= Len(Script)    \* mutant
End(p) == Finished(p)

(* The update of a row that this process could not read or insert has no   *)
(* WHERE clause and is refused; that is not looked at, nor is a database   *)
(* that is busy.                                                           *)
WriteNothing(p) ==                                       \* mutant: the version stays
  End(p) /\ Goto(p, "open") /\ UNCHANGED <<applied, version, hash, starts, disturbed>>
WriteVersion(p) ==
  /\ End(p)
  /\ \/ /\ version' = IF proc[p].row THEN CurrentSqlVersion ELSE version
        /\ UNCHANGED disturbed
     \/ disturbed' = TRUE /\ UNCHANGED version
  /\ Goto(p, "open")
  /\ UNCHANGED <<applied, hash, starts>>

(* The process is stopped, by its owner or by a crash.                     *)
Stop(p) ==
  /\ proc[p].pc \notin {"off", "fatal"}
  /\ proc' = [proc EXCEPT ![p] = Off]
  /\ disturbed' = (disturbed \/ Migrating(p))
  /\ UNCHANGED <<applied, version, hash, starts>>

Continue(p) ==
  \/ ReadVersion(p) \/ InsertVersion(p) \/ Skip(p) \/ RunMigration(p) \/ Fatal(p) \/ WriteVersion(p)

Next == \E p \in Process : Start(p) \/ Continue(p) \/ Stop(p)

Spec == Init /\ [][Next]_vars
FairSpec == Spec /\ \A p \in Process : WF_vars(Continue(p))
-----------------------------------------------------------------------------
(* The version is the newest one only when the whole schema is there,      *)
(* whatever was interrupted and whoever else migrated at the same time: a  *)
(* process that trusts the version and skips the migrations finds every    *)
(* column it knows.                                                        *)
VersionIsTrue == version = CurrentSqlVersion => applied = Structure

(* Every release's database can be opened: a start fails only if a         *)
(* migration was interrupted, another one ran beside it, or the database   *)
(* refused something.                                                      *)
FailsOnlyDisturbed == (\E p \in Process : proc[p].pc = "fatal") => disturbed

(* A start that is left alone completes the upgrade.                       *)
UpgradeHappens ==
  (\E p \in Process : Migrating(p)) ~> (version = CurrentSqlVersion \/ disturbed)
-----------------------------------------------------------------------------
(* What a comment says, and what the code does not keep.                   *)

(* user/migrations.go, user/user_repository.go: migrateToV2Passwords       *)
(* brings all accounts to the new hash.                                    *)
PasswordsMigrated == version = CurrentSqlVersion => hash = "v2"
=============================================================================

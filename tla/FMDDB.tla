------------------------------- MODULE FMDDB --------------------------------
(***************************************************************************)
(* The account table of user/userDB.go, as the rest of the server uses it: *)
(* a partial function from row ids to rows, each row a record with at      *)
(* least a username.  Every operator is one SQL statement, hence one       *)
(* atomic step of the modules that use it.  The ORM (gorm) is not in this  *)
(* repository; what it does is modelled here from how it is called, and    *)
(* the errors it returns are dropped because Save and Create drop them.    *)
(***************************************************************************)
EXTENDS Integers

(* SELECT ... WHERE username = n: the ids of the rows with this name, at   *)
(* most one as long as the unique index on username holds.                 *)
GetByName(db, n) == {i \in DOMAIN db : db[i].username = n}

(* What the unique index rejects: a row under another id has this name.    *)
NameTaken(db, i, n) == \E j \in DOMAIN db : j # i /\ db[j].username = n

(* The table after writing all columns of row i.                           *)
Write(db, i, row) == [j \in DOMAIN db \cup {i} |-> IF j = i THEN row ELSE db[j]]

(* gorm's Save: UPDATE every column of row i; when no row was affected,    *)
(* INSERT it with its old id.  So saving a copy of a row that has been     *)
(* deleted since inserts it again, unless its name has been taken.         *)
SaveForeign(db, i, row) == Write(db, i, row)    \* mutant: no unique index
Save(db, i, row) == IF NameTaken(db, i, row.username) THEN db ELSE Write(db, i, row)

(* gorm's Create: INSERT under a fresh id, refused by the unique index     *)
(* (and the refusal ignored) when the name is taken.                       *)
CreateUpsert(db, i, row) ==                     \* mutant: ON CONFLICT(username) UPDATE
  LET old == GetByName(db, row.username)
  IN  IF old = {} THEN Write(db, i, row) ELSE Write(db, CHOOSE j \in old : TRUE, row)
Create(db, i, row) == IF NameTaken(db, i, row.username) THEN db ELSE Write(db, i, row)

(* gorm's Delete, by id.                                                   *)
Delete(db, i) == [j \in DOMAIN db \ {i} |-> db[j]]

(* No two accounts share a name, although registration only checks for one *)
(* before it inserts, and a stale Save may bring a deleted row back.       *)
UniqueNames(db) ==
  \A i, j \in DOMAIN db : db[i].username = db[j].username => i = j
=============================================================================

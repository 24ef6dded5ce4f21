------------------------------- MODULE Family -------------------------------
(***************************************************************************)
(* Family sharing: user/family.go behind the handlers of                   *)
(* backend/family.go, over the account table.                              *)
(*                                                                         *)
(* Every handler runs behind CheckAccessTokenAndGetUser, which reads the   *)
(* account's row and then writes all of it back; some handlers write that  *)
(* copy a second time.  The operations of family.go themselves are         *)
(* careful: each is one SQL statement or one transaction that reads again  *)
(* what it depends on.  This module puts the two together.  A request      *)
(* slot is one goroutine; what a request's body says is chosen when the    *)
(* handler looks at it.  Sessions are in module UserRepository: here       *)
(* anyone may send a request for any account that exists.                  *)
(***************************************************************************)
EXTENDS FMDDB, FiniteSets, FiniteSetsExt

CONSTANTS
  Request,         \* requests that may be in flight together
  Name,            \* usernames
  Key,             \* identity key pairs
  maxFamilyItems,  \* most items, and most names, in one upload
  maxClockAhead,   \* how far a copy's time may run ahead of the clock
  MaxId,           \* bound: rows ever inserted
  MaxTime,         \* bound: the server's clock
  NoKey, None,     \* no key yet; no row
  Everyone         \* an upload that names no audience

ASSUME NamesAssumption ==
  None \notin Name /\ NoKey \notin Key /\ \A names \in SUBSET Name : Everyone # names
ASSUME LimitsAssumption ==
  {maxFamilyItems, maxClockAhead, MaxId, MaxTime} \subseteq Nat

VARIABLES
  users,   \* table fmd_users: row id -> row
  lastId,  \* its AUTOINCREMENT counter
  copies,  \* table family_locations: <<owner id, viewer id>> -> UnixMillis
  now,     \* the server's clock
  req,     \* what each request is doing
  stale    \* history: a request has written back a copy of a row that had
           \* changed (or gone) since it was read

vars == <<users, lastId, copies, now, req, stale>>

Id == 1..MaxId
Time == 0..MaxTime + maxClockAhead

(* The columns of FMDUser that matter here.                                *)
Row == [username : Name, identityPublic : Key \cup {NoKey}, sharingPaused : BOOLEAN]

RequestState == [pc : {"idle", "touch", "handle"}, id : Id \cup {0}, row : Row \cup {None}]
Idle == [pc |-> "idle", id |-> 0, row |-> None]

TypeOK ==
  /\ DOMAIN users \subseteq 1..lastId /\ users \in [DOMAIN users -> Row]
  /\ lastId \in 0..MaxId
  /\ DOMAIN copies \subseteq Id \X Id /\ copies \in [DOMAIN copies -> Time]
  /\ now \in 0..MaxTime
  /\ req \in [Request -> RequestState]
  /\ stale \in BOOLEAN

Init ==
  /\ users = [i \in {} |-> None] /\ lastId = 0
  /\ copies = [c \in {} |-> 0]
  /\ now = 0
  /\ req = [r \in Request |-> Idle]
  /\ stale = FALSE

(* The copy request r holds is still what the table holds.                 *)
Fresh(r) == req[r].id \in DOMAIN users /\ users[req[r].id] = req[r].row
(* It is written back; the database may refuse, and nobody is told.        *)
SaveCopy(r) ==
  /\ users' \in {Save(users, req[r].id, req[r].row), users}
  /\ stale' = (stale \/ ~Fresh(r))

(* Handler r, past its authentication, answers.                            *)
HandleOn(r) == req[r].pc = "handle" /\ UNCHANGED req     \* mutant: the copy lives on
Handle(r) == req[r].pc = "handle" /\ req' = [req EXCEPT ![r] = Idle]
Me(r) == req[r].id
-----------------------------------------------------------------------------
FirstFreeId == CHOOSE i \in 1..lastId + 1 : i \notin DOMAIN users  \* mutant: ids reused
NextId == lastId + 1

(* CreateNewUser: a row without a key, not paused.                         *)
Register ==
  /\ lastId < MaxId
  /\ \E n \in Name :
       LET row == [username |-> n, identityPublic |-> NoKey, sharingPaused |-> FALSE]
       IN  /\ users' = Create(users, NextId, row)
           /\ lastId' = IF NextId \in DOMAIN users' THEN NextId ELSE lastId
  /\ UNCHANGED <<copies, now, req, stale>>

(* CheckAccessTokenAndGetUser: read the row, then write it back.           *)
GetUser(r) ==
  /\ req[r].pc = "idle"
  /\ \E i \in DOMAIN users : req' = [req EXCEPT ![r] = [pc |-> "touch", id |-> i, row |-> users[i]]]
  /\ UNCHANGED <<users, lastId, copies, now, stale>>

Touch(r) ==
  /\ req[r].pc = "touch"
  /\ SaveCopy(r)
  /\ req' = [req EXCEPT ![r].pc = "handle"]
  /\ UNCHANGED <<lastId, copies, now>>

(* The handlers that change other columns of the copy and save it again:   *)
(* the password, the push URL and, over API v1, keys and commands.         *)
ChangeSettings(r) ==
  /\ Handle(r)
  /\ SaveCopy(r)
  /\ UNCHANGED <<lastId, copies, now>>

(* The key is written only where there is none: an account that has one,   *)
(* or that is gone, is left alone (ErrIdentityTaken).                      *)
SetIdentityAnyway(r) ==                                  \* mutant: no condition
  /\ Handle(r)
  /\ \E k \in Key :
       users' = [i \in DOMAIN users |->
                   IF i = Me(r) THEN [users[i] EXCEPT !.identityPublic = k] ELSE users[i]]
  /\ UNCHANGED <<lastId, copies, now, stale>>
SetIdentity(r) ==
  /\ Handle(r)
  /\ \E k \in Key :
       users' = [i \in DOMAIN users |->
                   IF i = Me(r) /\ users[i].identityPublic = NoKey
                   THEN [users[i] EXCEPT !.identityPublic = k] ELSE users[i]]
  /\ UNCHANGED <<lastId, copies, now, stale>>

(* Pausing erases the copies in the same transaction; resuming brings      *)
(* none back.                                                              *)
SetPaused(r) ==
  /\ Handle(r)
  /\ \E p \in BOOLEAN :
       /\ users' = [i \in DOMAIN users |->
                      IF i = Me(r) THEN [users[i] EXCEPT !.sharingPaused = p] ELSE users[i]]
       /\ copies' = [c \in {d \in DOMAIN copies : ~(p /\ d[1] = Me(r))} |-> copies[c]]
  /\ UNCHANGED <<lastId, now, stale>>
-----------------------------------------------------------------------------
(* PutSealed.  An upload is a set of items, each a viewer's name and the   *)
(* time of the place sealed for them, and an audience: the names of all    *)
(* the people the owner now shares with, or Everyone (no audience in the   *)
(* request).                                                               *)
Upload == {items \in SUBSET (Name \X Time) : Cardinality(items) <= maxFamilyItems}
Audience == {Everyone} \cup {names \in SUBSET Name : Cardinality(names) <= maxFamilyItems}

(* Only an account with a key that has not paused may share.               *)
MayShareKeyless(i) == i \in DOMAIN users /\ ~users[i].sharingPaused     \* mutant
MayShare(i) ==
  i \in DOMAIN users /\ ~users[i].sharingPaused /\ users[i].identityPublic # NoKey

Shares(audience, n) == audience = Everyone \/ n \in audience

(* The times offered for the copy c, leaving out the items for others than *)
(* the audience, for the owner, for unknown names, without a time, or too  *)
(* far in the future.                                                      *)
OfferedLate(c, items, audience) ==                       \* mutant: <= becomes <
  {t \in Time : <<users[c[2]].username, t>> \in items
                  /\ Shares(audience, users[c[2]].username)
                  /\ t # 0 /\ t - 1 <= now + maxClockAhead}
Offered(c, items, audience) ==
  {t \in Time : <<users[c[2]].username, t>> \in items
                  /\ Shares(audience, users[c[2]].username)
                  /\ t # 0 /\ t <= now + maxClockAhead}

(* The copies that survive the audience's delete statement.                *)
KeptOfAll(i, audience) ==                                \* mutant: no owner
  {c \in DOMAIN copies : Shares(audience, users[c[2]].username)}
Kept(i, audience) ==
  {c \in DOMAIN copies : c[1] = i => Shares(audience, users[c[2]].username)}

NewestAlways(old, times) == IF times = {} THEN Max(old) ELSE Max(times)  \* mutant: no WHERE
Newest(old, times) == Max(old \cup times)

PutSealed(r) ==
  /\ Handle(r)
  /\ \E items \in Upload, audience \in Audience :
       LET kept == Kept(Me(r), audience)
           put  == {c \in {Me(r)} \X (DOMAIN users \ {Me(r)}) : Offered(c, items, audience) # {}}
           old(c) == IF c \in kept THEN {copies[c]} ELSE {}
           new(c) == IF c \in put THEN Offered(c, items, audience) ELSE {}
       IN  copies' = IF MayShare(Me(r))
                     THEN [c \in kept \cup put |-> Newest(old(c), new(c))]
                     ELSE copies
  /\ UNCHANGED <<users, lastId, now, stale>>
-----------------------------------------------------------------------------
(* DeleteUser: the foreign keys take the copies along, whichever end of    *)
(* them the account was.                                                   *)
CascadeOwner(i) == {c \in DOMAIN copies : c[1] = i}      \* mutant: one foreign key
Cascade(i) == {c \in DOMAIN copies : c[1] = i \/ c[2] = i}

DeleteUser(r) ==
  /\ Handle(r)
  /\ users' = Delete(users, Me(r))
  /\ copies' = [c \in DOMAIN copies \ Cascade(Me(r)) |-> copies[c]]
  /\ UNCHANGED <<lastId, now, stale>>

(* Any handler may fail before it changes anything: a transaction that     *)
(* cannot get the database's write lock is rolled back, a body that does   *)
(* not parse is refused, and the handlers that only read change nothing.   *)
Refuse(r) ==
  /\ Handle(r)
  /\ UNCHANGED <<users, lastId, copies, now, stale>>

Tick ==
  /\ now < MaxTime
  /\ now' = now + 1
  /\ UNCHANGED <<users, lastId, copies, req, stale>>

Restart ==
  /\ req' = [r \in Request |-> Idle]
  /\ UNCHANGED <<users, lastId, copies, now, stale>>

Step(r) ==
  \/ GetUser(r) \/ Touch(r) \/ ChangeSettings(r)
  \/ SetIdentity(r) \/ SetPaused(r) \/ PutSealed(r) \/ DeleteUser(r) \/ Refuse(r)

Next == (\E r \in Request : Step(r)) \/ Register \/ Tick \/ Restart

Spec == Init /\ [][Next]_vars
-----------------------------------------------------------------------------
(* Every copy is from one existing account to another one, whatever        *)
(* uploads, deletions and returning rows do in between.                    *)
CopiesBelong ==
  \A c \in DOMAIN copies : c[1] \in DOMAIN users /\ c[2] \in DOMAIN users /\ c[1] # c[2]

(* No copy is dated later than the clock's allowance when it came in, so a *)
(* phone with a wrong clock cannot keep out its own later copies for long. *)
NoneFromTheFuture == \A c \in DOMAIN copies : copies[c] <= now + maxClockAhead

(* A paused account has no copies on the server, and an account with       *)
(* copies has the key that vouches for them.                               *)
Sound(c) == users[c[1]].identityPublic # NoKey /\ ~users[c[1]].sharingPaused
SharersAreSound == ~stale => \A c \in DOMAIN copies : Sound(c)

(* An identity, once set, is the account's for good, so that what is       *)
(* sealed to it can always be opened.                                      *)
KeepsIdentity ==
  \A i \in DOMAIN users \cap DOMAIN users' :
    users[i].identityPublic # NoKey => users'[i].identityPublic = users[i].identityPublic
IdentityIsKept == [][~stale' => KeepsIdentity]_vars

(* A server that handles one request at a time never writes back an        *)
(* outdated copy.                                                          *)
AloneNeverStale == (\E r \in Request : Request = {r}) => ~stale

(* What the server shows is the board of module SealedBoard.               *)
Board == INSTANCE SealedBoard WITH
  Member <- Id,
  key <- [i \in DOMAIN users |-> users[i].identityPublic],
  paused <- {i \in DOMAIN users : users[i].sharingPaused},
  board <- copies

(* Until an outdated copy is written back, every step of the server, for   *)
(* any number of requests in flight, is a step of the board or none.       *)
StepsOnBoard == [][~stale' => [Board!Next]_(Board!vars)]_vars

(* A server that handles one request at a time implements the board.       *)
ImplementsBoard == Board!Spec
=============================================================================

--------------------------- MODULE UserRepository ---------------------------
(***************************************************************************)
(* Accounts and sessions: user/user_repository.go over user/userDB.go and  *)
(* user/access.go, driven by the account handlers of backend/apiv1.go and  *)
(* backend/apiv2.go.                                                       *)
(*                                                                         *)
(* net/http runs every request in a goroutine of its own, and nothing      *)
(* serialises them: the handlers share the SQLite file and two Go maps.    *)
(* A request slot (a member of Request) is one such goroutine.  Its steps  *)
(* are the SQL statements and the map operations of the handler, each      *)
(* atomic; between two of them any other request may run, or the server    *)
(* may die and start again.  What makes this hard is that every            *)
(* authenticated handler works on a private copy of the account's row,     *)
(* read once, and that every write writes the whole copy back.             *)
(*                                                                         *)
(* The wall clock is abstracted: a token or a lock may expire at any       *)
(* moment.  A Password stands for its hash, which hashPasswordForLogin     *)
(* computes deterministically and, for this model, without collisions.     *)
(***************************************************************************)
EXTENDS FMDDB, FiniteSets

CONSTANTS
  Request,              \* goroutines: requests that may be in flight together
  Name,                 \* usernames
  Password,             \* (hashes of) passwords
  Api,                  \* API versions the clients use, a subset of {1, 2}
  Op,                   \* the kinds of requests the clients send
  MAX_ALLOWED_ATTEMPTS, \* failed logins that lock an account
  MaxId,                \* bound: rows ever inserted
  MaxToken,             \* bound: access tokens ever minted
  MaxCount,             \* bound: failures counted on one name
  None                  \* no name, no password, no row

AllOps == {"register", "login", "touch", "password", "logout", "delete"}

ASSUME RequestAssumption == IsFiniteSet(Request)
ASSUME NoneAssumption == None \notin Name \cup Password
ASSUME ApiAssumption == Api \subseteq {1, 2}
ASSUME OpAssumption == Op \subseteq AllOps
ASSUME AttemptsAssumption == MAX_ALLOWED_ATTEMPTS \in Nat \ {0}
ASSUME BoundsAssumption == {MaxId, MaxToken, MaxCount} \subseteq Nat

VARIABLES
  users,         \* table fmd_users: row id -> row
  lastId,        \* its AUTOINCREMENT counter
  accessTokens,  \* AccessController.accessTokens: token -> session
  lastToken,     \* number of tokens minted so far
  lockedUsers,   \* AccessController.lockedUsers: FailedCount, 0 for no entry
  req,           \* what each request is doing
  notices,       \* history: lock notifications sent since the lock entry was made
  stale,         \* history: some request has used its copy of a row after the
                 \* stored row had changed (or gone)
  miscounted     \* history: some failure was counted on top of a count that had
                 \* changed since it was read

vars == <<users, lastId, accessTokens, lastToken, lockedUsers, req, notices, stale,
          miscounted>>

Id == 1..MaxId
Token == 1..MaxToken

(* The columns of FMDUser the session logic reads; the sharing columns are *)
(* in module Family.  A Save writes these and all the others.              *)
Row == [username : Name, hashedPassword : Password, CryptoProtoVersion : {1, 2}]

(* An AccessToken.  account and password are history: the row whose        *)
(* password was compared, and the password that opened the session.        *)
Session == [username : Name, account : Id, password : Password]

(* Where a request stands: the step it takes next.                         *)
PC == {"idle", "getUser", "touch", "password", "resetTokens", "logout", "delete",
       "forget", "create", "requestAccess", "isLocked", "compare", "increment", "notify"}

(* A request: its next step, what it is for, the API it came in by, the    *)
(* name and password it carries, the token it presented, its private copy  *)
(* of the account row with the row's id, and the failure count it read.    *)
RequestState == [pc : PC, op : AllOps \cup {None}, api : {0, 1, 2}, name : Name \cup {None},
                 pw : Password \cup {None}, token : Token \cup {0},
                 id : Id \cup {0}, row : Row \cup {None}, count : Nat]

Idle == [pc |-> "idle", op |-> None, api |-> 0, name |-> None, pw |-> None,
         token |-> 0, id |-> 0, row |-> None, count |-> 0]

Goto(r, state) == req' = [req EXCEPT ![r] = state]
Done(r) == Goto(r, Idle)

(* Request r saves a row.  The database may refuse, and nobody is told.    *)
SaveRow(r, row) == users' \in {Save(users, req[r].id, row), users}

(* The copy request r holds is still what the table holds.                 *)
Fresh(r) == req[r].id \in DOMAIN users /\ users[req[r].id] = req[r].row
UseCopy(r) == stale' = (stale \/ ~Fresh(r))

TypeOK ==
  /\ DOMAIN users \subseteq 1..lastId /\ users \in [DOMAIN users -> Row]
  /\ lastId \in 0..MaxId
  /\ DOMAIN accessTokens \subseteq 1..lastToken
  /\ accessTokens \in [DOMAIN accessTokens -> Session]
  /\ lastToken \in 0..MaxToken
  /\ lockedUsers \in [Name -> Nat]
  /\ req \in [Request -> RequestState]
  /\ notices \in [Name -> Nat]
  /\ stale \in BOOLEAN /\ miscounted \in BOOLEAN

Empty == [i \in {} |-> None]

Init ==
  /\ users = Empty /\ lastId = 0
  /\ accessTokens = Empty /\ lastToken = 0
  /\ lockedUsers = [n \in Name |-> 0]
  /\ req = [r \in Request |-> Idle]
  /\ notices = [n \in Name |-> 0]
  /\ stale = FALSE /\ miscounted = FALSE
-----------------------------------------------------------------------------
(* AccessController: the session and lock maps.                            *)

IsLockedLate(locks, n) == locks[n] > MAX_ALLOWED_ATTEMPTS   \* mutant: off by one
IsLocked(locks, n) == locks[n] >= MAX_ALLOWED_ATTEMPTS

ResetLock(n) ==
  /\ lockedUsers' = [lockedUsers EXCEPT ![n] = 0]
  /\ notices' = [notices EXCEPT ![n] = 0]

WithoutTokensOfNobody(tokens, n) == tokens                   \* mutant: sessions kept
WithoutTokensOf(tokens, n) ==
  [t \in {u \in DOMAIN tokens : tokens[u].username # n} |-> tokens[t]]

(* A fresh token, good for the account with this name.                     *)
CreateNewAccessToken(n, i, p) ==
  /\ lastToken < MaxToken
  /\ lastToken' = lastToken + 1
  /\ accessTokens' = [t \in DOMAIN accessTokens \cup {lastToken + 1} |->
                        IF t = lastToken + 1
                        THEN [username |-> n, account |-> i, password |-> p]
                        ELSE accessTokens[t]]

(* A token is past its time: found so by CheckAccessToken, or by the       *)
(* sweep that runs every 15 minutes.                                       *)
ExpireToken ==
  \E t \in DOMAIN accessTokens :
    /\ accessTokens' = [u \in DOMAIN accessTokens \ {t} |-> accessTokens[u]]
    /\ UNCHANGED <<users, lastId, lastToken, lockedUsers, req, notices, stale, miscounted>>

(* A lock entry is past its time: found so by IsLocked, by IncrementLock   *)
(* (which then counts from 1 again), or by the sweep.                      *)
ExpireLock ==
  \E n \in Name :
    /\ lockedUsers[n] > 0
    /\ ResetLock(n)
    /\ UNCHANGED <<users, lastId, accessTokens, lastToken, req, stale, miscounted>>
-----------------------------------------------------------------------------
(* CheckAccessTokenAndGetUser, which every authenticated handler runs      *)
(* first: the token map is read, then the row, and then the row is written *)
(* back with a new LastSeenTime.  An unknown token is answered 401 and     *)
(* changes nothing.                                                        *)

CheckAccessToken(r) ==
  /\ req[r].pc = "idle"
  /\ \E t \in DOMAIN accessTokens, op \in Op \cap {"touch", "password", "logout", "delete"},
        api \in Api, p \in Password \cup {None} :
       /\ p = None <=> op # "password"
       /\ Goto(r, [Idle EXCEPT !.pc = "getUser", !.op = op, !.api = api, !.pw = p,
                               !.token = t, !.name = accessTokens[t].username])
  /\ UNCHANGED <<users, lastId, accessTokens, lastToken, lockedUsers, notices, stale, miscounted>>

GetUser(r) ==
  /\ req[r].pc = "getUser"
  /\ \/ \E i \in GetByName(users, req[r].name) :
          Goto(r, [req[r] EXCEPT !.pc = "touch", !.id = i, !.row = users[i]])
     \/ GetByName(users, req[r].name) = {} /\ Done(r)
  /\ UNCHANGED <<users, lastId, accessTokens, lastToken, lockedUsers, notices, stale, miscounted>>

Touch(r) ==
  /\ req[r].pc = "touch"
  /\ SaveRow(r, req[r].row)
  /\ UseCopy(r)
  /\ IF req[r].op = "touch" THEN Done(r) ELSE Goto(r, [req[r] EXCEPT !.pc = req[r].op])
  /\ UNCHANGED <<lastId, accessTokens, lastToken, lockedUsers, notices, miscounted>>
-----------------------------------------------------------------------------
(* RequestAccess: the row is read, then the lock, then the password is     *)
(* hashed and compared with the one in the row that was read.              *)

RequestAccess(r, state) ==
  /\ \/ \E i \in GetByName(users, state.name) :
          Goto(r, [state EXCEPT !.pc = "isLocked", !.id = i, !.row = users[i]])
     \/ GetByName(users, state.name) = {} /\ Done(r)
  /\ UNCHANGED <<users, lastId, accessTokens, lastToken, lockedUsers, notices, stale, miscounted>>

(* POST /login: the client names any account and any password.             *)
PostLogin(r) ==
  /\ req[r].pc = "idle" /\ "login" \in Op
  /\ \E n \in Name, p \in Password :
       RequestAccess(r, [Idle EXCEPT !.op = "login", !.name = n, !.pw = p])

(* The login at the end of a registration or a password change (API v2).   *)
InitialSession(r) ==
  /\ req[r].pc = "requestAccess"
  /\ RequestAccess(r, req[r])

CheckNothing(r) ==                                           \* mutant: no check
  /\ req[r].pc = "isLocked"
  /\ Goto(r, [req[r] EXCEPT !.pc = "compare"])
  /\ UNCHANGED <<users, lastId, accessTokens, lastToken, lockedUsers, notices, stale, miscounted>>
CheckLock(r) ==
  /\ req[r].pc = "isLocked"
  /\ \/ IsLocked(lockedUsers, req[r].name) /\ Done(r)
     \/ ~IsLocked(lockedUsers, req[r].name) /\ Goto(r, [req[r] EXCEPT !.pc = "compare"])
  /\ UNCHANGED <<users, lastId, accessTokens, lastToken, lockedUsers, notices, stale, miscounted>>

LoginSucceeds(r) ==
  /\ req[r].pc = "compare" /\ req[r].pw = req[r].row.hashedPassword
  /\ ResetLock(req[r].name)
  /\ CreateNewAccessToken(req[r].name, req[r].id, req[r].pw)
  /\ UseCopy(r)
  /\ Done(r)
  /\ UNCHANGED <<users, lastId, miscounted>>

(* IncrementLock reads the count, and then writes back one more than it    *)
(* read; the next step looks at the lock again.                            *)
LoginFails(r) ==
  /\ req[r].pc = "compare" /\ req[r].pw # req[r].row.hashedPassword
  /\ lockedUsers[req[r].name] < MaxCount
  /\ Goto(r, [req[r] EXCEPT !.pc = "increment", !.count = lockedUsers[req[r].name]])
  /\ UNCHANGED <<users, lastId, accessTokens, lastToken, lockedUsers, notices, stale, miscounted>>

IncrementLock(r) ==
  /\ req[r].pc = "increment"
  /\ lockedUsers' = [lockedUsers EXCEPT ![req[r].name] = req[r].count + 1]
  /\ miscounted' = (miscounted \/ req[r].count # lockedUsers[req[r].name])
  /\ Goto(r, [req[r] EXCEPT !.pc = "notify", !.count = 0])
  /\ UNCHANGED <<users, lastId, accessTokens, lastToken, notices, stale>>

(* The owner is told once the account is locked: over API v1 by a command  *)
(* written into the row (a Save of the copy), otherwise by a message,      *)
(* which the foreign key refuses when the account is gone.                 *)
Notify(r) ==
  /\ req[r].pc = "notify"
  /\ Done(r)
  /\ LET locked == IsLocked(lockedUsers, req[r].name)
         v1     == req[r].row.CryptoProtoVersion = 1
         sent   == locked /\ (v1 \/ req[r].id \in DOMAIN users)
     IN  /\ notices' = IF sent THEN [notices EXCEPT ![req[r].name] = @ + 1] ELSE notices
         /\ IF locked /\ v1
            THEN SaveRow(r, req[r].row) /\ UseCopy(r)
            ELSE UNCHANGED <<users, stale, miscounted>>
  /\ UNCHANGED <<lastId, accessTokens, lastToken, lockedUsers, miscounted>>
-----------------------------------------------------------------------------
(* CreateNewUser: the name is looked up, and only later the row inserted;  *)
(* what the insert answers is ignored, refusals included.                  *)

PostRegister(r) ==
  /\ req[r].pc = "idle" /\ "register" \in Op
  /\ \E n \in Name, p \in Password, api \in Api :
       /\ GetByName(users, n) = {}
       /\ Goto(r, [Idle EXCEPT !.pc = "create", !.op = "register", !.api = api,
                               !.name = n, !.pw = p,
                               !.row = [username |-> n, hashedPassword |-> p,
                                        CryptoProtoVersion |-> api]])
  /\ UNCHANGED <<users, lastId, accessTokens, lastToken, lockedUsers, notices, stale, miscounted>>

FirstFreeId == CHOOSE i \in 1..lastId + 1 : i \notin DOMAIN users  \* mutant: ids reused
NextId == lastId + 1

CreateUser(r) ==
  /\ req[r].pc = "create"
  /\ NextId \in Id
  /\ users' \in {Create(users, NextId, req[r].row), users}
  /\ lastId' = IF NextId \in DOMAIN users' THEN NextId ELSE lastId
  /\ IF req[r].api = 2
     THEN Goto(r, [req[r] EXCEPT !.pc = "requestAccess", !.row = None])
     ELSE Done(r)
  /\ UNCHANGED <<accessTokens, lastToken, lockedUsers, notices, stale, miscounted>>
-----------------------------------------------------------------------------
(* UpdateUserPassword (v1) and UpdateUserPasswordV2: the new hash is put   *)
(* into the copy, the copy is saved, then all sessions are revoked, and    *)
(* API v2 opens a new one, or fails to when the save was refused.          *)

UpdateUserPassword(r) ==
  /\ req[r].pc = "password"
  /\ LET row == [req[r].row EXCEPT !.hashedPassword = req[r].pw,
                                   !.CryptoProtoVersion = req[r].api]
     IN  /\ SaveRow(r, row)
         /\ Goto(r, [req[r] EXCEPT !.pc = "resetTokens", !.row = row])
  /\ UseCopy(r)
  /\ UNCHANGED <<lastId, accessTokens, lastToken, lockedUsers, notices, miscounted>>

ResetTokensForUser(r) ==
  /\ req[r].pc = "resetTokens"
  /\ accessTokens' = WithoutTokensOf(accessTokens, req[r].name)
  /\ IF req[r].api = 2
     THEN Goto(r, [req[r] EXCEPT !.pc = "requestAccess", !.id = 0, !.row = None])
     ELSE Done(r)
  /\ UNCHANGED <<users, lastId, lastToken, lockedUsers, notices, stale, miscounted>>

(* POST /logout: RevokeAccessToken, whether or not the token is still      *)
(* there.                                                                  *)
RevokeAccessToken(r) ==
  /\ req[r].pc = "logout"
  /\ accessTokens' = [t \in DOMAIN accessTokens \ {req[r].token} |-> accessTokens[t]]
  /\ Done(r)
  /\ UNCHANGED <<users, lastId, lastToken, lockedUsers, notices, stale, miscounted>>

(* DeleteUser: the row goes, with everything that hangs on it; then the    *)
(* lock and the sessions of its name.  Nothing deleted is an error: the    *)
(* row is already gone, or the database refuses.                           *)
DeleteUser(r) ==
  /\ req[r].pc = "delete"
  /\ users' \in {Delete(users, req[r].id), users}
  /\ IF req[r].id \in DOMAIN users \ DOMAIN users'
     THEN Goto(r, [req[r] EXCEPT !.pc = "forget"]) ELSE Done(r)
  /\ UNCHANGED <<lastId, accessTokens, lastToken, lockedUsers, notices, stale, miscounted>>

ForgetUser(r) ==
  /\ req[r].pc = "forget"
  /\ ResetLock(req[r].name)
  /\ accessTokens' = WithoutTokensOf(accessTokens, req[r].name)
  /\ Done(r)
  /\ UNCHANGED <<users, lastId, lastToken, stale, miscounted>>
-----------------------------------------------------------------------------
(* The process dies, or is stopped, and starts again: what was in memory   *)
(* is gone, requests included; the database file stays.  This also stands  *)
(* for the abort with which the Go runtime answers two unsynchronised      *)
(* writes to a map, should it notice them.                                 *)
Restart ==
  /\ accessTokens' = Empty
  /\ lockedUsers' = [n \in Name |-> 0]
  /\ notices' = [n \in Name |-> 0]
  /\ req' = [r \in Request |-> Idle]
  /\ UNCHANGED <<users, lastId, lastToken, stale, miscounted>>

Step(r) ==
  \/ CheckAccessToken(r) \/ GetUser(r) \/ Touch(r)
  \/ PostLogin(r) \/ InitialSession(r) \/ CheckLock(r)
  \/ LoginSucceeds(r) \/ LoginFails(r) \/ IncrementLock(r) \/ Notify(r)
  \/ PostRegister(r) \/ CreateUser(r)
  \/ UpdateUserPassword(r) \/ ResetTokensForUser(r)
  \/ RevokeAccessToken(r) \/ DeleteUser(r) \/ ForgetUser(r)

Next == (\E r \in Request : Step(r)) \/ ExpireToken \/ ExpireLock \/ Restart

Spec == Init /\ [][Next]_vars
-----------------------------------------------------------------------------
(* The unique index keeps one row per name, whatever two registrations of  *)
(* one name, or a registration and a Save of a deleted row, do.            *)
OneAccountPerName == UniqueNames(users)

(* Changing a password ends the sessions of the old one, and deleting an   *)
(* account ends its sessions: a session that is still there was opened     *)
(* with the present password of a present account, or the request that     *)
(* revokes it is about to.  This holds for any number of requests in       *)
(* flight, restarts included, until one of them uses an outdated copy.     *)
SessionFollowsPassword(s) ==
  \/ /\ s.account \in DOMAIN users
     /\ users[s.account].username = s.username
     /\ users[s.account].hashedPassword = s.password
  \/ \E r \in Request :
       req[r].pc \in {"resetTokens", "forget"} /\ req[r].name = s.username

SessionsFollowPassword ==
  ~stale => \A t \in DOMAIN accessTokens : SessionFollowsPassword(accessTokens[t])

(* A server that handles one request at a time, crashes and restarts       *)
(* included, never uses an outdated copy.                                  *)
AloneNeverStale == (\E r \in Request : Request = {r}) => ~stale

(* The lock is checked before the password is compared and counted after,  *)
(* so requests in flight may overshoot it, by less than their number.      *)
(* This holds until a failure is counted on an outdated count: then some   *)
(* failures go uncounted.                                                  *)
AttemptsBounded ==
  ~miscounted => \A n \in Name :
    lockedUsers[n] <= MAX_ALLOWED_ATTEMPTS - 1 + Cardinality(Request)

(* One lock brings at most one notification per request in flight, with    *)
(* the same proviso.                                                       *)
NoticesBounded ==
  ~miscounted => \A n \in Name : notices[n] <= Cardinality(Request)

(* The row of a deleted account does not come back, and its id is not      *)
(* given to another account, until an outdated copy is saved.              *)
NoRevival == DOMAIN users' \cap 1..lastId \subseteq DOMAIN users
DeletedForGood == [][~stale' => NoRevival]_vars

(* The stored password of an account only ever becomes one that a request  *)
(* to change it carries, until an outdated copy is saved.                  *)
AskedFor ==
  \A i \in DOMAIN users \cap DOMAIN users' :
    users'[i].hashedPassword # users[i].hashedPassword =>
      \E r \in Request : req[r].pc = "password" /\ req[r].id = i
                           /\ req[r].pw = users'[i].hashedPassword
PasswordChangesAreAskedFor == [][~stale' => AskedFor]_vars
-----------------------------------------------------------------------------
(* What the comments and documents of the repository say without the       *)
(* proviso about outdated copies, and what the code does not keep.         *)

(* user/user_repository.go: a password change revokes all active sessions. *)
SessionsRevoked ==
  \A t \in DOMAIN accessTokens : SessionFollowsPassword(accessTokens[t])
=============================================================================

------------------------ MODULE UserRepository_proofs ------------------------
(***************************************************************************)
(* Proofs about UserRepository, for any number of requests, names and      *)
(* passwords.                                                              *)
(***************************************************************************)
EXTENDS UserRepository, FiniteSetTheorems, TLAPS

(* The steps at which a request holds a copy of a row.                     *)
HasCopy == {"touch", "password", "resetTokens", "logout", "delete", "forget",
            "isLocked", "compare", "increment", "notify"}

(* What a request carries at each step.                                    *)
WellFormed(q, last) ==
  /\ q.pc # "idle" => q.name \in Name
  /\ q.pc \in HasCopy => q.id \in 1..last
  /\ q.pc \in HasCopy \cup {"create"} => q.row \in Row /\ q.row.username = q.name
  /\ q.pc \in {"getUser", "touch"} =>
       /\ q.op \in {"touch", "password", "logout", "delete"}
       /\ q.op = "password" => q.pw \in Password /\ q.api \in {1, 2}
  /\ q.pc \in {"password", "resetTokens", "create"} => q.pw \in Password /\ q.api \in {1, 2}
  /\ q.pc \in {"requestAccess", "isLocked", "compare"} => q.pw \in Password

Typing == TypeOK /\ \A r \in Request : WellFormed(req[r], lastId)
-----------------------------------------------------------------------------
(* A Save or a Create leaves a table of rows, and adds at most the one id. *)
LEMMA SaveType ==
  ASSUME NEW db, NEW i, NEW row \in Row, db \in [DOMAIN db -> Row]
  PROVE  /\ Save(db, i, row) \in [DOMAIN Save(db, i, row) -> Row]
         /\ DOMAIN Save(db, i, row) \subseteq DOMAIN db \cup {i}
BY DEF Save, Write

(* A Create leaves a table of rows, and adds at most the one id.           *)
LEMMA CreateType ==
  ASSUME NEW db, NEW i, NEW row \in Row, db \in [DOMAIN db -> Row]
  PROVE  /\ Create(db, i, row) \in [DOMAIN Create(db, i, row) -> Row]
         /\ DOMAIN Create(db, i, row) \subseteq DOMAIN db \cup {i}
BY DEF Create, Write

(* A Delete leaves a table of rows, without the one id.                    *)
LEMMA DeleteType ==
  ASSUME NEW db, NEW i, db \in [DOMAIN db -> Row]
  PROVE  /\ Delete(db, i) \in [DOMAIN Delete(db, i) -> Row]
         /\ DOMAIN Delete(db, i) = DOMAIN db \ {i}
BY DEF Delete

(* Revoking the tokens of a name leaves a map from tokens to sessions.     *)
LEMMA TokensType ==
  ASSUME NEW n, accessTokens \in [DOMAIN accessTokens -> Session]
  PROVE  /\ WithoutTokensOf(accessTokens, n) \in [DOMAIN WithoutTokensOf(accessTokens, n) -> Session]
         /\ DOMAIN WithoutTokensOf(accessTokens, n) \subseteq DOMAIN accessTokens
BY DEF WithoutTokensOf

(* A request with nothing to do is well formed.                            *)
LEMMA IdleType == Idle \in RequestState /\ \A last : WellFormed(Idle, last)
BY DEF Idle, RequestState, PC, WellFormed, HasCopy

(* A request that moves on to a well-formed state leaves all of them so.   *)
LEMMA GotoTyping ==
  ASSUME Typing, NEW r \in Request, NEW q \in RequestState, Goto(r, q),
         WellFormed(q, lastId'), lastId' \in Int, lastId <= lastId'
  PROVE  req' \in [Request -> RequestState] /\ \A x \in Request : WellFormed(req'[x], lastId')
<1>1. req' \in [Request -> RequestState]
  BY DEF Goto, Typing, TypeOK
<1>2. ASSUME NEW x \in Request  PROVE WellFormed(req'[x], lastId')
  <2>1. CASE x = r
    BY <2>1 DEF Goto, Typing, TypeOK
  <2>2. CASE x # r
    <3>1. req'[x] = req[x] /\ WellFormed(req[x], lastId)
      BY <2>2 DEF Goto, Typing, TypeOK
    <3>2. 1..lastId \subseteq 1..lastId'
      BY BoundsAssumption DEF Typing, TypeOK
    <3> QED BY <3>1, <3>2 DEF WellFormed
  <2> QED BY <2>1, <2>2
<1> QED BY <1>1, <1>2

(* A request that ends leaves all of them well formed.                     *)
LEMMA DoneTyping ==
  ASSUME Typing, NEW r \in Request, Done(r), lastId' \in Int, lastId <= lastId'
  PROVE  req' \in [Request -> RequestState] /\ \A x \in Request : WellFormed(req'[x], lastId')
BY IdleType, GotoTyping DEF Done

(* Init establishes the types.                                             *)
LEMMA InitTyping == Init => Typing
<1> SUFFICES ASSUME Init PROVE Typing
  OBVIOUS
<1>1. users \in [DOMAIN users -> Row] /\ DOMAIN users = {}
  BY DEF Init, Empty
<1>2. accessTokens \in [DOMAIN accessTokens -> Session] /\ DOMAIN accessTokens = {}
  BY DEF Init, Empty
<1>3. req \in [Request -> RequestState] /\ \A r \in Request : WellFormed(req[r], lastId)
  BY IdleType DEF Init
<1>4. lockedUsers \in [Name -> Nat] /\ notices \in [Name -> Nat]
      /\ stale \in BOOLEAN /\ miscounted \in BOOLEAN
  BY DEF Init
<1>5. lastId \in 0..MaxId /\ lastToken \in 0..MaxToken
  BY BoundsAssumption DEF Init
<1> QED BY <1>1, <1>2, <1>3, <1>4, <1>5 DEF Typing, TypeOK

(* CheckAccessTokenAndGetUser.                                             *)
LEMMA AuthTyping ==
  ASSUME Typing, NEW r \in Request, CheckAccessToken(r) \/ GetUser(r) \/ Touch(r)
  PROVE  Typing'
<1>0. req[r] \in RequestState /\ WellFormed(req[r], lastId) /\ lastId \in 0..MaxId
  BY DEF Typing, TypeOK
<1>1. CASE CheckAccessToken(r)
  <2> PICK t \in DOMAIN accessTokens, op \in {"touch", "password", "logout", "delete"},
           api \in {1, 2}, p \in Password \cup {None} :
         /\ p = None <=> op # "password"
         /\ Goto(r, [Idle EXCEPT !.pc = "getUser", !.op = op, !.api = api, !.pw = p,
                                 !.token = t, !.name = accessTokens[t].username])
    BY <1>1, ApiAssumption DEF CheckAccessToken
  <2> DEFINE q == [Idle EXCEPT !.pc = "getUser", !.op = op, !.api = api, !.pw = p,
                               !.token = t, !.name = accessTokens[t].username]
  <2>1. t \in Token /\ accessTokens[t].username \in Name
    BY BoundsAssumption DEF Typing, TypeOK, Token, Session
  <2>2. q \in RequestState /\ WellFormed(q, lastId)
    BY <2>1 DEF Idle, RequestState, PC, AllOps, WellFormed, HasCopy
  <2>3. UNCHANGED <<users, lastId, accessTokens, lastToken, lockedUsers, notices, stale, miscounted>>
    BY <1>1 DEF CheckAccessToken
  <2>4. req' \in [Request -> RequestState] /\ \A x \in Request : WellFormed(req'[x], lastId')
    <3> HIDE DEF q
    <3> QED BY <2>2, <2>3, <1>0, GotoTyping, BoundsAssumption DEF q
  <2> QED BY <2>3, <2>4 DEF Typing, TypeOK
<1>2. CASE GetUser(r)
  <2>1. UNCHANGED <<users, lastId, accessTokens, lastToken, lockedUsers, notices, stale, miscounted>>
    BY <1>2 DEF GetUser
  <2>2. CASE Done(r)
    BY <2>1, <2>2, <1>0, DoneTyping, BoundsAssumption DEF Typing, TypeOK
  <2>3. ASSUME NEW i \in GetByName(users, req[r].name),
               Goto(r, [req[r] EXCEPT !.pc = "touch", !.id = i, !.row = users[i]])
        PROVE  Typing'
    <3> DEFINE q == [req[r] EXCEPT !.pc = "touch", !.id = i, !.row = users[i]]
    <3>1. i \in Id /\ i \in 1..lastId /\ users[i] \in Row /\ users[i].username = req[r].name
      BY <1>0, BoundsAssumption DEF GetByName, Typing, TypeOK, Id
    <3>2. q \in RequestState /\ WellFormed(q, lastId)
      BY <3>1, <1>0, <1>2 DEF GetUser, RequestState, PC, WellFormed, HasCopy
    <3>3. req' \in [Request -> RequestState] /\ \A x \in Request : WellFormed(req'[x], lastId')
      <4> HIDE DEF q
      <4> QED BY <2>1, <2>3, <3>2, <1>0, GotoTyping, BoundsAssumption DEF q
    <3> QED BY <2>1, <3>3 DEF Typing, TypeOK
  <2> QED BY <1>2, <2>2, <2>3 DEF GetUser
<1>3. CASE Touch(r)
  <2>1. /\ UNCHANGED <<lastId, accessTokens, lastToken, lockedUsers, notices, miscounted>>
        /\ users' \in {Save(users, req[r].id, req[r].row), users}
        /\ stale' \in BOOLEAN
    BY <1>3 DEF Touch, SaveRow, UseCopy, Typing, TypeOK
  <2>2. req[r].row \in Row /\ req[r].id \in 1..lastId
    BY <1>0, <1>3 DEF Touch, WellFormed, HasCopy
  <2>3. users' \in [DOMAIN users' -> Row] /\ DOMAIN users' \subseteq 1..lastId
    BY <2>1, <2>2, SaveType DEF Typing, TypeOK
  <2>4. req' \in [Request -> RequestState] /\ \A x \in Request : WellFormed(req'[x], lastId')
    <3>1. CASE Done(r)
      BY <3>1, <2>1, <1>0, DoneTyping, BoundsAssumption
    <3>2. CASE req[r].op # "touch" /\ Goto(r, [req[r] EXCEPT !.pc = req[r].op])
      <4> DEFINE q == [req[r] EXCEPT !.pc = req[r].op]
      <4>1. q \in RequestState /\ WellFormed(q, lastId)
        BY <3>2, <1>0, <1>3 DEF Touch, RequestState, PC, WellFormed, HasCopy
      <4> HIDE DEF q
      <4> QED BY <2>1, <3>2, <4>1, <1>0, GotoTyping, BoundsAssumption DEF q
    <3> QED BY <1>3, <3>1, <3>2 DEF Touch
  <2> QED BY <2>1, <2>3, <2>4 DEF Typing, TypeOK
<1> QED BY <1>1, <1>2, <1>3

(* RequestAccess, from either of its callers.                              *)
LEMMA RequestAccessTyping ==
  ASSUME Typing, NEW r \in Request, NEW q \in RequestState,
         WellFormed(q, lastId), q.name \in Name, q.pw \in Password, RequestAccess(r, q)
  PROVE  Typing'
<1>0. lastId \in 0..MaxId
  BY DEF Typing, TypeOK
<1>1. UNCHANGED <<users, lastId, accessTokens, lastToken, lockedUsers, notices, stale, miscounted>>
  BY DEF RequestAccess
<1>2. CASE Done(r)
  BY <1>0, <1>1, <1>2, DoneTyping, BoundsAssumption DEF Typing, TypeOK
<1>3. ASSUME NEW i \in GetByName(users, q.name),
             Goto(r, [q EXCEPT !.pc = "isLocked", !.id = i, !.row = users[i]])
      PROVE  Typing'
  <2> DEFINE p == [q EXCEPT !.pc = "isLocked", !.id = i, !.row = users[i]]
  <2>1. i \in Id /\ i \in 1..lastId /\ users[i] \in Row /\ users[i].username = q.name
    BY <1>0, BoundsAssumption DEF GetByName, Typing, TypeOK, Id
  <2>2. p \in RequestState /\ WellFormed(p, lastId)
    <3>1. p \in RequestState
      BY <2>1 DEF RequestState, PC
    <3>2. /\ p.pc = "isLocked" /\ p.id = i /\ p.row = users[i]
          /\ p.name = q.name /\ p.pw = q.pw
      BY DEF RequestState
    <3> QED BY <2>1, <3>1, <3>2 DEF WellFormed, HasCopy
  <2>3. req' \in [Request -> RequestState] /\ \A x \in Request : WellFormed(req'[x], lastId')
    <3> HIDE DEF p
    <3> QED BY <1>0, <1>1, <1>3, <2>2, GotoTyping, BoundsAssumption DEF p
  <2> QED BY <1>1, <2>3 DEF Typing, TypeOK
<1> QED BY <1>2, <1>3 DEF RequestAccess

(* The steps of RequestAccess keep the types.                              *)
LEMMA LoginTyping ==
  ASSUME Typing, NEW r \in Request,
         \/ PostLogin(r) \/ InitialSession(r) \/ CheckLock(r)
         \/ LoginSucceeds(r) \/ LoginFails(r) \/ IncrementLock(r) \/ Notify(r)
  PROVE  Typing'
<1>0. req[r] \in RequestState /\ WellFormed(req[r], lastId) /\ lastId \in 0..MaxId
  BY DEF Typing, TypeOK
<1>1. CASE PostLogin(r)
  <2> PICK n \in Name, p \in Password :
         RequestAccess(r, [Idle EXCEPT !.op = "login", !.name = n, !.pw = p])
    BY <1>1 DEF PostLogin
  <2> DEFINE q == [Idle EXCEPT !.op = "login", !.name = n, !.pw = p]
  <2>1. q \in RequestState /\ WellFormed(q, lastId) /\ q.name \in Name /\ q.pw \in Password
    BY DEF Idle, RequestState, PC, AllOps, WellFormed, HasCopy
  <2> HIDE DEF q
  <2> QED BY <2>1, RequestAccessTyping DEF q
<1>2. CASE InitialSession(r)
  <2>1. req[r].name \in Name /\ req[r].pw \in Password /\ RequestAccess(r, req[r])
    BY <1>0, <1>2 DEF InitialSession, WellFormed
  <2> QED BY <1>0, <2>1, RequestAccessTyping
<1>3. CASE CheckLock(r)
  <2>1. UNCHANGED <<users, lastId, accessTokens, lastToken, lockedUsers, notices, stale, miscounted>>
    BY <1>3 DEF CheckLock
  <2>2. CASE Done(r)
    BY <1>0, <2>1, <2>2, DoneTyping, BoundsAssumption DEF Typing, TypeOK
  <2>3. CASE Goto(r, [req[r] EXCEPT !.pc = "compare"])
    <3> DEFINE q == [req[r] EXCEPT !.pc = "compare"]
    <3>1. q \in RequestState /\ WellFormed(q, lastId)
      BY <1>0, <1>3 DEF CheckLock, RequestState, PC, WellFormed, HasCopy
    <3>2. req' \in [Request -> RequestState] /\ \A x \in Request : WellFormed(req'[x], lastId')
      <4> HIDE DEF q
      <4> QED BY <1>0, <2>1, <2>3, <3>1, GotoTyping, BoundsAssumption DEF q
    <3> QED BY <2>1, <3>2 DEF Typing, TypeOK
  <2> QED BY <1>3, <2>2, <2>3 DEF CheckLock
<1>4. CASE LoginSucceeds(r)
  <2>1. UNCHANGED <<users, lastId, miscounted>> /\ Done(r) /\ stale' \in BOOLEAN
    BY <1>4 DEF LoginSucceeds, UseCopy, Typing, TypeOK
  <2>2. lockedUsers' \in [Name -> Nat] /\ notices' \in [Name -> Nat]
    BY <1>4 DEF LoginSucceeds, ResetLock, Typing, TypeOK
  <2>3. lastToken' = lastToken + 1 /\ lastToken' \in 0..MaxToken
    BY <1>4, BoundsAssumption DEF LoginSucceeds, CreateNewAccessToken, Typing, TypeOK
  <2>4. req[r].name \in Name /\ req[r].id \in Id /\ req[r].pw \in Password
    BY <1>0, <1>4, BoundsAssumption DEF LoginSucceeds, WellFormed, HasCopy, Id
  <2>5. accessTokens' \in [DOMAIN accessTokens' -> Session] /\ DOMAIN accessTokens' \subseteq 1..lastToken'
    BY <1>4, <2>3, <2>4, BoundsAssumption
       DEF LoginSucceeds, CreateNewAccessToken, Session, Typing, TypeOK
  <2>6. req' \in [Request -> RequestState] /\ \A x \in Request : WellFormed(req'[x], lastId')
    BY <1>0, <2>1, DoneTyping, BoundsAssumption
  <2> QED BY <2>1, <2>2, <2>3, <2>5, <2>6 DEF Typing, TypeOK
<1>5. CASE LoginFails(r)
  <2> DEFINE q == [req[r] EXCEPT !.pc = "increment", !.count = lockedUsers[req[r].name]]
  <2>1. /\ UNCHANGED <<users, lastId, accessTokens, lastToken, lockedUsers, notices, stale, miscounted>>
        /\ Goto(r, q)
    BY <1>5 DEF LoginFails
  <2>2. lockedUsers[req[r].name] \in Nat
    BY <1>0, <1>5 DEF LoginFails, WellFormed, Typing, TypeOK
  <2>3. q \in RequestState /\ WellFormed(q, lastId)
    BY <1>0, <1>5, <2>2 DEF LoginFails, RequestState, PC, WellFormed, HasCopy
  <2>4. req' \in [Request -> RequestState] /\ \A x \in Request : WellFormed(req'[x], lastId')
    <3> HIDE DEF q
    <3> QED BY <1>0, <2>1, <2>3, GotoTyping, BoundsAssumption
  <2> QED BY <2>1, <2>4 DEF Typing, TypeOK
<1>7. CASE IncrementLock(r)
  <2> DEFINE q == [req[r] EXCEPT !.pc = "notify", !.count = 0]
  <2>1. /\ UNCHANGED <<users, lastId, accessTokens, lastToken, notices, stale>>
        /\ Goto(r, q) /\ miscounted' \in BOOLEAN
    BY <1>7 DEF IncrementLock, Typing, TypeOK
  <2>2. lockedUsers' \in [Name -> Nat]
    <3>1. req[r].count + 1 \in Nat
      BY <1>0 DEF RequestState
    <3> QED BY <1>7, <3>1 DEF IncrementLock, Typing, TypeOK
  <2>3. q \in RequestState /\ WellFormed(q, lastId)
    BY <1>0, <1>7 DEF IncrementLock, RequestState, PC, WellFormed, HasCopy
  <2>4. req' \in [Request -> RequestState] /\ \A x \in Request : WellFormed(req'[x], lastId')
    <3> HIDE DEF q
    <3> QED BY <1>0, <2>1, <2>3, GotoTyping, BoundsAssumption
  <2> QED BY <2>1, <2>2, <2>4 DEF Typing, TypeOK
<1>6. CASE Notify(r)
  <2>1. UNCHANGED <<lastId, accessTokens, lastToken, lockedUsers, miscounted>> /\ Done(r)
    BY <1>6 DEF Notify
  <2>2. notices' \in [Name -> Nat]
    <3>1. notices \in [Name -> Nat] /\ req[r].name \in Name
      BY <1>0, <1>6 DEF Notify, WellFormed, Typing, TypeOK
    <3>2. notices[req[r].name] + 1 \in Nat
      BY <3>1
    <3> QED BY <1>6, <3>1, <3>2 DEF Notify
  <2>3. stale' \in BOOLEAN /\ (users' = users \/ users' = Save(users, req[r].id, req[r].row))
    BY <1>6 DEF Notify, SaveRow, UseCopy, Typing, TypeOK
  <2>4. req[r].row \in Row /\ req[r].id \in 1..lastId
    BY <1>0, <1>6 DEF Notify, WellFormed, HasCopy
  <2>5. users' \in [DOMAIN users' -> Row] /\ DOMAIN users' \subseteq 1..lastId
    BY <2>3, <2>4, SaveType DEF Typing, TypeOK
  <2>6. req' \in [Request -> RequestState] /\ \A x \in Request : WellFormed(req'[x], lastId')
    BY <1>0, <2>1, DoneTyping, BoundsAssumption
  <2> QED BY <2>1, <2>2, <2>3, <2>5, <2>6 DEF Typing, TypeOK
<1> QED BY <1>1, <1>2, <1>3, <1>4, <1>5, <1>6, <1>7

(* CreateNewUser.                                                          *)
LEMMA RegisterTyping ==
  ASSUME Typing, NEW r \in Request, PostRegister(r) \/ CreateUser(r)
  PROVE  Typing'
<1>0. req[r] \in RequestState /\ WellFormed(req[r], lastId) /\ lastId \in 0..MaxId
  BY DEF Typing, TypeOK
<1>1. CASE PostRegister(r)
  <2> PICK n \in Name, p \in Password, api \in {1, 2} :
         Goto(r, [Idle EXCEPT !.pc = "create", !.op = "register", !.api = api,
                              !.name = n, !.pw = p,
                              !.row = [username |-> n, hashedPassword |-> p,
                                       CryptoProtoVersion |-> api]])
    BY <1>1, ApiAssumption DEF PostRegister
  <2> DEFINE row == [username |-> n, hashedPassword |-> p, CryptoProtoVersion |-> api]
             q == [Idle EXCEPT !.pc = "create", !.op = "register", !.api = api,
                               !.name = n, !.pw = p, !.row = row]
  <2>1. UNCHANGED <<users, lastId, accessTokens, lastToken, lockedUsers, notices, stale, miscounted>>
    BY <1>1 DEF PostRegister
  <2>2. row \in Row /\ row.username = n
    BY DEF Row
  <2>3. q \in RequestState /\ WellFormed(q, lastId)
    <3> HIDE DEF row
    <3> QED BY <2>2 DEF Idle, RequestState, PC, AllOps, WellFormed, HasCopy
  <2>4. req' \in [Request -> RequestState] /\ \A x \in Request : WellFormed(req'[x], lastId')
    <3> HIDE DEF q
    <3> QED BY <1>0, <2>1, <2>3, GotoTyping, BoundsAssumption DEF q
  <2> QED BY <2>1, <2>4 DEF Typing, TypeOK
<1>2. CASE CreateUser(r)
  <2>1. UNCHANGED <<accessTokens, lastToken, lockedUsers, notices, stale, miscounted>>
    BY <1>2 DEF CreateUser
  <2>2. users' \in {Create(users, lastId + 1, req[r].row), users} /\ req[r].row \in Row
    BY <1>0, <1>2 DEF CreateUser, NextId, WellFormed, HasCopy
  <2>3. /\ users' \in [DOMAIN users' -> Row]
        /\ DOMAIN users' \subseteq DOMAIN users \cup {lastId + 1}
    BY <2>2, CreateType DEF Typing, TypeOK
  <2>4. /\ lastId' = IF lastId + 1 \in DOMAIN users' THEN lastId + 1 ELSE lastId
        /\ lastId + 1 \in 1..MaxId
    BY <1>2 DEF CreateUser, NextId, Id
  <2>5. DOMAIN users' \subseteq 1..lastId' /\ lastId' \in 0..MaxId /\ lastId <= lastId'
    BY <1>0, <2>3, <2>4, BoundsAssumption DEF Typing, TypeOK
  <2>6. req' \in [Request -> RequestState] /\ \A x \in Request : WellFormed(req'[x], lastId')
    <3>1. CASE Done(r)
      BY <1>0, <2>5, <3>1, DoneTyping, BoundsAssumption
    <3>2. CASE Goto(r, [req[r] EXCEPT !.pc = "requestAccess", !.row = None])
      <4> DEFINE q == [req[r] EXCEPT !.pc = "requestAccess", !.row = None]
      <4>1. q \in RequestState /\ WellFormed(q, lastId')
        BY <1>0, <1>2 DEF CreateUser, RequestState, PC, WellFormed, HasCopy
      <4> HIDE DEF q
      <4> QED BY <1>0, <2>5, <3>2, <4>1, GotoTyping, BoundsAssumption DEF q
    <3> QED BY <1>2, <3>1, <3>2 DEF CreateUser
  <2> QED BY <2>1, <2>3, <2>5, <2>6 DEF Typing, TypeOK
<1> QED BY <1>1, <1>2

(* Password changes, logout and deletion.                                  *)
LEMMA ChangeTyping ==
  ASSUME Typing, NEW r \in Request,
         \/ UpdateUserPassword(r) \/ ResetTokensForUser(r)
         \/ RevokeAccessToken(r) \/ DeleteUser(r) \/ ForgetUser(r)
  PROVE  Typing'
<1>0. req[r] \in RequestState /\ WellFormed(req[r], lastId) /\ lastId \in 0..MaxId
  BY DEF Typing, TypeOK
<1>1. CASE UpdateUserPassword(r)
  <2> DEFINE row == [req[r].row EXCEPT !.hashedPassword = req[r].pw,
                                       !.CryptoProtoVersion = req[r].api]
             q == [req[r] EXCEPT !.pc = "resetTokens", !.row = row]
  <2>1. /\ UNCHANGED <<lastId, accessTokens, lastToken, lockedUsers, notices, miscounted>>
        /\ users' \in {Save(users, req[r].id, row), users}
        /\ Goto(r, q) /\ stale' \in BOOLEAN
    BY <1>1 DEF UpdateUserPassword, SaveRow, UseCopy, Typing, TypeOK
  <2>2. row \in Row /\ row.username = req[r].name /\ req[r].id \in 1..lastId
    BY <1>0, <1>1 DEF UpdateUserPassword, WellFormed, HasCopy, Row
  <2> HIDE DEF row
  <2>3. q \in RequestState /\ WellFormed(q, lastId)
    BY <1>0, <1>1, <2>2 DEF UpdateUserPassword, RequestState, PC, WellFormed, HasCopy
  <2>4. users' \in [DOMAIN users' -> Row] /\ DOMAIN users' \subseteq 1..lastId
    BY <2>1, <2>2, SaveType DEF Typing, TypeOK
  <2>5. req' \in [Request -> RequestState] /\ \A x \in Request : WellFormed(req'[x], lastId')
    <3> HIDE DEF q
    <3> QED BY <1>0, <2>1, <2>3, GotoTyping, BoundsAssumption
  <2> QED BY <2>1, <2>4, <2>5 DEF Typing, TypeOK
<1>2. CASE ResetTokensForUser(r)
  <2>1. /\ UNCHANGED <<users, lastId, lastToken, lockedUsers, notices, stale, miscounted>>
        /\ accessTokens' = WithoutTokensOf(accessTokens, req[r].name)
    BY <1>2 DEF ResetTokensForUser
  <2>2. accessTokens' \in [DOMAIN accessTokens' -> Session] /\ DOMAIN accessTokens' \subseteq 1..lastToken
    BY <2>1, TokensType DEF Typing, TypeOK
  <2>3. req' \in [Request -> RequestState] /\ \A x \in Request : WellFormed(req'[x], lastId')
    <3>1. CASE Done(r)
      BY <1>0, <2>1, <3>1, DoneTyping, BoundsAssumption
    <3>2. CASE Goto(r, [req[r] EXCEPT !.pc = "requestAccess", !.id = 0, !.row = None])
      <4> DEFINE q == [req[r] EXCEPT !.pc = "requestAccess", !.id = 0, !.row = None]
      <4>1. q \in RequestState /\ WellFormed(q, lastId)
        BY <1>0, <1>2 DEF ResetTokensForUser, RequestState, PC, WellFormed, HasCopy
      <4> HIDE DEF q
      <4> QED BY <1>0, <2>1, <3>2, <4>1, GotoTyping, BoundsAssumption DEF q
    <3> QED BY <1>2, <3>1, <3>2 DEF ResetTokensForUser
  <2> QED BY <2>1, <2>2, <2>3 DEF Typing, TypeOK
<1>3. CASE RevokeAccessToken(r)
  <2>1. UNCHANGED <<users, lastId, lastToken, lockedUsers, notices, stale, miscounted>> /\ Done(r)
    BY <1>3 DEF RevokeAccessToken
  <2>2. accessTokens' \in [DOMAIN accessTokens' -> Session] /\ DOMAIN accessTokens' \subseteq 1..lastToken
    BY <1>3 DEF RevokeAccessToken, Typing, TypeOK
  <2>3. req' \in [Request -> RequestState] /\ \A x \in Request : WellFormed(req'[x], lastId')
    BY <1>0, <2>1, DoneTyping, BoundsAssumption
  <2> QED BY <2>1, <2>2, <2>3 DEF Typing, TypeOK
<1>4. CASE DeleteUser(r)
  <2>1. /\ UNCHANGED <<lastId, accessTokens, lastToken, lockedUsers, notices, stale, miscounted>>
        /\ users' \in {Delete(users, req[r].id), users}
    BY <1>4 DEF DeleteUser
  <2>2. users' \in [DOMAIN users' -> Row] /\ DOMAIN users' \subseteq 1..lastId
    <3>1. users \in [DOMAIN users -> Row] /\ DOMAIN users \subseteq 1..lastId
      BY DEF Typing, TypeOK
    <3> QED BY <2>1, <3>1, DeleteType
  <2>3. req' \in [Request -> RequestState] /\ \A x \in Request : WellFormed(req'[x], lastId')
    <3>1. CASE Done(r)
      BY <1>0, <2>1, <3>1, DoneTyping, BoundsAssumption
    <3>2. CASE Goto(r, [req[r] EXCEPT !.pc = "forget"])
      <4> DEFINE q == [req[r] EXCEPT !.pc = "forget"]
      <4>1. q \in RequestState /\ WellFormed(q, lastId)
        BY <1>0, <1>4 DEF DeleteUser, RequestState, PC, WellFormed, HasCopy
      <4> HIDE DEF q
      <4> QED BY <1>0, <2>1, <3>2, <4>1, GotoTyping, BoundsAssumption DEF q
    <3> QED BY <1>4, <3>1, <3>2 DEF DeleteUser
  <2> QED BY <2>1, <2>2, <2>3 DEF Typing, TypeOK
<1>5. CASE ForgetUser(r)
  <2>1. /\ UNCHANGED <<users, lastId, lastToken, stale, miscounted>> /\ Done(r)
        /\ accessTokens' = WithoutTokensOf(accessTokens, req[r].name)
    BY <1>5 DEF ForgetUser
  <2>2. accessTokens' \in [DOMAIN accessTokens' -> Session] /\ DOMAIN accessTokens' \subseteq 1..lastToken
    BY <2>1, TokensType DEF Typing, TypeOK
  <2>3. lockedUsers' \in [Name -> Nat] /\ notices' \in [Name -> Nat]
    BY <1>5 DEF ForgetUser, ResetLock, Typing, TypeOK
  <2>4. req' \in [Request -> RequestState] /\ \A x \in Request : WellFormed(req'[x], lastId')
    BY <1>0, <2>1, DoneTyping, BoundsAssumption
  <2> QED BY <2>1, <2>2, <2>3, <2>4 DEF Typing, TypeOK
<1> QED BY <1>1, <1>2, <1>3, <1>4, <1>5

(* Expiry and restarts.                                                    *)
LEMMA ServerTyping ==
  ASSUME Typing, ExpireToken \/ ExpireLock \/ Restart
  PROVE  Typing'
<1>1. CASE ExpireToken
  BY <1>1 DEF ExpireToken, Typing, TypeOK
<1>2. CASE ExpireLock
  BY <1>2 DEF ExpireLock, ResetLock, Typing, TypeOK
<1>3. CASE Restart
  <2>1. UNCHANGED <<users, lastId, lastToken, stale, miscounted>>
    BY <1>3 DEF Restart
  <2>2. accessTokens' \in [DOMAIN accessTokens' -> Session] /\ DOMAIN accessTokens' = {}
    BY <1>3 DEF Restart, Empty
  <2>3. req' \in [Request -> RequestState] /\ \A x \in Request : WellFormed(req'[x], lastId')
    BY <1>3, IdleType DEF Restart
  <2>4. lockedUsers' \in [Name -> Nat] /\ notices' \in [Name -> Nat]
    BY <1>3 DEF Restart
  <2> QED BY <2>1, <2>2, <2>3, <2>4 DEF Typing, TypeOK
<1> QED BY <1>1, <1>2, <1>3

(* Every variable keeps its type and every request carries what its next   *)
(* step needs, in particular a copy of a row of the account it is for.     *)
THEOREM RequestsWellFormed == Spec => []Typing
<1>1. Init => Typing
  BY InitTyping
<1>2. Typing /\ [Next]_vars => Typing'
  <2> SUFFICES ASSUME Typing, [Next]_vars PROVE Typing'
    OBVIOUS
  <2>1. ASSUME NEW r \in Request, Step(r) PROVE Typing'
    BY <2>1, AuthTyping, LoginTyping, RegisterTyping, ChangeTyping DEF Step
  <2>2. CASE UNCHANGED vars
    BY <2>2 DEF vars, Typing, TypeOK
  <2> QED BY <2>1, <2>2, ServerTyping DEF Next
<1> QED BY <1>1, <1>2, PTL DEF Spec

(* Every variable keeps its type.                                          *)
THEOREM TypesCorrect == Spec => []TypeOK
<1>1. Typing => TypeOK
  BY DEF Typing
<1> QED BY <1>1, RequestsWellFormed, PTL
-----------------------------------------------------------------------------
(* Who is whose: names are unique, and copies of one row are of one name,  *)
(* the name in the table if the row is still there.  A row that was        *)
(* deleted can come back by a Save, so this has to speak of copies too.    *)
Holds(r) == req[r].pc \in HasCopy

CopiesAgree ==
  \A r, q \in Request :
    Holds(r) /\ Holds(q) /\ req[r].id = req[q].id => req[r].name = req[q].name

CopiesNamed ==
  \A r \in Request :
    Holds(r) /\ req[r].id \in DOMAIN users => users[req[r].id].username = req[r].name

Naming == OneAccountPerName /\ CopiesAgree /\ CopiesNamed

(* No request takes a new copy.                                            *)
NoNewCopy ==
  \A r \in Request :
    Holds(r)' => Holds(r) /\ req'[r].id = req[r].id /\ req'[r].name = req[r].name

(* Every row of the new table was there under its name, or is new, or is   *)
(* written by a request that holds a copy of it.                           *)
NamesKept ==
  \A i \in DOMAIN users' :
    \/ i \in DOMAIN users /\ users'[i].username = users[i].username
    \/ i \notin 1..lastId
    \/ \E r \in Request :
         Holds(r) /\ req[r].id = i /\ users'[i].username = req[r].name

(* A step keeps Naming if it keeps names unique and every copy's name.     *)
LEMMA NamingStep ==
  ASSUME Typing, Naming, NoNewCopy, NamesKept, UniqueNames(users')
  PROVE  Naming'
<1>1. CopiesAgree'
  BY DEF Naming, CopiesAgree, NoNewCopy
<1>2. ASSUME NEW r \in Request, Holds(r)', req'[r].id \in DOMAIN users'
      PROVE  users'[req'[r].id].username = req'[r].name
  <2>1. Holds(r) /\ req'[r].id = req[r].id /\ req'[r].name = req[r].name
    BY <1>2 DEF NoNewCopy
  <2>2. req[r].id \in 1..lastId
    BY <2>1 DEF Typing, WellFormed, Holds
  <2>3. CASE req[r].id \in DOMAIN users /\ users'[req[r].id].username = users[req[r].id].username
    BY <2>1, <2>3 DEF Naming, CopiesNamed
  <2>4. ASSUME NEW q \in Request,
               Holds(q) /\ req[q].id = req[r].id /\ users'[req[r].id].username = req[q].name
        PROVE  users'[req'[r].id].username = req'[r].name
    BY <2>1, <2>4 DEF Naming, CopiesAgree
  <2> QED BY <1>2, <2>1, <2>2, <2>3, <2>4 DEF NamesKept
<1> QED BY <1>1, <1>2 DEF Naming, CopiesNamed, OneAccountPerName

(* A request takes a copy of the row that its name has in the table.       *)
LEMMA NamingCopy ==
  ASSUME Typing, Naming, NEW r \in Request, users' = users,
         \A x \in Request \ {r} : req'[x] = req[x],
         Holds(r)' => /\ req'[r].id \in DOMAIN users
                      /\ users[req'[r].id].username = req'[r].name
  PROVE  Naming'
<1>1. CopiesNamed' /\ OneAccountPerName'
  BY DEF Naming, CopiesNamed, OneAccountPerName, Holds
<1>2. ASSUME NEW x \in Request, NEW y \in Request, Holds(x)', Holds(y)', req'[x].id = req'[y].id
      PROVE  req'[x].name = req'[y].name
  <2>1. CASE x = r
    BY <1>1, <1>2, <2>1 DEF CopiesNamed
  <2>2. CASE y = r
    BY <1>1, <1>2, <2>2 DEF CopiesNamed
  <2>3. CASE x # r /\ y # r
    BY <1>2, <2>3 DEF Naming, CopiesAgree, Holds
  <2> QED BY <2>1, <2>2, <2>3
<1> QED BY <1>1, <1>2 DEF Naming, CopiesAgree

(* The unique index does its work.                                         *)
LEMMA SaveUnique ==
  ASSUME NEW db, NEW i, NEW row \in Row, db \in [DOMAIN db -> Row], UniqueNames(db)
  PROVE  UniqueNames(Save(db, i, row)) /\ UniqueNames(Create(db, i, row))
BY DEF UniqueNames, Save, Create, Write, NameTaken

(* Only i changes, and only to row.                                        *)
LEMMA SaveChanges ==
  ASSUME NEW db, NEW i, NEW row, NEW j \in DOMAIN Save(db, i, row)
  PROVE  (j \in DOMAIN db /\ Save(db, i, row)[j] = db[j]) \/ (j = i /\ Save(db, i, row)[j] = row)
BY DEF Save, Write

(* A Create changes no row that is there.                                  *)
LEMMA CreateChanges ==
  ASSUME NEW db, NEW i, NEW row, NEW j \in DOMAIN Create(db, i, row)
  PROVE  (j \in DOMAIN db /\ Create(db, i, row)[j] = db[j]) \/ j = i
BY DEF Create, Write

(* A request that becomes idle, or keeps its name and id, takes no copy.   *)
LEMMA GotoNoCopy ==
  ASSUME Typing, NEW r \in Request, NEW q, Goto(r, q),
         q.pc \in HasCopy => Holds(r) /\ q.id = req[r].id /\ q.name = req[r].name
  PROVE  NoNewCopy
BY DEF Typing, TypeOK, Goto, NoNewCopy, Holds

(* A request that ends takes no copy.                                      *)
LEMMA DoneNoCopy ==
  ASSUME Typing, NEW r \in Request, Done(r)
  PROVE  NoNewCopy
<1>1. Idle.pc \notin HasCopy
  BY DEF Idle, HasCopy
<1> QED BY <1>1, GotoNoCopy DEF Done

(* What a request that read a row holds.                                   *)
LEMMA CopyTaken ==
  ASSUME Typing, NEW r \in Request, NEW q \in RequestState, NEW step,
         \/ \E i \in GetByName(users, q.name) :
              Goto(r, [q EXCEPT !.pc = step, !.id = i, !.row = users[i]])
         \/ Done(r)
  PROVE  Holds(r)' => /\ req'[r].id \in DOMAIN users
                      /\ users[req'[r].id].username = req'[r].name
<1>1. CASE Done(r)
  BY <1>1 DEF Done, Goto, Idle, Holds, HasCopy, Typing, TypeOK
<1>2. ASSUME NEW i \in GetByName(users, q.name),
             Goto(r, [q EXCEPT !.pc = step, !.id = i, !.row = users[i]])
      PROVE  req'[r].id \in DOMAIN users /\ users[req'[r].id].username = req'[r].name
  <2>1. req'[r] = [q EXCEPT !.pc = step, !.id = i, !.row = users[i]]
    BY <1>2 DEF Goto, Typing, TypeOK
  <2>2. req'[r].id = i /\ req'[r].name = q.name
    BY <2>1 DEF RequestState
  <2> QED BY <1>2, <2>2 DEF GetByName
<1> QED BY <1>1, <1>2

(* Every step keeps Naming.                                                *)
LEMMA NamingNext ==
  ASSUME Typing, Naming, [Next]_vars
  PROVE  Naming'
<1>0. /\ users \in [DOMAIN users -> Row] /\ UniqueNames(users) /\ DOMAIN users \subseteq 1..lastId
      /\ lastId \in Nat
  BY BoundsAssumption DEF Typing, TypeOK, Naming, OneAccountPerName
<1>u. ASSUME users' = users PROVE NamesKept /\ UniqueNames(users')
  BY <1>0, <1>u DEF NamesKept
<1>s. ASSUME NEW r \in Request, Holds(r), NEW row \in Row, row.username = req[r].name,
             users' = Save(users, req[r].id, row)
      PROVE  NamesKept /\ UniqueNames(users')
  BY <1>0, <1>s, SaveUnique, SaveChanges DEF NamesKept
<1>1. ASSUME NEW r \in Request, Step(r) PROVE Naming'
  <2>0. req[r] \in RequestState /\ WellFormed(req[r], lastId)
    BY DEF Typing, TypeOK
  <2>1. CASE CheckAccessToken(r)
    <3> PICK op, n, t, api, p :
          /\ op \in AllOps /\ n \in Name
          /\ Goto(r, [Idle EXCEPT !.pc = "getUser", !.op = op, !.api = api, !.pw = p,
                                  !.token = t, !.name = n])
      BY <2>1, OpAssumption DEF CheckAccessToken, Typing, TypeOK, Session
    <3>1. NoNewCopy
      BY GotoNoCopy DEF Idle, HasCopy
    <3> QED BY <1>u, <2>1, <3>1, NamingStep DEF CheckAccessToken
  <2>2. CASE GetUser(r)
    <3>1. users' = users /\ \A x \in Request \ {r} : req'[x] = req[x]
      BY <2>2 DEF GetUser, Goto, Done, Typing, TypeOK
    <3>2. Holds(r)' => /\ req'[r].id \in DOMAIN users
                       /\ users[req'[r].id].username = req'[r].name
      BY <2>0, <2>2, CopyTaken DEF GetUser
    <3> QED BY <3>1, <3>2, NamingCopy
  <2>3. CASE Touch(r)
    <3>1. Holds(r) /\ req[r].row \in Row /\ req[r].row.username = req[r].name
      BY <2>0, <2>3 DEF Touch, WellFormed, Holds, HasCopy
    <3>2. NoNewCopy
      <4>1. CASE Goto(r, [req[r] EXCEPT !.pc = req[r].op])
        <5> DEFINE q == [req[r] EXCEPT !.pc = req[r].op]
        <5>1. q.id = req[r].id /\ q.name = req[r].name
          BY <2>0 DEF RequestState
        <5> HIDE DEF q
        <5> QED BY <3>1, <4>1, <5>1, GotoNoCopy DEF q
      <4> QED BY <2>3, <4>1, DoneNoCopy DEF Touch
    <3> QED BY <1>s, <1>u, <2>3, <3>1, <3>2, NamingStep DEF Touch, SaveRow
  <2>4. ASSUME NEW q \in RequestState, RequestAccess(r, q) PROVE Naming'
    <3>1. users' = users /\ \A x \in Request \ {r} : req'[x] = req[x]
      BY <2>4 DEF RequestAccess, Goto, Done, Typing, TypeOK
    <3>2. Holds(r)' => /\ req'[r].id \in DOMAIN users
                       /\ users[req'[r].id].username = req'[r].name
      BY <2>4, CopyTaken DEF RequestAccess
    <3> QED BY <3>1, <3>2, NamingCopy
  <2>5. CASE PostLogin(r) \/ InitialSession(r)
    <3>1. \A n \in Name, p \in Password :
            [Idle EXCEPT !.op = "login", !.name = n, !.pw = p] \in RequestState
      BY DEF Idle, RequestState, PC, AllOps
    <3> QED BY <2>0, <2>4, <2>5, <3>1 DEF PostLogin, InitialSession
  <2>6. CASE CheckLock(r)
    <3>1. NoNewCopy
      <4>1. CASE Goto(r, [req[r] EXCEPT !.pc = "compare"])
        <5>1. Holds(r) /\ [req[r] EXCEPT !.pc = "compare"].id = req[r].id
              /\ [req[r] EXCEPT !.pc = "compare"].name = req[r].name
          BY <2>0, <2>6 DEF CheckLock, RequestState, Holds, HasCopy
        <5> QED BY <4>1, <5>1, GotoNoCopy
      <4> QED BY <2>6, <4>1, DoneNoCopy DEF CheckLock
    <3> QED BY <1>u, <2>6, <3>1, NamingStep DEF CheckLock
  <2>7. CASE LoginSucceeds(r)
    BY <1>u, <2>7, DoneNoCopy, NamingStep DEF LoginSucceeds
  <2>8. CASE LoginFails(r)
    <3> DEFINE q == [req[r] EXCEPT !.pc = "increment", !.count = lockedUsers[req[r].name]]
    <3>1. Holds(r) /\ q.id = req[r].id /\ q.name = req[r].name /\ Goto(r, q)
      BY <2>0, <2>8 DEF LoginFails, RequestState, Holds, HasCopy
    <3> HIDE DEF q
    <3>2. NoNewCopy
      BY <3>1, GotoNoCopy
    <3> QED BY <1>u, <2>8, <3>2, NamingStep DEF LoginFails
  <2>17. CASE IncrementLock(r)
    <3> DEFINE q == [req[r] EXCEPT !.pc = "notify", !.count = 0]
    <3>1. Holds(r) /\ q.id = req[r].id /\ q.name = req[r].name /\ Goto(r, q)
      BY <2>0, <2>17 DEF IncrementLock, RequestState, Holds, HasCopy
    <3> HIDE DEF q
    <3>2. NoNewCopy
      BY <3>1, GotoNoCopy
    <3> QED BY <1>u, <2>17, <3>2, NamingStep DEF IncrementLock
  <2>9. CASE Notify(r)
    <3>1. Holds(r) /\ req[r].row \in Row /\ req[r].row.username = req[r].name
      BY <2>0, <2>9 DEF Notify, WellFormed, Holds, HasCopy
    <3>2. users' = users \/ users' = Save(users, req[r].id, req[r].row)
      BY <2>9 DEF Notify, SaveRow
    <3> QED BY <1>u, <1>s, <2>9, <3>1, <3>2, DoneNoCopy, NamingStep DEF Notify
  <2>10. CASE PostRegister(r)
    <3> PICK n, p, api, row :
          Goto(r, [Idle EXCEPT !.pc = "create", !.op = "register", !.api = api,
                               !.name = n, !.pw = p, !.row = row])
      BY <2>10 DEF PostRegister
    <3>1. NoNewCopy
      BY GotoNoCopy DEF Idle, HasCopy
    <3> QED BY <1>u, <2>10, <3>1, NamingStep DEF PostRegister
  <2>11. CASE CreateUser(r)
    <3>1. NoNewCopy
      <4>1. CASE Goto(r, [req[r] EXCEPT !.pc = "requestAccess", !.row = None])
        <5>1. [req[r] EXCEPT !.pc = "requestAccess", !.row = None].pc \notin HasCopy
          BY <2>0 DEF RequestState, HasCopy
        <5> QED BY <4>1, <5>1, GotoNoCopy
      <4> QED BY <2>11, <4>1, DoneNoCopy DEF CreateUser
    <3>2. users' \in {Create(users, lastId + 1, req[r].row), users} /\ req[r].row \in Row
      BY <2>0, <2>11 DEF CreateUser, NextId, WellFormed
    <3>3. UniqueNames(users')
      BY <1>0, <3>2, SaveUnique
    <3>4. NamesKept
      BY <1>0, <3>2, CreateChanges DEF NamesKept
    <3> QED BY <3>1, <3>3, <3>4, NamingStep
  <2>12. CASE UpdateUserPassword(r)
    <3> DEFINE row == [req[r].row EXCEPT !.hashedPassword = req[r].pw,
                                         !.CryptoProtoVersion = req[r].api]
               q == [req[r] EXCEPT !.pc = "resetTokens", !.row = row]
    <3>1. Holds(r) /\ row \in Row /\ row.username = req[r].name
      BY <2>0, <2>12 DEF UpdateUserPassword, WellFormed, Holds, HasCopy, Row
    <3>2. users' \in {Save(users, req[r].id, row), users} /\ Goto(r, q)
      BY <2>12 DEF UpdateUserPassword, SaveRow
    <3> HIDE DEF row
    <3>3. q.id = req[r].id /\ q.name = req[r].name
      BY <2>0 DEF RequestState
    <3> HIDE DEF q
    <3>4. NoNewCopy
      BY <3>1, <3>2, <3>3, GotoNoCopy
    <3> QED BY <1>s, <1>u, <3>1, <3>2, <3>4, NamingStep
  <2>13. CASE ResetTokensForUser(r)
    <3>1. NoNewCopy
      <4>1. CASE Goto(r, [req[r] EXCEPT !.pc = "requestAccess", !.id = 0, !.row = None])
        <5>1. [req[r] EXCEPT !.pc = "requestAccess", !.id = 0, !.row = None].pc \notin HasCopy
          BY <2>0 DEF RequestState, HasCopy
        <5> QED BY <4>1, <5>1, GotoNoCopy
      <4> QED BY <2>13, <4>1, DoneNoCopy DEF ResetTokensForUser
    <3> QED BY <1>u, <2>13, <3>1, NamingStep DEF ResetTokensForUser
  <2>14. CASE RevokeAccessToken(r)
    BY <1>u, <2>14, DoneNoCopy, NamingStep DEF RevokeAccessToken
  <2>15. CASE DeleteUser(r)
    <3>1. NoNewCopy
      <4>1. CASE Goto(r, [req[r] EXCEPT !.pc = "forget"])
        <5>1. Holds(r) /\ [req[r] EXCEPT !.pc = "forget"].id = req[r].id
              /\ [req[r] EXCEPT !.pc = "forget"].name = req[r].name
          BY <2>0, <2>15 DEF DeleteUser, RequestState, Holds, HasCopy
        <5> QED BY <4>1, <5>1, GotoNoCopy
      <4> QED BY <2>15, <4>1, DoneNoCopy DEF DeleteUser
    <3>2. UniqueNames(users') /\ NamesKept
      BY <1>0, <2>15 DEF DeleteUser, Delete, UniqueNames, NamesKept
    <3> QED BY <3>1, <3>2, NamingStep
  <2>16. CASE ForgetUser(r)
    BY <1>u, <2>16, DoneNoCopy, NamingStep DEF ForgetUser
  <2> QED BY <1>1, <2>1, <2>2, <2>3, <2>5, <2>6, <2>7, <2>8, <2>9, <2>10, <2>11, <2>12,
             <2>13, <2>14, <2>15, <2>16, <2>17 DEF Step
<1>2. CASE ExpireToken \/ ExpireLock \/ UNCHANGED vars
  <3>1. NoNewCopy /\ users' = users
    BY <1>2 DEF ExpireToken, ExpireLock, vars, NoNewCopy, Holds
  <3> QED BY <1>u, <3>1, NamingStep
<1>3. CASE Restart
  <3>1. NoNewCopy /\ users' = users
    BY <1>3 DEF Restart, NoNewCopy, Holds, Idle, HasCopy
  <3> QED BY <1>u, <3>1, NamingStep
<1> QED BY <1>1, <1>2, <1>3 DEF Next

(* Accounts have distinct names, and a request's copy is of the account    *)
(* whose name it carries: the invariant behind the next theorem.           *)
THEOREM NamesCorrect == Spec => []Naming
<1>1. Init => Naming
  BY DEF Init, Empty, Naming, OneAccountPerName, UniqueNames, CopiesAgree, CopiesNamed,
         Holds, HasCopy, Idle
<1>2. Typing /\ Naming /\ [Next]_vars => Naming'
  BY NamingNext
<1> QED BY <1>1, <1>2, RequestsWellFormed, PTL DEF Spec

(* One account per name, for any number of concurrent registrations.       *)
THEOREM AccountsUnique == Spec => []OneAccountPerName
<1>1. Naming => OneAccountPerName
  BY DEF Naming
<1> QED BY <1>1, NamesCorrect, PTL
-----------------------------------------------------------------------------
(* Sessions follow the password, as long as nobody uses an outdated copy.  *)

(* Saving a fresh copy changes nothing.                                    *)
LEMMA FreshSave ==
  ASSUME Typing, NEW r \in Request, Fresh(r)
  PROVE  Save(users, req[r].id, req[r].row) = users
<1>1. DOMAIN users \cup {req[r].id} = DOMAIN users
  BY DEF Fresh
<1>2. users = [j \in DOMAIN users |-> users[j]]
  BY DEF Typing, TypeOK
<1>3. Write(users, req[r].id, req[r].row) = users
  BY <1>1, <1>2 DEF Write, Fresh
<1> QED BY <1>3 DEF Save

(* SessionFollowsPassword, of any table and any state of the requests.     *)
FollowsIn(s, db, rq) ==
  \/ s.account \in DOMAIN db /\ db[s.account].username = s.username
                             /\ db[s.account].hashedPassword = s.password
  \/ \E r \in Request : rq[r].pc \in {"resetTokens", "forget"} /\ rq[r].name = s.username

(* A step that moves no request out of a revocation and writes no row of a *)
(* session but under a new revocation of its name leaves it following.     *)
LEMMA KeepsFollowing ==
  ASSUME NEW s, FollowsIn(s, users, req),
         \A r \in Request :
           req[r].pc \in {"resetTokens", "forget"} /\ req[r].name = s.username =>
             req'[r].pc \in {"resetTokens", "forget"} /\ req'[r].name = s.username,
         s.account \in DOMAIN users => s.account \in DOMAIN users' /\ users'[s.account] = users[s.account]
  PROVE  FollowsIn(s, users', req')
BY DEF FollowsIn

(* Only its own next step takes a request out of a revocation.             *)
LEMMA OthersRevoke ==
  ASSUME Typing, NEW r \in Request, NEW q, Goto(r, q), req[r].pc \notin {"resetTokens", "forget"}
  PROVE  \A x \in Request : req[x].pc \in {"resetTokens", "forget"} => req'[x] = req[x]
BY DEF Goto, Typing, TypeOK

(* Every step keeps the sessions in line with the passwords.               *)
LEMMA SessionsNext ==
  ASSUME Typing, Naming, SessionsFollowPassword, [Next]_vars
  PROVE  SessionsFollowPassword'
<1> SUFFICES ASSUME ~stale', NEW t \in DOMAIN accessTokens'
             PROVE  FollowsIn(accessTokens'[t], users', req')
  BY DEF SessionsFollowPassword, SessionFollowsPassword, FollowsIn
<1>0. /\ ~stale
      /\ \A u \in DOMAIN accessTokens : FollowsIn(accessTokens[u], users, req)
      /\ users \in [DOMAIN users -> Row] /\ DOMAIN users \subseteq 1..lastId /\ lastId \in Nat
  <2>1. ~stale
    BY DEF Next, Step, vars, CheckAccessToken, GetUser, Touch, PostLogin, InitialSession, RequestAccess,
           CheckLock, LoginSucceeds, LoginFails, IncrementLock, Notify, PostRegister,
           CreateUser, UpdateUserPassword,
           ResetTokensForUser, RevokeAccessToken, DeleteUser, ForgetUser, ExpireToken, ExpireLock,
           Restart, UseCopy
  <2> QED BY <2>1, BoundsAssumption
       DEF SessionsFollowPassword, SessionFollowsPassword, FollowsIn, Typing, TypeOK
<1> DEFINE s == accessTokens'[t]
(* Steps that leave the table alone and are no revocation.                 *)
<1>q. ASSUME NEW r \in Request, NEW q, Goto(r, q), req[r].pc \notin {"resetTokens", "forget"},
             users' = users, FollowsIn(s, users, req)
      PROVE  FollowsIn(s, users', req')
  BY <1>q, OthersRevoke DEF FollowsIn
(* Steps that leave the tokens alone too.                                  *)
<1>k. ASSUME NEW r \in Request, NEW q, Goto(r, q), req[r].pc \notin {"resetTokens", "forget"},
             users' = users, accessTokens' = accessTokens
      PROVE  FollowsIn(s, users', req')
  BY <1>0, <1>k, <1>q
<1>1. ASSUME NEW r \in Request, Step(r) PROVE FollowsIn(s, users', req')
  <2>0. req[r] \in RequestState /\ WellFormed(req[r], lastId)
    BY DEF Typing, TypeOK
  <2>1. CASE CheckAccessToken(r)
    <3> PICK q : Goto(r, q)
      BY <2>1 DEF CheckAccessToken
    <3> QED BY <1>k, <2>1 DEF CheckAccessToken
  <2>2. CASE GetUser(r)
    <3> PICK q : Goto(r, q)
      BY <2>2 DEF GetUser, Done
    <3> QED BY <1>k, <2>2 DEF GetUser
  <2>3. CASE Touch(r)
    <3> PICK q : Goto(r, q)
      BY <2>3 DEF Touch, Done
    <3>1. users' = users
      BY <2>3, FreshSave DEF Touch, SaveRow, UseCopy
    <3> QED BY <1>k, <2>3, <3>1 DEF Touch
  <2>4. CASE PostLogin(r) \/ InitialSession(r)
    <3> PICK q : Goto(r, q)
      BY <2>4 DEF PostLogin, InitialSession, RequestAccess, Done
    <3> QED BY <1>k, <2>4 DEF PostLogin, InitialSession, RequestAccess
  <2>5. CASE CheckLock(r)
    <3> PICK q : Goto(r, q)
      BY <2>5 DEF CheckLock, Done
    <3> QED BY <1>k, <2>5 DEF CheckLock
  <2>6. CASE LoginSucceeds(r)
    <3>1. /\ Goto(r, Idle) /\ users' = users /\ Fresh(r)
          /\ req[r].pc = "compare" /\ req[r].pw = req[r].row.hashedPassword
      BY <2>6 DEF LoginSucceeds, Done, UseCopy
    <3>2. CASE t \in DOMAIN accessTokens /\ t # lastToken + 1
      BY <1>0, <1>q, <2>6, <3>1, <3>2 DEF LoginSucceeds, CreateNewAccessToken
    <3>3. CASE t = lastToken + 1
      <4>1. s = [username |-> req[r].name, account |-> req[r].id, password |-> req[r].pw]
        BY <2>6, <3>3 DEF LoginSucceeds, CreateNewAccessToken
      <4>2. req[r].row.username = req[r].name
        BY <2>0, <3>1 DEF WellFormed, HasCopy
      <4> QED BY <3>1, <4>1, <4>2 DEF Fresh, FollowsIn
    <3> QED BY <2>6, <3>2, <3>3 DEF LoginSucceeds, CreateNewAccessToken
  <2>7. CASE LoginFails(r)
    <3> PICK q : Goto(r, q)
      BY <2>7 DEF LoginFails
    <3> QED BY <1>k, <2>7 DEF LoginFails
  <2>16. CASE IncrementLock(r)
    <3> PICK q : Goto(r, q)
      BY <2>16 DEF IncrementLock
    <3> QED BY <1>k, <2>16 DEF IncrementLock
  <2>8. CASE Notify(r)
    <3>1. users' = users
      BY <2>8, FreshSave DEF Notify, SaveRow, UseCopy
    <3> QED BY <1>k, <2>8, <3>1 DEF Notify, Done
  <2>9. CASE PostRegister(r)
    <3> PICK q : Goto(r, q)
      BY <2>9 DEF PostRegister
    <3> QED BY <1>k, <2>9 DEF PostRegister
  <2>10. CASE CreateUser(r)
    <3> PICK q : Goto(r, q)
      BY <2>10 DEF CreateUser, Done
    <3>1. \A x \in Request : req[x].pc \in {"resetTokens", "forget"} => req'[x] = req[x]
      BY <2>10, OthersRevoke DEF CreateUser
    <3>2. \A i \in DOMAIN users : i \in DOMAIN users' /\ users'[i] = users[i]
      BY <1>0, <2>10 DEF CreateUser, NextId, Create, Write
    <3>3. FollowsIn(s, users, req)
      BY <1>0, <2>10 DEF CreateUser
    <3> HIDE DEF s
    <3> QED BY <3>1, <3>2, <3>3 DEF FollowsIn
  <2>11. CASE UpdateUserPassword(r)
    <3> DEFINE row == [req[r].row EXCEPT !.hashedPassword = req[r].pw,
                                         !.CryptoProtoVersion = req[r].api]
               q == [req[r] EXCEPT !.pc = "resetTokens", !.row = row]
    <3>1. Fresh(r) /\ users' \in {Save(users, req[r].id, row), users} /\ Goto(r, q)
      BY <2>11 DEF UpdateUserPassword, SaveRow, UseCopy
    <3>2. FollowsIn(s, users, req)
      BY <1>0, <2>11 DEF UpdateUserPassword
    <3>3. \A x \in Request : req[x].pc \in {"resetTokens", "forget"} => req'[x] = req[x]
      BY <2>11, <3>1, OthersRevoke DEF UpdateUserPassword
    <3>4. req'[r].pc = "resetTokens" /\ req'[r].name = req[r].name
      <4> HIDE DEF row
      <4> QED BY <2>0, <3>1 DEF Goto, RequestState, Typing, TypeOK
    <3>5. users[req[r].id].username = req[r].name
      BY <2>0, <2>11, <3>1 DEF UpdateUserPassword, WellFormed, HasCopy, Fresh
    <3>6. \A i \in DOMAIN users : i # req[r].id => i \in DOMAIN users' /\ users'[i] = users[i]
      BY <3>1 DEF Save, Write
    <3> HIDE DEF s, row, q
    <3> QED BY <3>2, <3>3, <3>4, <3>5, <3>6 DEF FollowsIn
  <2>12. CASE ResetTokensForUser(r) \/ ForgetUser(r)
    <3>1. /\ accessTokens' = WithoutTokensOf(accessTokens, req[r].name)
          /\ users' = users
      BY <2>12 DEF ResetTokensForUser, ForgetUser
    <3>2. \A x \in Request \ {r} : req'[x] = req[x]
      BY <2>12 DEF ResetTokensForUser, ForgetUser, Done, Goto, Typing, TypeOK
    <3>3. s.username # req[r].name /\ FollowsIn(s, users, req)
      BY <1>0, <3>1 DEF WithoutTokensOf
    <3> HIDE DEF s
    <3> QED BY <3>1, <3>2, <3>3 DEF FollowsIn
  <2>13. CASE RevokeAccessToken(r)
    <3>1. /\ Goto(r, Idle) /\ users' = users /\ req[r].pc = "logout"
          /\ t \in DOMAIN accessTokens /\ accessTokens'[t] = accessTokens[t]
      BY <2>13 DEF RevokeAccessToken, Done
    <3> QED BY <1>0, <1>q, <3>1
  <2>14. CASE DeleteUser(r)
    <3>1. /\ users' \in {Delete(users, req[r].id), users} /\ accessTokens' = accessTokens
          /\ req[r].pc = "delete"
      BY <2>14 DEF DeleteUser
    <3>2. FollowsIn(s, users, req)
      BY <1>0, <3>1
    <3> PICK q : Goto(r, q)
      BY <2>14 DEF DeleteUser, Done
    <3>3. \A x \in Request : req[x].pc \in {"resetTokens", "forget"} => req'[x] = req[x]
      BY <3>1, OthersRevoke
    <3>4. \A i \in DOMAIN users : i # req[r].id \/ i \in DOMAIN users' =>
            i \in DOMAIN users' /\ users'[i] = users[i]
      BY <3>1 DEF Delete
    <3>5. req[r].id \in DOMAIN users \ DOMAIN users' =>
            /\ req'[r].pc = "forget" /\ req'[r].name = req[r].name
            /\ users[req[r].id].username = req[r].name
      BY <2>0, <2>14 DEF DeleteUser, Goto, RequestState, Naming, CopiesNamed, Holds, HasCopy, Typing, TypeOK
    <3> HIDE DEF s
    <3> QED BY <3>2, <3>3, <3>4, <3>5 DEF FollowsIn
  <2> QED BY <1>1, <2>1, <2>2, <2>3, <2>4, <2>5, <2>6, <2>7, <2>8, <2>9, <2>10, <2>11, <2>12,
             <2>13, <2>14, <2>16 DEF Step
<1>2. CASE ExpireToken \/ ExpireLock \/ UNCHANGED vars
  <2>1. /\ users' = users /\ req' = req
        /\ t \in DOMAIN accessTokens /\ accessTokens'[t] = accessTokens[t]
    BY <1>2 DEF ExpireToken, ExpireLock, vars
  <2> QED BY <1>0, <2>1
<1>3. CASE Restart
  BY <1>3 DEF Restart, Empty
<1> QED BY <1>1, <1>2, <1>3 DEF Next

(* After a password change, and after an account is deleted, no session of *)
(* before is left, whatever the interleaving and wherever the server dies, *)
(* unless some request saved, or logged in from, an outdated copy.         *)
THEOREM SessionsCorrect == Spec => []SessionsFollowPassword
<1>1. Init => SessionsFollowPassword
  BY DEF Init, Empty, SessionsFollowPassword
<1>2. Typing /\ Naming /\ SessionsFollowPassword /\ [Next]_vars => SessionsFollowPassword'
  BY SessionsNext
<1> QED BY <1>1, <1>2, RequestsWellFormed, NamesCorrect, PTL DEF Spec
-----------------------------------------------------------------------------
(* What a step may do to the table when no outdated copy is used: nothing, *)
(* insert a new id, delete a row, or change the password of one as asked.  *)
LEMMA TableSteps ==
  ASSUME Typing, [Next]_vars, ~stale'
  PROVE  \/ users' = users
         \/ users' = Create(users, lastId + 1, users'[lastId + 1])
         \/ \E i : users' = Delete(users, i)
         \/ \E r \in Request : \E row :
              /\ req[r].pc = "password" /\ row.hashedPassword = req[r].pw
              /\ req[r].id \in DOMAIN users
              /\ users' = Save(users, req[r].id, row)
<1>1. ASSUME NEW r \in Request, Touch(r) \/ Notify(r) PROVE users' = users
  BY <1>1, FreshSave DEF Touch, Notify, SaveRow, UseCopy
<1>2. ASSUME NEW r \in Request, CreateUser(r)
      PROVE  users' = users \/ users' = Create(users, lastId + 1, users'[lastId + 1])
  <2> SUFFICES ASSUME users' # users  PROVE users' = Create(users, lastId + 1, users'[lastId + 1])
    OBVIOUS
  <2>1. users' = Create(users, lastId + 1, req[r].row)
    BY <1>2 DEF CreateUser, NextId
  <2>2. CASE NameTaken(users, lastId + 1, req[r].row.username)
    BY <2>1, <2>2 DEF Create
  <2>3. CASE ~NameTaken(users, lastId + 1, req[r].row.username)
    <3>1. users'[lastId + 1] = req[r].row
      BY <2>1, <2>3 DEF Create, Write
    <3> QED BY <2>1, <3>1
  <2> QED BY <2>2, <2>3
<1>3. ASSUME NEW r \in Request, UpdateUserPassword(r), users' # users
      PROVE  \E row : /\ req[r].pc = "password" /\ row.hashedPassword = req[r].pw
                      /\ req[r].id \in DOMAIN users
                      /\ users' = Save(users, req[r].id, row)
  <2> DEFINE row == [req[r].row EXCEPT !.hashedPassword = req[r].pw,
                                       !.CryptoProtoVersion = req[r].api]
  <2>1. /\ req[r].pc = "password" /\ req[r].id \in DOMAIN users
        /\ users' = Save(users, req[r].id, row)
    BY <1>3 DEF UpdateUserPassword, SaveRow, UseCopy, Fresh
  <2>2. req[r].row \in Row
    BY <1>3 DEF UpdateUserPassword, Typing, WellFormed, HasCopy
  <2>3. row.hashedPassword = req[r].pw
    BY <2>2 DEF Row
  <2> HIDE DEF row
  <2> QED BY <2>1, <2>3
<1>4. ASSUME NEW r \in Request, DeleteUser(r), users' # users PROVE \E i : users' = Delete(users, i)
  BY <1>4 DEF DeleteUser
<1>5. ASSUME NEW r \in Request, Step(r),
             ~Touch(r), ~Notify(r), ~CreateUser(r), ~UpdateUserPassword(r), ~DeleteUser(r)
      PROVE  users' = users
  BY <1>5 DEF Step, CheckAccessToken, GetUser, PostLogin, InitialSession, RequestAccess, CheckLock,
     LoginSucceeds, LoginFails, IncrementLock, PostRegister, ResetTokensForUser, RevokeAccessToken,
     ForgetUser
<1>6. ASSUME ExpireToken \/ ExpireLock \/ Restart \/ UNCHANGED vars PROVE users' = users
  BY <1>6 DEF ExpireToken, ExpireLock, Restart, vars
<1> QED BY <1>1, <1>2, <1>3, <1>4, <1>5, <1>6 DEF Next

(* A deleted account stays deleted, and its id is not given away, unless   *)
(* an outdated copy is saved.                                              *)
THEOREM DeletionIsFinal == Spec => DeletedForGood
<1>1. ASSUME Typing, [Next]_vars, ~stale' PROVE NoRevival
  <2>1. lastId \in Nat /\ lastId + 1 \notin 1..lastId
    BY <1>1, BoundsAssumption DEF Typing, TypeOK
  <2>2. DOMAIN users' \subseteq DOMAIN users \cup {lastId + 1}
    BY <1>1, TableSteps DEF Create, Save, Write, Delete
  <2> QED BY <2>1, <2>2 DEF NoRevival
<1>2. Typing /\ [Next]_vars => [~stale' => NoRevival]_vars
  BY <1>1
<1> QED BY <1>2, RequestsWellFormed, PTL DEF Spec, DeletedForGood

(* The stored password only becomes what a request to change it carries,   *)
(* unless an outdated copy is saved.                                       *)
THEOREM PasswordsChangeAsAsked == Spec => PasswordChangesAreAskedFor
<1>1. ASSUME Typing, [Next]_vars, ~stale' PROVE AskedFor
  <2>1. CASE users' = users \/ \E i : users' = Delete(users, i)
    BY <2>1 DEF AskedFor, Delete
  <2>2. CASE users' = Create(users, lastId + 1, users'[lastId + 1])
    <3>1. lastId + 1 \notin DOMAIN users
      BY <1>1, BoundsAssumption DEF Typing, TypeOK
    <3> QED BY <2>2, <3>1 DEF AskedFor, Create, Write
  <2>3. ASSUME NEW r \in Request, NEW row,
               /\ req[r].pc = "password" /\ row.hashedPassword = req[r].pw
               /\ users' = Save(users, req[r].id, row)
        PROVE  AskedFor
    BY <2>3 DEF AskedFor, Save, Write
  <2> QED BY <1>1, <2>1, <2>2, <2>3, TableSteps
<1>2. Typing /\ [Next]_vars => [~stale' => AskedFor]_vars
  BY <1>1
<1> QED BY <1>2, RequestsWellFormed, PTL DEF Spec, PasswordChangesAreAskedFor
-----------------------------------------------------------------------------
(* One request at a time: the copy a request is about to use is fresh.     *)
UsesCopy == {"touch", "password", "isLocked", "compare", "increment", "notify"}

AloneFresh ==
  (\E r \in Request : Request = {r}) =>
    ~stale /\ \A r \in Request : req[r].pc \in UsesCopy => Fresh(r)

(* A single request's copy is up to date at every step that uses it.       *)
LEMMA AloneNext ==
  ASSUME Typing, AloneFresh, [Next]_vars
  PROVE  AloneFresh'
<1> SUFFICES ASSUME NEW r \in Request, Request = {r}
             PROVE  ~stale' /\ (req'[r].pc \in UsesCopy => Fresh(r)')
  BY DEF AloneFresh
<1>0. ~stale /\ (req[r].pc \in UsesCopy => Fresh(r)) /\ req[r] \in RequestState
  BY DEF AloneFresh, Typing, TypeOK
<1>d. ASSUME Done(r) PROVE req'[r].pc \notin UsesCopy
  BY <1>d DEF Done, Goto, Idle, UsesCopy, Typing, TypeOK
<1>1. CASE CheckAccessToken(r)
  BY <1>0, <1>1 DEF CheckAccessToken, Goto, Idle, UsesCopy, Typing, TypeOK
<1>2. CASE GetUser(r)
  <2>1. ASSUME NEW i \in GetByName(users, req[r].name),
               Goto(r, [req[r] EXCEPT !.pc = "touch", !.id = i, !.row = users[i]])
        PROVE  req'[r].id \in DOMAIN users /\ users[req'[r].id] = req'[r].row
    BY <1>0, <2>1 DEF Goto, GetByName, RequestState, Typing, TypeOK
  <2> QED BY <1>0, <1>2, <1>d, <2>1 DEF GetUser, Fresh
<1>3. CASE Touch(r)
  <2>1. Fresh(r) /\ users' = users /\ ~stale'
    BY <1>0, <1>3, FreshSave DEF Touch, SaveRow, UsesCopy, UseCopy
  <2>2. ASSUME Goto(r, [req[r] EXCEPT !.pc = req[r].op])
        PROVE  req'[r].id = req[r].id /\ req'[r].row = req[r].row
    BY <1>0, <2>2 DEF Goto, RequestState, Typing, TypeOK
  <2> QED BY <1>3, <1>d, <2>1, <2>2 DEF Touch, Fresh
<1>4. CASE PostLogin(r) \/ InitialSession(r)
  <2>1. ASSUME NEW q \in RequestState, RequestAccess(r, q)
        PROVE  users' = users /\ stale' = stale /\ (req'[r].pc \in UsesCopy => Fresh(r)')
    <3>1. ASSUME NEW i \in GetByName(users, q.name),
                 Goto(r, [q EXCEPT !.pc = "isLocked", !.id = i, !.row = users[i]])
          PROVE  req'[r].id \in DOMAIN users /\ users[req'[r].id] = req'[r].row
      BY <3>1 DEF Goto, GetByName, RequestState, Typing, TypeOK
    <3> QED BY <1>d, <2>1, <3>1 DEF RequestAccess, Fresh
  <2>2. \A n \in Name, p \in Password :
          [Idle EXCEPT !.op = "login", !.name = n, !.pw = p] \in RequestState
    BY DEF Idle, RequestState, PC, AllOps
  <2> QED BY <1>0, <1>4, <2>1, <2>2 DEF PostLogin, InitialSession
<1>5. CASE CheckLock(r)
  <2>1. ASSUME Goto(r, [req[r] EXCEPT !.pc = "compare"])
        PROVE  req'[r].id = req[r].id /\ req'[r].row = req[r].row
    BY <1>0, <2>1 DEF Goto, RequestState, Typing, TypeOK
  <2> QED BY <1>0, <1>5, <1>d, <2>1 DEF CheckLock, Fresh, UsesCopy
<1>6. CASE LoginSucceeds(r)
  BY <1>0, <1>6, <1>d DEF LoginSucceeds, UseCopy, UsesCopy
<1>7. CASE LoginFails(r)
  <2>1. req'[r].id = req[r].id /\ req'[r].row = req[r].row
    BY <1>0, <1>7 DEF LoginFails, Goto, RequestState, Typing, TypeOK
  <2> QED BY <1>0, <1>7, <2>1 DEF LoginFails, Fresh, UsesCopy
<1>17. CASE IncrementLock(r)
  <2>1. req'[r].id = req[r].id /\ req'[r].row = req[r].row
    BY <1>0, <1>17 DEF IncrementLock, Goto, RequestState, Typing, TypeOK
  <2> QED BY <1>0, <1>17, <2>1 DEF IncrementLock, Fresh, UsesCopy
<1>8. CASE Notify(r)
  BY <1>0, <1>8, <1>d DEF Notify, UseCopy, UsesCopy
<1>9. CASE PostRegister(r)
  BY <1>0, <1>9 DEF PostRegister, Goto, Idle, UsesCopy, Typing, TypeOK
<1>10. CASE CreateUser(r)
  <2>1. ASSUME Goto(r, [req[r] EXCEPT !.pc = "requestAccess", !.row = None])
        PROVE  req'[r].pc \notin UsesCopy
    BY <1>0, <2>1 DEF Goto, RequestState, UsesCopy, Typing, TypeOK
  <2> QED BY <1>0, <1>10, <1>d, <2>1 DEF CreateUser
<1>11. CASE UpdateUserPassword(r)
  <2>1. ~stale' /\ req'[r].pc = "resetTokens"
    BY <1>0, <1>11 DEF UpdateUserPassword, UseCopy, UsesCopy, Goto, RequestState, Typing, TypeOK
  <2> QED BY <2>1 DEF UsesCopy
<1>12. CASE ResetTokensForUser(r)
  <2>1. ASSUME Goto(r, [req[r] EXCEPT !.pc = "requestAccess", !.id = 0, !.row = None])
        PROVE  req'[r].pc \notin UsesCopy
    BY <1>0, <2>1 DEF Goto, RequestState, UsesCopy, Typing, TypeOK
  <2> QED BY <1>0, <1>12, <1>d, <2>1 DEF ResetTokensForUser
<1>13. CASE RevokeAccessToken(r) \/ ForgetUser(r)
  BY <1>0, <1>13, <1>d DEF RevokeAccessToken, ForgetUser
<1>14. CASE DeleteUser(r)
  <2>1. ASSUME Goto(r, [req[r] EXCEPT !.pc = "forget"])
        PROVE  req'[r].pc \notin UsesCopy
    BY <1>0, <2>1 DEF Goto, RequestState, UsesCopy, Typing, TypeOK
  <2> QED BY <1>0, <1>14, <1>d, <2>1 DEF DeleteUser
<1>15. CASE ExpireToken \/ ExpireLock \/ UNCHANGED vars
  <2>1. users' = users /\ req' = req /\ stale' = stale
    BY <1>15 DEF ExpireToken, ExpireLock, vars
  <2> QED BY <1>0, <2>1 DEF Fresh
<1>16. CASE Restart
  BY <1>0, <1>16 DEF Restart, Idle, UsesCopy
<1> QED BY <1>1, <1>2, <1>3, <1>4, <1>5, <1>6, <1>7, <1>8, <1>9, <1>10, <1>11, <1>12, <1>13,
           <1>14, <1>15, <1>16, <1>17 DEF Next, Step

(* A server that handles one request at a time never uses an outdated      *)
(* copy, so that the theorems above hold for it without their proviso.     *)
THEOREM OneAtATimeIsSafe == Spec => []AloneNeverStale
<1>1. Init => AloneFresh
  BY DEF Init, AloneFresh, UsesCopy, Idle
<1>2. Typing /\ AloneFresh /\ [Next]_vars => AloneFresh'
  BY AloneNext
<1>3. AloneFresh => AloneNeverStale
  BY DEF AloneFresh, AloneNeverStale
<1> QED BY <1>1, <1>2, <1>3, RequestsWellFormed, PTL DEF Spec
-----------------------------------------------------------------------------
(* The lock.  Requests about to compare a password for a name, and those   *)
(* that have failed and are about to look whether that locked it.          *)
Comparing(n) == {r \in Request : req[r].pc \in {"compare", "increment"} /\ req[r].name = n}
Failing(n) ==
  {r \in Request : req[r].pc \in {"compare", "increment", "notify"} /\ req[r].name = n}

(* Failures counted and failures to come never exceed what the lock lets   *)
(* by; and no notification is sent before the name is locked, nor more     *)
(* afterwards than there are requests that were past the lock by then.     *)
LockInv(n) ==
  ~miscounted =>
    /\ lockedUsers[n] + Cardinality(Comparing(n)) <= MAX_ALLOWED_ATTEMPTS - 1 + Cardinality(Request)
    /\ ~IsLocked(lockedUsers, n) => notices[n] = 0
    /\ notices[n] + Cardinality(Failing(n)) <= Cardinality(Request)

(* The numbers LockInv speaks of are natural numbers.                      *)
LEMMA Counts ==
  ASSUME Typing, NEW n \in Name
  PROVE  /\ IsFiniteSet(Comparing(n)) /\ IsFiniteSet(Failing(n))
         /\ Cardinality(Comparing(n)) \in Nat /\ Cardinality(Failing(n)) \in Nat
         /\ Cardinality(Comparing(n)) <= Cardinality(Request)
         /\ Cardinality(Failing(n)) <= Cardinality(Request)
         /\ Cardinality(Request) \in Nat
         /\ lockedUsers[n] \in Nat /\ notices[n] \in Nat
<1>1. Comparing(n) \subseteq Request /\ Failing(n) \subseteq Request
  BY DEF Comparing, Failing
<1>2. /\ IsFiniteSet(Comparing(n)) /\ Cardinality(Comparing(n)) <= Cardinality(Request)
      /\ IsFiniteSet(Failing(n)) /\ Cardinality(Failing(n)) <= Cardinality(Request)
  BY <1>1, RequestAssumption, FS_Subset
<1>3. Cardinality(Comparing(n)) \in Nat /\ Cardinality(Failing(n)) \in Nat /\ Cardinality(Request) \in Nat
  BY <1>2, RequestAssumption, FS_CardinalityType
<1> QED BY <1>2, <1>3 DEF Typing, TypeOK

(* A step that brings nobody closer to a failure of n and leaves its lock  *)
(* alone, or removes it.                                                   *)
LEMMA LockQuiet ==
  ASSUME Typing, Typing', NEW n \in Name, LockInv(n), ~miscounted' => ~miscounted,
         Comparing(n)' \subseteq Comparing(n), Failing(n)' \subseteq Failing(n),
         \/ lockedUsers'[n] = lockedUsers[n] /\ notices'[n] = notices[n]
         \/ lockedUsers'[n] = 0 /\ notices'[n] = 0
  PROVE  LockInv(n)'
<1>1. /\ Cardinality(Comparing(n)') <= Cardinality(Comparing(n))
      /\ Cardinality(Failing(n)') <= Cardinality(Failing(n))
      /\ Cardinality(Comparing(n)') \in Nat /\ Cardinality(Failing(n)') \in Nat
  BY Counts, FS_Subset, FS_CardinalityType
<1>2. /\ Cardinality(Comparing(n)) \in Nat /\ Cardinality(Failing(n)) \in Nat
      /\ Cardinality(Comparing(n)) <= Cardinality(Request)
      /\ Cardinality(Failing(n)) <= Cardinality(Request)
      /\ Cardinality(Request) \in Nat /\ lockedUsers[n] \in Nat /\ notices[n] \in Nat
  BY Counts
<1> QED BY <1>1, <1>2, AttemptsAssumption DEF LockInv, IsLocked

(* A request that goes anywhere but to comparing or failing.               *)
LEMMA QuietGoto ==
  ASSUME Typing, NEW r \in Request, NEW q, Goto(r, q), q.pc \notin {"compare", "increment", "notify"}, NEW n
  PROVE  Comparing(n)' \subseteq Comparing(n) /\ Failing(n)' \subseteq Failing(n)
BY DEF Typing, TypeOK, Goto, Comparing, Failing

(* A request that ends brings nobody closer to a failure.                  *)
LEMMA QuietDone ==
  ASSUME Typing, NEW r \in Request, Done(r), NEW n
  PROVE  Comparing(n)' \subseteq Comparing(n) /\ Failing(n)' \subseteq Failing(n)
BY QuietGoto DEF Done, Idle

(* Every step keeps LockInv.                                               *)
LEMMA LockNext ==
  ASSUME Typing, Typing', NEW n \in Name, LockInv(n), [Next]_vars
  PROVE  LockInv(n)'
<1>m. ~miscounted' => ~miscounted
  BY DEF Next, Step, vars, CheckAccessToken, GetUser, Touch, PostLogin, InitialSession, RequestAccess,
         CheckLock, LoginSucceeds, LoginFails, IncrementLock, Notify, PostRegister, CreateUser,
         UpdateUserPassword, ResetTokensForUser, RevokeAccessToken, DeleteUser, ForgetUser,
         ExpireToken, ExpireLock, Restart
<1>1. ASSUME NEW r \in Request, Step(r) PROVE LockInv(n)'
  <2>0. req[r] \in RequestState /\ WellFormed(req[r], lastId)
    BY DEF Typing, TypeOK
  <2>1. CASE CheckAccessToken(r)
    <3> PICK op, api, p, t, m :
          Goto(r, [Idle EXCEPT !.pc = "getUser", !.op = op, !.api = api, !.pw = p,
                               !.token = t, !.name = m])
      BY <2>1 DEF CheckAccessToken
    <3>1. Comparing(n)' \subseteq Comparing(n) /\ Failing(n)' \subseteq Failing(n)
      BY QuietGoto DEF Idle
    <3> QED BY <2>1, <3>1, LockQuiet, <1>m DEF CheckAccessToken
  <2>2. CASE GetUser(r)
    <3>1. ASSUME NEW i, Goto(r, [req[r] EXCEPT !.pc = "touch", !.id = i, !.row = users[i]])
          PROVE  Comparing(n)' \subseteq Comparing(n) /\ Failing(n)' \subseteq Failing(n)
      <4>1. [req[r] EXCEPT !.pc = "touch", !.id = i, !.row = users[i]].pc = "touch"
        BY <2>0 DEF RequestState
      <4> QED BY <3>1, <4>1, QuietGoto
    <3> QED BY <2>2, <3>1, QuietDone, LockQuiet, <1>m DEF GetUser
  <2>3. CASE Touch(r)
    <3>1. ASSUME Goto(r, [req[r] EXCEPT !.pc = req[r].op])
          PROVE  Comparing(n)' \subseteq Comparing(n) /\ Failing(n)' \subseteq Failing(n)
      <4>1. [req[r] EXCEPT !.pc = req[r].op].pc \notin {"compare", "increment", "notify"}
        BY <2>0, <2>3 DEF Touch, RequestState, WellFormed
      <4> QED BY <3>1, <4>1, QuietGoto
    <3> QED BY <2>3, <3>1, QuietDone, LockQuiet, <1>m DEF Touch
  <2>4. CASE PostLogin(r) \/ InitialSession(r)
    <3>1. \A m \in Name, p \in Password :
            [Idle EXCEPT !.op = "login", !.name = m, !.pw = p] \in RequestState
      BY DEF Idle, RequestState, PC, AllOps
    <3> PICK q \in RequestState : RequestAccess(r, q)
      BY <2>0, <2>4, <3>1 DEF PostLogin, InitialSession
    <3>2. ASSUME NEW i, Goto(r, [q EXCEPT !.pc = "isLocked", !.id = i, !.row = users[i]])
          PROVE  Comparing(n)' \subseteq Comparing(n) /\ Failing(n)' \subseteq Failing(n)
      <4>1. [q EXCEPT !.pc = "isLocked", !.id = i, !.row = users[i]].pc = "isLocked"
        BY DEF RequestState
      <4> QED BY <3>2, <4>1, QuietGoto
    <3> QED BY <3>2, QuietDone, LockQuiet, <1>m DEF RequestAccess
  <2>5. CASE CheckLock(r)
    <3>1. CASE Done(r)
      BY <2>5, <3>1, QuietDone, LockQuiet, <1>m DEF CheckLock
    <3>2. CASE ~IsLocked(lockedUsers, req[r].name) /\ Goto(r, [req[r] EXCEPT !.pc = "compare"])
      <4>1. CASE req[r].name = n
        <5>1. lockedUsers' = lockedUsers /\ notices' = notices
          BY <2>5 DEF CheckLock
        <5>2. ~miscounted => lockedUsers[n] <= MAX_ALLOWED_ATTEMPTS - 1 /\ notices[n] = 0
          BY <3>2, <4>1, Counts, AttemptsAssumption DEF LockInv, IsLocked
        <5>3. /\ Cardinality(Comparing(n)') <= Cardinality(Request)
              /\ Cardinality(Failing(n)') <= Cardinality(Request)
              /\ Cardinality(Comparing(n)') \in Nat /\ Cardinality(Failing(n)') \in Nat
          <6>1. Comparing(n)' \subseteq Request /\ Failing(n)' \subseteq Request
            BY DEF Comparing, Failing
          <6> QED BY <6>1, RequestAssumption, FS_Subset, FS_CardinalityType
        <5> QED BY <1>m, <5>1, <5>2, <5>3, Counts, AttemptsAssumption DEF LockInv, IsLocked
      <4>2. CASE req[r].name # n
        <5>1. Comparing(n)' \subseteq Comparing(n) /\ Failing(n)' \subseteq Failing(n)
          BY <2>0, <3>2, <4>2 DEF Goto, RequestState, Typing, TypeOK, Comparing, Failing
        <5> QED BY <2>5, <5>1, LockQuiet, <1>m DEF CheckLock
      <4> QED BY <4>1, <4>2
    <3> QED BY <2>5, <3>1, <3>2 DEF CheckLock
  <2>6. CASE LoginSucceeds(r) \/ ForgetUser(r)
    <3>1. /\ Done(r)
          /\ \/ lockedUsers'[n] = lockedUsers[n] /\ notices'[n] = notices[n]
             \/ lockedUsers'[n] = 0 /\ notices'[n] = 0
      BY <2>6 DEF LoginSucceeds, ForgetUser, ResetLock, Typing, TypeOK
    <3> QED BY <3>1, QuietDone, LockQuiet, <1>m
  <2>7. CASE LoginFails(r)
    <3> PICK c : Goto(r, [req[r] EXCEPT !.pc = "increment", !.count = c])
      BY <2>7 DEF LoginFails
    <3>1. req[r].pc = "compare" /\ lockedUsers' = lockedUsers /\ notices' = notices
      BY <2>7 DEF LoginFails
    <3>2. Comparing(n)' = Comparing(n) /\ Failing(n)' = Failing(n)
      BY <2>0, <3>1 DEF Goto, RequestState, Typing, TypeOK, Comparing, Failing
    <3> QED BY <3>1, <3>2, LockQuiet, <1>m
  <2>15. CASE IncrementLock(r)
    <3>1. req[r].pc = "increment" /\ Goto(r, [req[r] EXCEPT !.pc = "notify", !.count = 0])
          /\ notices' = notices
      BY <2>15 DEF IncrementLock
    <3>2. CASE req[r].name = n /\ ~miscounted'
      <4>1. Comparing(n)' = Comparing(n) \ {r} /\ Failing(n)' = Failing(n) /\ r \in Comparing(n)
        BY <2>0, <3>1, <3>2 DEF Goto, RequestState, Typing, TypeOK, Comparing, Failing
      <4>2. Cardinality(Comparing(n)') = Cardinality(Comparing(n)) - 1
        BY <4>1, Counts, FS_RemoveElement
      <4>3. lockedUsers'[n] = lockedUsers[n] + 1
        BY <2>15, <3>2 DEF IncrementLock, Typing, TypeOK
      <4> QED BY <1>m, <3>1, <3>2, <4>1, <4>2, <4>3, Counts, AttemptsAssumption
              DEF LockInv, IsLocked
    <3>3. CASE req[r].name # n
      <4>1. Comparing(n)' \subseteq Comparing(n) /\ Failing(n)' \subseteq Failing(n)
        BY <2>0, <3>1, <3>3 DEF Goto, RequestState, Typing, TypeOK, Comparing, Failing
      <4>2. lockedUsers'[n] = lockedUsers[n]
        BY <2>15, <3>3 DEF IncrementLock, Typing, TypeOK
      <4> QED BY <3>1, <4>1, <4>2, LockQuiet, <1>m
    <3>4. CASE miscounted'
      BY <3>4 DEF LockInv
    <3> QED BY <3>2, <3>3, <3>4
  <2>8. CASE Notify(r)
    <3>1. Done(r) /\ lockedUsers' = lockedUsers /\ req[r].pc = "notify"
      BY <2>8 DEF Notify
    <3>2. CASE notices'[n] = notices[n]
      BY <3>1, <3>2, QuietDone, LockQuiet, <1>m
    <3>3. CASE notices'[n] # notices[n]
      <4>1. req[r].name = n /\ notices'[n] = notices[n] + 1 /\ IsLocked(lockedUsers, n)
            /\ miscounted' = miscounted
        BY <2>8, <3>3 DEF Notify, Typing, TypeOK
      <4>2. Comparing(n)' = Comparing(n) /\ Failing(n)' = Failing(n) \ {r} /\ r \in Failing(n)
        BY <3>1, <4>1 DEF Done, Goto, Idle, Typing, TypeOK, Comparing, Failing
      <4>3. Cardinality(Failing(n)') = Cardinality(Failing(n)) - 1
        BY <4>2, Counts, FS_RemoveElement
      <4> QED BY <3>1, <4>1, <4>2, <4>3, Counts, AttemptsAssumption DEF LockInv, IsLocked
    <3> QED BY <3>2, <3>3
  <2>9. CASE PostRegister(r)
    <3> PICK m, p, api, row :
          Goto(r, [Idle EXCEPT !.pc = "create", !.op = "register", !.api = api,
                               !.name = m, !.pw = p, !.row = row])
      BY <2>9 DEF PostRegister
    <3>1. Comparing(n)' \subseteq Comparing(n) /\ Failing(n)' \subseteq Failing(n)
      BY QuietGoto DEF Idle
    <3> QED BY <2>9, <3>1, LockQuiet, <1>m DEF PostRegister
  <2>10. CASE CreateUser(r)
    <3>1. [req[r] EXCEPT !.pc = "requestAccess", !.row = None].pc \notin {"compare", "increment", "notify"}
      BY <2>0 DEF RequestState
    <3>2. Comparing(n)' \subseteq Comparing(n) /\ Failing(n)' \subseteq Failing(n)
      BY <2>10, <3>1, QuietGoto, QuietDone DEF CreateUser
    <3> QED BY <2>10, <3>2, LockQuiet, <1>m DEF CreateUser
  <2>11. CASE UpdateUserPassword(r)
    <3> PICK row : Goto(r, [req[r] EXCEPT !.pc = "resetTokens", !.row = row])
      BY <2>11 DEF UpdateUserPassword
    <3>1. [req[r] EXCEPT !.pc = "resetTokens", !.row = row].pc \notin {"compare", "increment", "notify"}
      BY <2>0 DEF RequestState
    <3>2. Comparing(n)' \subseteq Comparing(n) /\ Failing(n)' \subseteq Failing(n)
      BY <3>1, QuietGoto
    <3> QED BY <2>11, <3>2, LockQuiet, <1>m DEF UpdateUserPassword
  <2>12. CASE ResetTokensForUser(r)
    <3>1. [req[r] EXCEPT !.pc = "requestAccess", !.id = 0, !.row = None].pc
            \notin {"compare", "increment", "notify"}
      BY <2>0 DEF RequestState
    <3>2. Comparing(n)' \subseteq Comparing(n) /\ Failing(n)' \subseteq Failing(n)
      BY <2>12, <3>1, QuietGoto, QuietDone DEF ResetTokensForUser
    <3> QED BY <2>12, <3>2, LockQuiet, <1>m DEF ResetTokensForUser
  <2>13. CASE RevokeAccessToken(r)
    BY <2>13, QuietDone, LockQuiet, <1>m DEF RevokeAccessToken
  <2>14. CASE DeleteUser(r)
    <3>1. [req[r] EXCEPT !.pc = "forget"].pc \notin {"compare", "increment", "notify"}
      BY <2>0 DEF RequestState
    <3>2. Comparing(n)' \subseteq Comparing(n) /\ Failing(n)' \subseteq Failing(n)
      BY <2>14, <3>1, QuietGoto, QuietDone DEF DeleteUser
    <3> QED BY <2>14, <3>2, LockQuiet, <1>m DEF DeleteUser
  <2> QED BY <1>1, <2>1, <2>2, <2>3, <2>4, <2>5, <2>6, <2>7, <2>8, <2>9, <2>10, <2>11, <2>12,
             <2>13, <2>14, <2>15 DEF Step
<1>2. CASE ExpireToken \/ ExpireLock \/ UNCHANGED vars
  <2>1. /\ req' = req
        /\ \/ lockedUsers'[n] = lockedUsers[n] /\ notices'[n] = notices[n]
           \/ lockedUsers'[n] = 0 /\ notices'[n] = 0
    BY <1>2 DEF ExpireToken, ExpireLock, ResetLock, vars, Typing, TypeOK
  <2> QED BY <2>1, LockQuiet, <1>m DEF Comparing, Failing
<1>3. CASE Restart
  <2>1. lockedUsers'[n] = 0 /\ notices'[n] = 0
    BY <1>3 DEF Restart
  <2>2. Comparing(n)' = {} /\ Failing(n)' = {}
    BY <1>3 DEF Restart, Comparing, Failing, Idle
  <2> QED BY <2>1, <2>2, LockQuiet, <1>m
<1> QED BY <1>1, <1>2, <1>3 DEF Next

(* The invariant of the lock, for every name.                              *)
THEOREM LockCorrect == Spec => [](\A n \in Name : LockInv(n))
<1>1. ASSUME Init PROVE \A n \in Name : LockInv(n)
  <2> TAKE n \in Name
  <2>1. Comparing(n) = {} /\ Failing(n) = {} /\ lockedUsers[n] = 0 /\ notices[n] = 0
    BY <1>1 DEF Init, Comparing, Failing, Idle
  <2>2. Cardinality({}) = 0 /\ Cardinality(Request) \in Nat
    BY RequestAssumption, FS_EmptySet, FS_CardinalityType
  <2> QED BY <2>1, <2>2, AttemptsAssumption DEF LockInv
<1>2. Typing /\ Typing' /\ (\A n \in Name : LockInv(n)) /\ [Next]_vars
        => (\A n \in Name : LockInv(n))'
  BY LockNext
<1> QED BY <1>1, <1>2, RequestsWellFormed, PTL DEF Spec

(* Concurrent guesses overshoot the lock by less than their number.        *)
THEOREM GuessesBounded == Spec => []AttemptsBounded
<1>1. Typing /\ (\A n \in Name : LockInv(n)) => AttemptsBounded
  BY Counts, AttemptsAssumption DEF LockInv, AttemptsBounded
<1> QED BY <1>1, LockCorrect, RequestsWellFormed, PTL

(* One lock sends at most one notification for each request in flight.     *)
THEOREM NotificationsBounded == Spec => []NoticesBounded
<1>1. Typing /\ (\A n \in Name : LockInv(n)) => NoticesBounded
  BY Counts DEF LockInv, NoticesBounded
<1> QED BY <1>1, LockCorrect, RequestsWellFormed, PTL
=============================================================================

---------------------------- MODULE Family_proofs ----------------------------
(***************************************************************************)
(* Proofs about Family, for any number of requests, names, keys, items and *)
(* any bounds.                                                             *)
(***************************************************************************)
EXTENDS Family, Extremes

(* A request past its first step has a row, and an id that was given out.  *)
WellFormed(q, last) == q.pc # "idle" => q.id \in 1..last /\ q.row \in Row

Typing == TypeOK /\ \A r \in Request : WellFormed(req[r], lastId)
-----------------------------------------------------------------------------
(* A Save leaves a table of rows, and adds at most the one id.             *)
LEMMA SaveType ==
  ASSUME NEW db, NEW i, NEW row \in Row, db \in [DOMAIN db -> Row]
  PROVE  /\ Save(db, i, row) \in [DOMAIN Save(db, i, row) -> Row]
         /\ DOMAIN db \subseteq DOMAIN Save(db, i, row)
         /\ DOMAIN Save(db, i, row) \subseteq DOMAIN db \cup {i}
BY DEF Save, Write

(* A Create of a new id leaves the other rows as they are.                 *)
LEMMA CreateType ==
  ASSUME NEW db, NEW i, NEW row \in Row, db \in [DOMAIN db -> Row], i \notin DOMAIN db
  PROVE  /\ Create(db, i, row) \in [DOMAIN Create(db, i, row) -> Row]
         /\ DOMAIN db \subseteq DOMAIN Create(db, i, row)
         /\ DOMAIN Create(db, i, row) \subseteq DOMAIN db \cup {i}
         /\ \A j \in DOMAIN db : Create(db, i, row)[j] = db[j]
BY DEF Create, Write

(* Saving the row that is in the table changes nothing.                    *)
LEMMA SaveSame ==
  ASSUME NEW db, NEW i \in DOMAIN db, db = [j \in DOMAIN db |-> db[j]]
  PROVE  Save(db, i, db[i]) = db
<1>1. Write(db, i, db[i]) = db
  <2>1. DOMAIN db \cup {i} = DOMAIN db
    OBVIOUS
  <2> QED BY <2>1 DEF Write
<1> QED BY <1>1 DEF Save

(* What a request that answers, or goes to its handler, leaves behind.     *)
LEMMA HandleTyping ==
  ASSUME Typing, NEW r \in Request, Handle(r), lastId' = lastId
  PROVE  /\ req' \in [Request -> RequestState]
         /\ \A x \in Request : WellFormed(req'[x], lastId')
         /\ Me(r) \in 1..lastId /\ Me(r) \in Id /\ req[r].row \in Row
<1>1. Idle \in RequestState
  BY DEF Idle, RequestState
<1>2. Me(r) \in 1..lastId /\ Me(r) \in Id /\ req[r].row \in Row
  BY LimitsAssumption DEF Typing, TypeOK, WellFormed, Handle, Me, Id
<1>3. \A x \in Request : req'[x] = req[x] \/ req'[x] = Idle
  BY DEF Handle, Typing, TypeOK
<1> QED BY <1>1, <1>2, <1>3 DEF Handle, Typing, TypeOK, WellFormed, Idle

(* At the start everything has its type.                                   *)
LEMMA InitTyping == Init => Typing
<1> SUFFICES ASSUME Init PROVE Typing
  OBVIOUS
<1>1. users \in [DOMAIN users -> Row] /\ DOMAIN users = {}
  BY DEF Init
<1>2. copies \in [DOMAIN copies -> Time] /\ DOMAIN copies = {}
  BY DEF Init
<1>3. req \in [Request -> RequestState] /\ \A r \in Request : WellFormed(req[r], lastId)
  BY DEF Init, Idle, RequestState, WellFormed
<1>4. lastId \in 0..MaxId /\ now \in 0..MaxTime
  BY LimitsAssumption DEF Init
<1>5. stale \in BOOLEAN
  BY DEF Init
<1> QED BY <1>1, <1>2, <1>3, <1>4, <1>5 DEF Typing, TypeOK
-----------------------------------------------------------------------------
(* The copies an upload leaves: which they are, and from when.             *)
LEMMA PutSealedCopies ==
  ASSUME Typing, NEW r \in Request, PutSealed(r), MayShare(Me(r))
  PROVE  \E audience \in Audience :
           /\ Kept(Me(r), audience) \subseteq DOMAIN copies'
           /\ copies' \in [DOMAIN copies' -> Time]
           /\ \A c \in DOMAIN copies' :
                /\ \/ c \in DOMAIN copies
                   \/ c[1] = Me(r) /\ c \in Id \X Id /\ c[2] \in DOMAIN users \ {Me(r)}
                /\ (c \in DOMAIN copies /\ copies'[c] = copies[c]) \/ copies'[c] <= now + maxClockAhead
                /\ c \in DOMAIN copies => c \in Kept(Me(r), audience) /\ copies[c] <= copies'[c]
                /\ c[1] # Me(r) => copies'[c] = copies[c]
<1>1. PICK items \in Upload, audience \in Audience :
        LET kept == Kept(Me(r), audience)
            put  == {c \in {Me(r)} \X (DOMAIN users \ {Me(r)}) : Offered(c, items, audience) # {}}
            old(c) == IF c \in kept THEN {copies[c]} ELSE {}
            new(c) == IF c \in put THEN Offered(c, items, audience) ELSE {}
        IN  copies' = [c \in kept \cup put |-> Newest(old(c), new(c))]
  BY DEF PutSealed
<1> DEFINE kept == Kept(Me(r), audience)
           put  == {c \in {Me(r)} \X (DOMAIN users \ {Me(r)}) : Offered(c, items, audience) # {}}
           old(c) == IF c \in kept THEN {copies[c]} ELSE {}
           new(c) == IF c \in put THEN Offered(c, items, audience) ELSE {}
<1>2. copies' = [c \in kept \cup put |-> Newest(old(c), new(c))]
  BY <1>1
<1>3. kept \subseteq DOMAIN copies /\ \A c \in DOMAIN copies : c[1] # Me(r) => c \in kept
  BY DEF Kept
<1>4. \A c \in put : c[1] = Me(r) /\ c[2] \in DOMAIN users \ {Me(r)} /\ c \in Id \X Id
  <2>1. Me(r) \in Id /\ DOMAIN users \subseteq Id
    BY LimitsAssumption DEF PutSealed, Handle, Me, Typing, TypeOK, WellFormed, Id
  <2> QED BY <2>1
<1>5. \A c \in put : c \in DOMAIN copies => c \in kept
  <2>1. \A c \in put : Shares(audience, users[c[2]].username)
    BY DEF Offered
  <2> QED BY <2>1 DEF Kept
<1>6. ASSUME NEW c \in kept \cup put
      PROVE  LET times == old(c) \cup new(c) IN
               Newest(old(c), new(c)) \in times /\ \A t \in times : t <= Newest(old(c), new(c))
  <2> DEFINE times == old(c) \cup new(c)
  <2>1. times \subseteq Time
    BY <1>3 DEF Offered, Typing, TypeOK
  <2>2. times # {}
    OBVIOUS
  <2>3. MaxTime + maxClockAhead \in Nat
    BY LimitsAssumption
  <2> HIDE DEF times
  <2>4. Max(times) \in times /\ \A t \in times : t <= Max(times)
    BY <2>1, <2>2, <2>3, MaxOfBounded DEF Time
  <2> QED BY <2>4 DEF Newest, times
<1>7. \A c \in put : Offered(c, items, audience) \subseteq Time
                       /\ \A t \in Offered(c, items, audience) : t <= now + maxClockAhead
  BY DEF Offered
<1>8. \A c \in kept : copies[c] \in Time
  BY <1>3 DEF Typing, TypeOK
<1>9. DOMAIN copies' = kept \cup put /\ copies' = [c \in DOMAIN copies' |-> copies'[c]]
  BY <1>2
<1> HIDE DEF kept, put
<1>10. ASSUME NEW c \in DOMAIN copies'
       PROVE  /\ copies'[c] \in Time
              /\ \/ c \in DOMAIN copies
                 \/ c[1] = Me(r) /\ c \in Id \X Id /\ c[2] \in DOMAIN users \ {Me(r)}
              /\ (c \in DOMAIN copies /\ copies'[c] = copies[c]) \/ copies'[c] <= now + maxClockAhead
              /\ c \in DOMAIN copies => c \in kept /\ copies[c] <= copies'[c]
              /\ c[1] # Me(r) => copies'[c] = copies[c]
  <2>1. copies'[c] \in old(c) \cup new(c) /\ \A t \in old(c) \cup new(c) : t <= copies'[c]
    BY <1>2, <1>6, <1>9
  <2>2. c \in kept \/ c \in put
    BY <1>9
  <2>3. c \in DOMAIN copies => c \in kept
    BY <1>5, <2>2
  <2>4. c[1] # Me(r) => c \in kept /\ c \notin put
    BY <1>4, <2>2
  <2>5. CASE c \in kept
    <3>1. copies[c] <= copies'[c]
      BY <2>1, <2>5
    <3> QED BY <1>3, <1>7, <1>8, <2>1, <2>3, <2>4, <2>5, <3>1
  <2>6. CASE c \notin kept
    BY <1>4, <1>7, <2>1, <2>2, <2>3, <2>4, <2>6
  <2> QED BY <2>5, <2>6
<1>11. kept \subseteq DOMAIN copies' /\ copies' \in [DOMAIN copies' -> Time]
  BY <1>9, <1>10
<1> QED BY <1>10, <1>11 DEF kept
-----------------------------------------------------------------------------
(* The rows after an identity was stored.                                  *)
LEMMA SetIdentityUsers ==
  ASSUME Typing, NEW r \in Request, SetIdentity(r)
  PROVE  /\ users' \in [DOMAIN users' -> Row] /\ DOMAIN users' = DOMAIN users
         /\ \A i \in DOMAIN users :
              \/ users'[i] = users[i]
              \/ /\ users[i].identityPublic = NoKey /\ users'[i].identityPublic \in Key
                 /\ users'[i].sharingPaused = users[i].sharingPaused
<1>1. PICK k \in Key :
        users' = [i \in DOMAIN users |->
                    IF i = Me(r) /\ users[i].identityPublic = NoKey
                    THEN [users[i] EXCEPT !.identityPublic = k] ELSE users[i]]
  BY DEF SetIdentity
<1>2. \A i \in DOMAIN users : users[i] \in Row
  BY DEF Typing, TypeOK
<1>3. \A i \in DOMAIN users : users'[i] \in Row
  BY <1>1, <1>2 DEF Row
<1> QED BY <1>1, <1>2, <1>3 DEF Row

(* The rows after an account paused or resumed.                            *)
LEMMA SetPausedUsers ==
  ASSUME Typing, NEW r \in Request, NEW p \in BOOLEAN,
         users' = [i \in DOMAIN users |->
                     IF i = Me(r) THEN [users[i] EXCEPT !.sharingPaused = p] ELSE users[i]]
  PROVE  /\ users' \in [DOMAIN users' -> Row] /\ DOMAIN users' = DOMAIN users
         /\ \A i \in DOMAIN users :
              /\ users'[i].identityPublic = users[i].identityPublic
              /\ users'[i].sharingPaused = IF i = Me(r) THEN p ELSE users[i].sharingPaused
<1>1. \A i \in DOMAIN users : users[i] \in Row
  BY DEF Typing, TypeOK
<1>2. \A i \in DOMAIN users : users'[i] \in Row
  BY <1>1 DEF Row
<1> QED BY <1>1, <1>2 DEF Row

(* Every step keeps the types, and the ids that were given out.            *)
LEMMA TypingNext == Typing /\ [Next]_vars => Typing'
<1> SUFFICES ASSUME Typing, [Next]_vars PROVE Typing'
  OBVIOUS
<1> USE LimitsAssumption
<1>1. CASE UNCHANGED vars
  BY <1>1 DEF vars, Typing, TypeOK
<1>2. ASSUME NEW r \in Request, GetUser(r)  PROVE Typing'
  <2>1. PICK i \in DOMAIN users :
          req' = [req EXCEPT ![r] = [pc |-> "touch", id |-> i, row |-> users[i]]]
    BY <1>2 DEF GetUser
  <2>2. i \in 1..lastId /\ i \in Id /\ users[i] \in Row
    BY DEF Typing, TypeOK, Id
  <2>3. [pc |-> "touch", id |-> i, row |-> users[i]] \in RequestState
    BY <2>2 DEF RequestState
  <2>4. \A x \in Request : req'[x] = req[x] \/ req'[x] = [pc |-> "touch", id |-> i, row |-> users[i]]
    BY <2>1 DEF Typing, TypeOK
  <2> QED BY <1>2, <2>1, <2>2, <2>3, <2>4 DEF GetUser, Typing, TypeOK, WellFormed
<1>3. ASSUME NEW r \in Request, Touch(r)  PROVE Typing'
  <2>1. req[r].id \in 1..lastId /\ req[r].row \in Row
    BY <1>3 DEF Touch, Typing, WellFormed
  <2>2. users' \in [DOMAIN users' -> Row] /\ DOMAIN users' \subseteq 1..lastId
    BY <1>3, <2>1, SaveType DEF Touch, SaveCopy, Typing, TypeOK
  <2>3. req' \in [Request -> RequestState] /\ \A x \in Request : WellFormed(req'[x], lastId)
    BY <1>3, <2>1 DEF Touch, Typing, TypeOK, RequestState, WellFormed
  <2>4. stale' \in BOOLEAN
    BY <1>3 DEF Touch, SaveCopy, Typing, TypeOK
  <2> QED BY <1>3, <2>2, <2>3, <2>4 DEF Touch, Typing, TypeOK
<1>4. ASSUME NEW r \in Request, ChangeSettings(r)  PROVE Typing'
  <2>1. /\ req' \in [Request -> RequestState] /\ \A x \in Request : WellFormed(req'[x], lastId')
        /\ req[r].id \in 1..lastId /\ req[r].row \in Row
    BY <1>4, HandleTyping DEF ChangeSettings, Me
  <2>2. users' \in [DOMAIN users' -> Row] /\ DOMAIN users' \subseteq 1..lastId
    BY <1>4, <2>1, SaveType DEF ChangeSettings, SaveCopy, Typing, TypeOK
  <2>3. stale' \in BOOLEAN
    BY <1>4 DEF ChangeSettings, SaveCopy, Typing, TypeOK
  <2> QED BY <1>4, <2>1, <2>2, <2>3 DEF ChangeSettings, Typing, TypeOK
<1>5. ASSUME NEW r \in Request, SetIdentity(r)  PROVE Typing'
  <2>1. req' \in [Request -> RequestState] /\ \A x \in Request : WellFormed(req'[x], lastId')
    BY <1>5, HandleTyping DEF SetIdentity
  <2> QED BY <1>5, <2>1, SetIdentityUsers DEF SetIdentity, Typing, TypeOK
<1>6. ASSUME NEW r \in Request, SetPaused(r)  PROVE Typing'
  <2>1. req' \in [Request -> RequestState] /\ \A x \in Request : WellFormed(req'[x], lastId')
    BY <1>6, HandleTyping DEF SetPaused
  <2>2. PICK p \in BOOLEAN :
          /\ users' = [i \in DOMAIN users |->
                         IF i = Me(r) THEN [users[i] EXCEPT !.sharingPaused = p] ELSE users[i]]
          /\ copies' = [c \in {d \in DOMAIN copies : ~(p /\ d[1] = Me(r))} |-> copies[c]]
    BY <1>6 DEF SetPaused
  <2>3. copies' \in [DOMAIN copies' -> Time] /\ DOMAIN copies' \subseteq DOMAIN copies
    BY <2>2 DEF Typing, TypeOK
  <2>4. users' \in [DOMAIN users' -> Row] /\ DOMAIN users' = DOMAIN users
    BY <2>2, SetPausedUsers
  <2> QED BY <1>6, <2>1, <2>3, <2>4 DEF SetPaused, Typing, TypeOK
<1>7. ASSUME NEW r \in Request, PutSealed(r)  PROVE Typing'
  <2>1. req' \in [Request -> RequestState] /\ \A x \in Request : WellFormed(req'[x], lastId')
    BY <1>7, HandleTyping DEF PutSealed
  <2>2. CASE MayShare(Me(r))
    <3>1. copies' \in [DOMAIN copies' -> Time]
      BY <1>7, <2>2, PutSealedCopies
    <3>2. DOMAIN copies' \subseteq Id \X Id
      BY <1>7, <2>2, PutSealedCopies DEF Typing, TypeOK
    <3> QED BY <1>7, <2>1, <3>1, <3>2 DEF PutSealed, Typing, TypeOK
  <2>3. CASE ~MayShare(Me(r))
    <3>1. copies' = copies
      BY <1>7, <2>3 DEF PutSealed
    <3> QED BY <1>7, <2>1, <3>1 DEF PutSealed, Typing, TypeOK
  <2> QED BY <2>2, <2>3
<1>8. ASSUME NEW r \in Request, DeleteUser(r)  PROVE Typing'
  <2>1. req' \in [Request -> RequestState] /\ \A x \in Request : WellFormed(req'[x], lastId')
    BY <1>8, HandleTyping DEF DeleteUser
  <2>2. users' \in [DOMAIN users' -> Row] /\ DOMAIN users' \subseteq DOMAIN users
    BY <1>8 DEF DeleteUser, Delete, Typing, TypeOK
  <2>3. copies' \in [DOMAIN copies' -> Time] /\ DOMAIN copies' \subseteq DOMAIN copies
    BY <1>8 DEF DeleteUser, Typing, TypeOK
  <2> QED BY <1>8, <2>1, <2>2, <2>3 DEF DeleteUser, Typing, TypeOK
<1>9. ASSUME NEW r \in Request, Refuse(r)  PROVE Typing'
  BY <1>9, HandleTyping DEF Refuse, Typing, TypeOK
<1>10. CASE Register
  <2>1. PICK row \in Row : /\ users' = Create(users, NextId, row)
                           /\ lastId' = IF NextId \in DOMAIN users' THEN NextId ELSE lastId
    BY <1>10 DEF Register, Row
  <2>2. lastId \in Nat /\ lastId < MaxId /\ MaxId \in Nat
    BY <1>10 DEF Typing, TypeOK, Register
  <2>3. NextId \notin DOMAIN users
    BY <2>2 DEF NextId, Typing, TypeOK
  <2>4. users \in [DOMAIN users -> Row]
    BY DEF Typing, TypeOK
  <2>5. users' \in [DOMAIN users' -> Row] /\ DOMAIN users' \subseteq DOMAIN users \cup {NextId}
    BY <2>1, <2>3, <2>4, CreateType
  <2>6. lastId' \in 0..MaxId /\ lastId <= lastId' /\ DOMAIN users' \subseteq 1..lastId'
    <3>1. DOMAIN users \subseteq 1..lastId
      BY DEF Typing, TypeOK
    <3>2. CASE NextId \in DOMAIN users'
      BY <2>1, <2>2, <2>5, <3>1, <3>2 DEF NextId
    <3>3. CASE NextId \notin DOMAIN users'
      BY <2>1, <2>2, <2>5, <3>1, <3>3
    <3> QED BY <3>2, <3>3
  <2>7. \A x \in Request : WellFormed(req[x], lastId')
    BY <2>2, <2>6 DEF Typing, WellFormed
  <2> QED BY <1>10, <2>5, <2>6, <2>7 DEF Register, Typing, TypeOK
<1>11. CASE Tick
  BY <1>11 DEF Tick, Typing, TypeOK
<1>12. CASE Restart
  BY <1>12 DEF Restart, Typing, TypeOK, WellFormed, Idle, RequestState
<1> QED BY <1>1, <1>2, <1>3, <1>4, <1>5, <1>6, <1>7, <1>8, <1>9, <1>10, <1>11, <1>12
       DEF Next, Step

(* Every variable keeps its type, and every request carries an id that was *)
(* given out and the row it read.                                          *)
THEOREM RequestsWellFormed == Spec => []Typing
<1> QED BY InitTyping, TypingNext, PTL DEF Spec

(* Type correctness (TypeOK), for any number of requests.                  *)
THEOREM TypesCorrect == Spec => []TypeOK
<1>1. Typing => TypeOK
  BY DEF Typing
<1> QED BY <1>1, RequestsWellFormed, PTL
-----------------------------------------------------------------------------
(* What a step does to the tables of accounts and copies.                  *)

Same == users' = users /\ copies' = copies

Outdated == stale' /\ copies' = copies /\ DOMAIN users \subseteq DOMAIN users'

Joining(m) ==
  /\ m \notin DOMAIN users /\ DOMAIN users' = DOMAIN users \cup {m}
  /\ users'[m].identityPublic = NoKey /\ ~users'[m].sharingPaused
  /\ \A i \in DOMAIN users : users'[i] = users[i]
  /\ copies' = copies

Keying(m) ==
  /\ m \in DOMAIN users /\ DOMAIN users' = DOMAIN users
  /\ users[m].identityPublic = NoKey /\ users'[m].identityPublic \in Key
  /\ users'[m].sharingPaused = users[m].sharingPaused
  /\ \A i \in DOMAIN users \ {m} : users'[i] = users[i]
  /\ copies' = copies

Pausing(m, p) ==
  /\ m \in DOMAIN users /\ DOMAIN users' = DOMAIN users
  /\ \A i \in DOMAIN users :
       /\ users'[i].identityPublic = users[i].identityPublic
       /\ users'[i].sharingPaused = IF i = m THEN p ELSE users[i].sharingPaused
  /\ copies' = [c \in {d \in DOMAIN copies : ~(p /\ d[1] = m)} |-> copies[c]]

Uploading(m) ==
  /\ users' = users /\ MayShare(m)
  /\ \A c \in DOMAIN copies : c[1] # m => c \in DOMAIN copies'
  /\ \A c \in DOMAIN copies' :
       /\ c \in DOMAIN copies \/ (c[1] = m /\ c[2] \in DOMAIN users \ {m})
       /\ (c \in DOMAIN copies /\ copies'[c] = copies[c]) \/ copies'[c] <= now + maxClockAhead
       /\ c \in DOMAIN copies => copies[c] <= copies'[c]
       /\ c[1] # m => copies'[c] = copies[c]

Leaving(m) ==
  /\ m \in DOMAIN users /\ DOMAIN users' = DOMAIN users \ {m}
  /\ \A i \in DOMAIN users' : users'[i] = users[i]
  /\ copies' = [c \in {d \in DOMAIN copies : m \notin {d[1], d[2]}} |-> copies[c]]

Acting(m) ==
  \/ Joining(m) \/ Keying(m) \/ Pausing(m, TRUE) \/ Pausing(m, FALSE)
  \/ Uploading(m) \/ Leaving(m)

(* Saving a copy changes nothing, or the copy was outdated.                *)
LEMMA SaveEffect ==
  ASSUME Typing, NEW r \in Request, SaveCopy(r), req[r].pc # "idle", copies' = copies
  PROVE  Same \/ Outdated
<1>1. users = [j \in DOMAIN users |-> users[j]]
  BY DEF Typing, TypeOK
<1>2. CASE Fresh(r)
  BY <1>1, <1>2, SaveSame DEF SaveCopy, Fresh, Same
<1>3. CASE ~Fresh(r)
  <2>1. req[r].row \in Row
    BY DEF Typing, WellFormed
  <2>2. DOMAIN users \subseteq DOMAIN users'
    BY <2>1, SaveType DEF SaveCopy, Typing, TypeOK
  <2> QED BY <1>3, <2>2 DEF SaveCopy, Outdated
<1> QED BY <1>2, <1>3

(* Time goes on, and a write of an outdated copy is not forgotten.         *)
LEMMA HistoryStays ==
  ASSUME Typing, [Next]_vars
  PROVE  now <= now' /\ (stale => stale')
<1>1. now \in Nat /\ MaxTime \in Nat
  BY LimitsAssumption DEF Typing, TypeOK
<1>2. now' = now \/ now' = now + 1
  BY DEF Next, Step, vars, GetUser, Touch, ChangeSettings, SetIdentity, SetPaused, PutSealed,
         DeleteUser, Refuse, Register, Tick, Restart
<1>3. stale => stale'
  BY DEF Next, Step, vars, GetUser, Touch, ChangeSettings, SetIdentity, SetPaused, PutSealed,
         DeleteUser, Refuse, Register, Tick, Restart, SaveCopy
<1> QED BY <1>1, <1>2, <1>3

(* Every step has one of these effects.                                    *)
LEMMA Effects ==
  ASSUME Typing, CopiesBelong, [Next]_vars
  PROVE  Same \/ Outdated \/ \E m \in Id : Acting(m)
<1>1. CASE UNCHANGED vars
  BY <1>1 DEF vars, Same
<1>2. ASSUME NEW r \in Request, GetUser(r) \/ Refuse(r)
      PROVE  Same
  BY <1>2 DEF GetUser, Refuse, Same
<1>3. ASSUME NEW r \in Request, Touch(r) \/ ChangeSettings(r)
      PROVE  Same \/ Outdated
  BY <1>3, SaveEffect DEF Touch, ChangeSettings, Handle
<1>4. ASSUME NEW r \in Request, SetIdentity(r)
      PROVE  Same \/ Keying(Me(r))
  <2>1. PICK k \in Key :
          users' = [i \in DOMAIN users |->
                      IF i = Me(r) /\ users[i].identityPublic = NoKey
                      THEN [users[i] EXCEPT !.identityPublic = k] ELSE users[i]]
    BY <1>4 DEF SetIdentity
  <2>2. CASE Me(r) \in DOMAIN users /\ users[Me(r)].identityPublic = NoKey
    <3>1. users[Me(r)] \in Row
      BY <2>2 DEF Typing, TypeOK
    <3> QED BY <1>4, <2>1, <2>2, <3>1 DEF SetIdentity, Keying, Row
  <2>3. CASE ~(Me(r) \in DOMAIN users /\ users[Me(r)].identityPublic = NoKey)
    <3>1. users' = users
      BY <2>1, <2>3 DEF Typing, TypeOK
    <3> QED BY <1>4, <3>1 DEF SetIdentity, Same
  <2> QED BY <2>2, <2>3
<1>5. ASSUME NEW r \in Request, SetPaused(r)
      PROVE  Same \/ Pausing(Me(r), TRUE) \/ Pausing(Me(r), FALSE)
  <2>1. PICK p \in BOOLEAN :
          /\ users' = [i \in DOMAIN users |->
                         IF i = Me(r) THEN [users[i] EXCEPT !.sharingPaused = p] ELSE users[i]]
          /\ copies' = [c \in {d \in DOMAIN copies : ~(p /\ d[1] = Me(r))} |-> copies[c]]
    BY <1>5 DEF SetPaused
  <2>2. CASE Me(r) \in DOMAIN users
    <3>1. Pausing(Me(r), p)
      BY <2>1, <2>2, SetPausedUsers DEF Pausing
    <3>2. p = TRUE \/ p = FALSE
      OBVIOUS
    <3>3. Pausing(Me(r), TRUE) \/ Pausing(Me(r), FALSE)
      <4> HIDE DEF Pausing
      <4> QED BY ONLY <3>1, <3>2, Zenon
    <3> QED BY <3>3
  <2>3. CASE Me(r) \notin DOMAIN users
    <3>1. users' = users
      BY <2>1, <2>3 DEF Typing, TypeOK
    <3>2. {d \in DOMAIN copies : ~(p /\ d[1] = Me(r))} = DOMAIN copies
      BY <2>3 DEF CopiesBelong
    <3>3. copies' = [c \in DOMAIN copies |-> copies[c]]
      BY <2>1, <3>2
    <3>4. copies' = copies
      BY <3>3 DEF Typing, TypeOK
    <3> QED BY <3>1, <3>4 DEF Same
  <2> QED BY <2>2, <2>3
<1>6. ASSUME NEW r \in Request, PutSealed(r)
      PROVE  Same \/ Uploading(Me(r))
  <2>1. CASE MayShare(Me(r))
    <3>1. PICK audience \in Audience :
            /\ Kept(Me(r), audience) \subseteq DOMAIN copies'
            /\ \A c \in DOMAIN copies' :
                 /\ c \in DOMAIN copies \/ (c[1] = Me(r) /\ c[2] \in DOMAIN users \ {Me(r)})
                 /\ (c \in DOMAIN copies /\ copies'[c] = copies[c]) \/ copies'[c] <= now + maxClockAhead
                 /\ c \in DOMAIN copies => copies[c] <= copies'[c]
                 /\ c[1] # Me(r) => copies'[c] = copies[c]
      <4>1. PICK audience \in Audience :
              /\ Kept(Me(r), audience) \subseteq DOMAIN copies'
              /\ \A c \in DOMAIN copies' :
                   /\ \/ c \in DOMAIN copies
                      \/ c[1] = Me(r) /\ c \in Id \X Id /\ c[2] \in DOMAIN users \ {Me(r)}
                   /\ (c \in DOMAIN copies /\ copies'[c] = copies[c]) \/ copies'[c] <= now + maxClockAhead
                   /\ c \in DOMAIN copies => c \in Kept(Me(r), audience) /\ copies[c] <= copies'[c]
                   /\ c[1] # Me(r) => copies'[c] = copies[c]
        BY <1>6, <2>1, PutSealedCopies
      <4> QED BY <4>1, Zenon
    <3>2. \A c \in DOMAIN copies : c[1] # Me(r) => c \in DOMAIN copies'
      BY <3>1 DEF Kept
    <3>3. users' = users
      BY <1>6 DEF PutSealed
    <3>4. Uploading(Me(r))
      BY <2>1, <3>1, <3>2, <3>3, Zenon DEF Uploading
    <3> QED BY <3>4
  <2>2. CASE ~MayShare(Me(r))
    BY <1>6, <2>2 DEF PutSealed, Same
  <2> QED BY <2>1, <2>2
<1>7. ASSUME NEW r \in Request, DeleteUser(r)
      PROVE  Same \/ Leaving(Me(r))
  <2>1. {d \in DOMAIN copies : Me(r) \notin {d[1], d[2]}} = DOMAIN copies \ Cascade(Me(r))
    BY DEF Cascade
  <2>2. CASE Me(r) \in DOMAIN users
    BY <1>7, <2>1, <2>2 DEF DeleteUser, Delete, Leaving
  <2>3. CASE Me(r) \notin DOMAIN users
    <3>1. DOMAIN users \ {Me(r)} = DOMAIN users /\ DOMAIN copies \ Cascade(Me(r)) = DOMAIN copies
      BY <2>3 DEF CopiesBelong, Cascade
    <3>2. users' = users /\ copies' = copies
      BY <1>7, <3>1 DEF DeleteUser, Delete, Typing, TypeOK
    <3> QED BY <3>2 DEF Same
  <2> QED BY <2>2, <2>3
<1>8. CASE Register
  <2>1. PICK n \in Name :
          users' = Create(users, NextId, [username |-> n, identityPublic |-> NoKey, sharingPaused |-> FALSE])
    BY <1>8 DEF Register
  <2>2. NextId \in Id /\ NextId \notin DOMAIN users
    BY <1>8, LimitsAssumption DEF NextId, Id, Typing, TypeOK, Register
  <2> DEFINE row == [username |-> n, identityPublic |-> NoKey, sharingPaused |-> FALSE]
  <2>3. users' = users \/ users' = Write(users, NextId, row)
    BY <2>1 DEF Create
  <2>4. users' = users => Same
    BY <1>8 DEF Register, Same
  <2>5. ASSUME users' = Write(users, NextId, row)  PROVE Joining(NextId)
    <3>1. /\ DOMAIN users' = DOMAIN users \cup {NextId} /\ users'[NextId] = row
          /\ \A i \in DOMAIN users : users'[i] = users[i]
      BY <2>2, <2>5 DEF Write
    <3>2. row.identityPublic = NoKey /\ row.sharingPaused = FALSE
      OBVIOUS
    <3>3. copies' = copies
      BY <1>8 DEF Register
    <3> HIDE DEF row
    <3> QED BY <2>2, <3>1, <3>2, <3>3 DEF Joining
  <2> QED BY <2>2, <2>3, <2>4, <2>5 DEF Acting
<1>9. CASE Tick \/ Restart
  BY <1>9 DEF Tick, Restart, Same
<1>10. ASSUME NEW r \in Request, Handle(r)  PROVE Me(r) \in Id
  BY <1>10, LimitsAssumption DEF Typing, TypeOK, WellFormed, Handle, Me, Id
<1>11. ASSUME NEW r \in Request, Step(r)
       PROVE  Same \/ Outdated \/ \E m \in Id : Acting(m)
  <2>1. CASE GetUser(r) \/ Refuse(r) \/ Touch(r) \/ ChangeSettings(r)
    BY <1>2, <1>3, <2>1
  <2>2. CASE SetIdentity(r) \/ SetPaused(r) \/ PutSealed(r) \/ DeleteUser(r)
    <3>1. Me(r) \in Id
      BY <1>10, <2>2 DEF SetIdentity, SetPaused, PutSealed, DeleteUser
    <3> QED BY <1>4, <1>5, <1>6, <1>7, <2>2, <3>1 DEF Acting
  <2> QED BY <1>11, <2>1, <2>2 DEF Step
<1> QED BY <1>1, <1>8, <1>9, <1>11 DEF Next
-----------------------------------------------------------------------------
(* The copies on the server: whose they are, from when, and under which    *)
(* switches.  Each part needs the others: an upload keeps copies of        *)
(* accounts that exist because deletion cascades, a withdrawn pause finds  *)
(* no copies because pausing erased them.                                  *)
Boarded == CopiesBelong /\ NoneFromTheFuture /\ SharersAreSound

(* At the start there are no copies.                                       *)
LEMMA BoardedInit == Init => Boarded
BY DEF Init, Boarded, CopiesBelong, NoneFromTheFuture, SharersAreSound

(* Every step keeps the tables consistent.                                 *)
LEMMA BoardedNext ==
  ASSUME Typing, Boarded, [Next]_vars
  PROVE  Boarded'
<1>1. now <= now' /\ (stale => stale') /\ {now, now', maxClockAhead} \subseteq Int
  <2>1. now \in Int /\ now' \in Int
    BY TypingNext DEF Typing, TypeOK
  <2> QED BY <2>1, HistoryStays, LimitsAssumption
<1>2. \A c \in DOMAIN copies : copies[c] \in Int
  BY DEF Typing, TypeOK, Time
<1>3. \A c \in DOMAIN copies' : copies'[c] \in Int
  BY TypingNext DEF Typing, TypeOK, Time
<1>4. Same \/ Outdated \/ \E m \in Id : Acting(m)
  BY Effects DEF Boarded
<1>5. CopiesBelong'
  <2>1. CASE Same \/ Outdated
    BY <2>1 DEF Same, Outdated, Boarded, CopiesBelong
  <2>2. ASSUME NEW m \in Id, Joining(m) \/ Keying(m) \/ Uploading(m)  PROVE CopiesBelong'
    BY <2>2 DEF Joining, Keying, Uploading, Boarded, CopiesBelong, MayShare
  <2>3. ASSUME NEW m \in Id, Pausing(m, TRUE) \/ Pausing(m, FALSE) \/ Leaving(m)
        PROVE  CopiesBelong'
    BY <2>3 DEF Pausing, Leaving, Boarded, CopiesBelong
  <2> QED BY <1>4, <2>1, <2>2, <2>3 DEF Acting
<1>6. NoneFromTheFuture'
  <2>1. \A c \in DOMAIN copies' :
          \/ c \in DOMAIN copies /\ copies'[c] = copies[c]
          \/ copies'[c] <= now + maxClockAhead
    <3>1. CASE copies' = copies
      BY <3>1
    <3>2. ASSUME NEW m \in Id, Uploading(m)
          PROVE  \A c \in DOMAIN copies' :
                   \/ c \in DOMAIN copies /\ copies'[c] = copies[c]
                   \/ copies'[c] <= now + maxClockAhead
      BY <3>2 DEF Uploading
    <3>3. ASSUME NEW m \in Id, Pausing(m, TRUE) \/ Pausing(m, FALSE) \/ Leaving(m)
          PROVE  \A c \in DOMAIN copies' : c \in DOMAIN copies /\ copies'[c] = copies[c]
      BY <3>3 DEF Pausing, Leaving
    <3> QED BY <1>4, <3>1, <3>2, <3>3 DEF Same, Outdated, Acting, Joining, Keying
  <2>2. \A c \in DOMAIN copies : copies[c] <= now + maxClockAhead
    BY DEF Boarded, NoneFromTheFuture
  <2> QED BY <1>1, <1>2, <1>3, <2>1, <2>2 DEF NoneFromTheFuture
<1>7. SharersAreSound'
  <2> SUFFICES ASSUME ~stale', NEW c \in DOMAIN copies'  PROVE Sound(c)'
    BY DEF SharersAreSound
  <2>1. \A d \in DOMAIN copies : Sound(d)
    BY <1>1 DEF Boarded, SharersAreSound
  <2>2. \A d \in DOMAIN copies : d[1] \in DOMAIN users
    BY DEF Boarded, CopiesBelong
  <2>3. CASE Same
    BY <2>1, <2>3 DEF Same, Sound
  <2>4. ASSUME NEW m \in Id, Joining(m)  PROVE Sound(c)'
    BY <2>1, <2>2, <2>4 DEF Joining, Sound
  <2>5. ASSUME NEW m \in Id, Keying(m)  PROVE Sound(c)'
    <3>1. c \in DOMAIN copies /\ Sound(c) /\ c[1] \in DOMAIN users
      BY <2>1, <2>2, <2>5 DEF Keying
    <3>2. c[1] # m
      BY <2>5, <3>1 DEF Keying, Sound
    <3> QED BY <2>5, <3>1, <3>2 DEF Keying, Sound
  <2>6. ASSUME NEW m \in Id, Pausing(m, TRUE) \/ Pausing(m, FALSE)  PROVE Sound(c)'
    <3>1. c \in DOMAIN copies /\ Sound(c) /\ c[1] \in DOMAIN users
      BY <2>1, <2>2, <2>6 DEF Pausing
    <3>2. CASE c[1] # m
      BY <2>6, <3>1, <3>2 DEF Pausing, Sound
    <3>3. CASE c[1] = m
      <4>1. Pausing(m, FALSE)
        BY <2>6, <3>3 DEF Pausing
      <4> QED BY <3>1, <3>3, <4>1 DEF Pausing, Sound
    <3> QED BY <3>2, <3>3
  <2>7. ASSUME NEW m \in Id, Uploading(m)  PROVE Sound(c)'
    BY <2>1, <2>7 DEF Uploading, MayShare, Sound
  <2>8. ASSUME NEW m \in Id, Leaving(m)  PROVE Sound(c)'
    <3>1. c \in DOMAIN copies /\ Sound(c) /\ c[1] \in DOMAIN users /\ c[1] # m
      BY <2>1, <2>2, <2>8 DEF Leaving
    <3> QED BY <2>8, <3>1 DEF Leaving, Sound
  <2> QED BY <1>4, <2>3, <2>4, <2>5, <2>6, <2>7, <2>8 DEF Outdated, Acting
<1> QED BY <1>5, <1>6, <1>7 DEF Boarded

(* The invariant of the server's tables, for any requests in flight.       *)
THEOREM TablesConsistent == Spec => [](Typing /\ Boarded)
<1>1. Typing /\ Boarded /\ [Next]_vars => (Typing /\ Boarded)'
  BY TypingNext, BoardedNext
<1> QED BY InitTyping, BoardedInit, <1>1, PTL DEF Spec

(* Every copy is from one existing account to another (CopiesBelong).      *)
THEOREM EveryCopyBelongs == Spec => []CopiesBelong
BY TablesConsistent, PTL DEF Boarded

(* No copy is dated beyond the clock's allowance (NoneFromTheFuture).      *)
THEOREM NoCopyFromTheFuture == Spec => []NoneFromTheFuture
BY TablesConsistent, PTL DEF Boarded

(* Until an outdated copy of a row is written back, whoever has copies on  *)
(* the server has a key and has not paused (SharersAreSound).              *)
THEOREM SharersStaySound == Spec => []SharersAreSound
BY TablesConsistent, PTL DEF Boarded
-----------------------------------------------------------------------------
(* Until an outdated copy is written back, no step changes an identity.    *)
LEMMA IdentityStep ==
  ASSUME Typing, CopiesBelong, [Next]_vars, ~stale'
  PROVE  KeepsIdentity
<1>1. Same \/ \E m \in Id : Acting(m)
  BY Effects DEF Outdated
<1>2. CASE Same
  BY <1>2 DEF Same, KeepsIdentity
<1>3. ASSUME NEW m \in Id, Acting(m)  PROVE KeepsIdentity
  <2>1. CASE Joining(m) \/ Uploading(m) \/ Leaving(m)
    BY <2>1 DEF Joining, Uploading, Leaving, KeepsIdentity
  <2>2. CASE Pausing(m, TRUE) \/ Pausing(m, FALSE)
    BY <2>2 DEF Pausing, KeepsIdentity
  <2>3. CASE Keying(m)
    BY <2>3 DEF Keying, KeepsIdentity
  <2> QED BY <1>3, <2>1, <2>2, <2>3 DEF Acting
<1> QED BY <1>1, <1>2, <1>3

(* The identity of an account is its own for good (IdentityIsKept): of two *)
(* that race to set one, the second changes nothing.                       *)
THEOREM IdentitiesAreKept == Spec => IdentityIsKept
<1>1. Typing /\ Boarded /\ [Next]_vars => [~stale' => KeepsIdentity]_vars
  BY IdentityStep DEF Boarded
<1> QED BY <1>1, TablesConsistent, PTL DEF Spec, IdentityIsKept
-----------------------------------------------------------------------------
(* Each effect on the tables is an act of the same member on the board.    *)
LEMMA ActingOnBoard ==
  ASSUME Typing, CopiesBelong, [Next]_vars, NEW m \in Id, Acting(m)
  PROVE  Board!Next \/ UNCHANGED Board!vars
<1> DEFINE key == [i \in DOMAIN users |-> users[i].identityPublic]
           paused == {i \in DOMAIN users : users[i].sharingPaused}
<1>1. CASE Joining(m)
  <2>1. key' = [n \in DOMAIN key \cup {m} |-> IF n = m THEN NoKey ELSE key[n]]
    BY <1>1 DEF Joining
  <2>2. paused' = paused /\ copies' = copies
    BY <1>1 DEF Joining
  <2>3. Board!Join(m)
    BY <1>1, <2>1, <2>2 DEF Joining, Board!Join, Board!Joined
  <2> QED BY <2>3 DEF Board!Next
<1>2. CASE Keying(m)
  <2>1. key' = [key EXCEPT ![m] = users'[m].identityPublic]
    BY <1>2 DEF Keying
  <2>2. paused' = paused /\ copies' = copies
    BY <1>2 DEF Keying
  <2>3. Board!SetKey(m)
    BY <1>2, <2>1, <2>2 DEF Keying, Board!SetKey
  <2> QED BY <1>2, <2>3 DEF Board!Next, Board!Joined, Keying
<1>3. CASE Pausing(m, TRUE)
  <2>1. key' = key /\ paused' = paused \cup {m}
    BY <1>3 DEF Pausing
  <2>2. copies' = [c \in DOMAIN copies \ {c \in DOMAIN copies : c[1] = m} |-> copies[c]]
    <3>1. {d \in DOMAIN copies : ~(TRUE /\ d[1] = m)} = DOMAIN copies \ {c \in DOMAIN copies : c[1] = m}
      OBVIOUS
    <3> QED BY <1>3, <3>1 DEF Pausing
  <2>3. Board!Pause(m)
    BY <2>1, <2>2 DEF Board!Pause, Board!Without
  <2> QED BY <1>3, <2>3 DEF Board!Next, Board!Joined, Pausing
<1>4. CASE Pausing(m, FALSE)
  <2>1. key' = key /\ paused' = paused \ {m}
    BY <1>4 DEF Pausing
  <2>2. copies' = copies
    <3>1. {d \in DOMAIN copies : ~(FALSE /\ d[1] = m)} = DOMAIN copies
      OBVIOUS
    <3>2. copies' = [c \in DOMAIN copies |-> copies[c]]
      BY <1>4, <3>1 DEF Pausing
    <3> QED BY <3>2 DEF Typing, TypeOK
  <2>3. Board!Resume(m)
    BY <2>1, <2>2 DEF Board!Resume
  <2> QED BY <1>4, <2>3 DEF Board!Next, Board!Joined, Pausing
<1>5. CASE Uploading(m)
  <2>1. key' = key /\ paused' = paused
    BY <1>5 DEF Uploading
  <2>2. m \in DOMAIN key /\ m \notin paused /\ key[m] # NoKey
    BY <1>5 DEF Uploading, MayShare
  <2>3. ASSUME NEW c \in DOMAIN copies'
        PROVE  /\ c[1] # m => c \in DOMAIN copies /\ copies'[c] = copies[c]
               /\ c[1] = m => c[2] \in DOMAIN key \ {m}
               /\ c \in DOMAIN copies => copies'[c] >= copies[c]
    <3>1. c \in DOMAIN copies => copies[c] \in Int /\ copies'[c] \in Int /\ copies[c] <= copies'[c]
      <4>1. c \in DOMAIN copies => copies[c] \in Int
        BY DEF Typing, TypeOK, Time
      <4>2. c \in DOMAIN copies' => copies'[c] \in Int
        BY TypingNext DEF Typing, TypeOK, Time
      <4> QED BY <1>5, <4>1, <4>2 DEF Uploading
    <3> QED BY <1>5, <3>1 DEF Uploading, CopiesBelong
  <2>4. \A c \in DOMAIN copies : c[1] # m => c \in DOMAIN copies'
    BY <1>5 DEF Uploading
  <2>5. Board!Share(m)
    BY <2>1, <2>2, <2>3, <2>4 DEF Board!Share, Board!Joined
  <2> QED BY <2>2, <2>5 DEF Board!Next, Board!Joined
<1>6. CASE Leaving(m)
  <2>1. key' = [n \in DOMAIN key \ {m} |-> key[n]] /\ paused' = paused \ {m}
    BY <1>6 DEF Leaving
  <2>2. {d \in DOMAIN copies : m \notin {d[1], d[2]}}
          = DOMAIN copies \ {c \in DOMAIN copies : m \in {c[1], c[2]}}
    OBVIOUS
  <2>3. Board!Leave(m)
    BY <1>6, <2>1, <2>2 DEF Leaving, Board!Leave, Board!Joined, Board!Without
  <2> QED BY <1>6, <2>3 DEF Board!Next, Board!Joined, Leaving
<1> QED BY <1>1, <1>2, <1>3, <1>4, <1>5, <1>6 DEF Acting

(* Until an outdated copy is written back, a step is one on the board.     *)
LEMMA StepOnBoard ==
  ASSUME Typing, CopiesBelong, [Next]_vars, ~stale'
  PROVE  [Board!Next]_(Board!vars)
<1>1. Same \/ \E m \in Id : Acting(m)
  BY Effects DEF Outdated
<1>2. CASE Same
  BY <1>2 DEF Same, Board!vars
<1> QED BY <1>1, <1>2, ActingOnBoard

(* Until an outdated copy is written back, every step of the server is one *)
(* of the board SealedBoard, whatever requests overlap (StepsOnBoard).     *)
THEOREM EveryStepOnBoard == Spec => StepsOnBoard
<1>1. Typing /\ Boarded /\ [Next]_vars => [~stale' => [Board!Next]_(Board!vars)]_vars
  BY StepOnBoard DEF Boarded
<1> QED BY <1>1, TablesConsistent, PTL DEF Spec, StepsOnBoard
-----------------------------------------------------------------------------
(* One request at a time: the copy it holds is the row in the table.       *)
Alone == \E r \in Request : Request = {r}
HoldsFresh == ~stale /\ \A r \in Request : req[r].pc # "idle" => Fresh(r)

(* At the start no request holds a copy of a row.                          *)
LEMMA FreshInit == Init => HoldsFresh
BY DEF Init, Idle, HoldsFresh

(* Every step of a lone request leaves its copy up to date.                *)
LEMMA FreshNext ==
  ASSUME Alone, Typing, HoldsFresh, [Next]_vars
  PROVE  HoldsFresh'
<1> PICK r \in Request : Request = {r}
  BY DEF Alone
<1>1. users = [j \in DOMAIN users |-> users[j]]
  BY DEF Typing, TypeOK
<1>2. ASSUME SaveCopy(r), req[r].pc # "idle"
      PROVE  users' = users /\ ~stale'
  <2>1. Fresh(r)
    BY <1>2 DEF HoldsFresh
  <2>2. users' = users
    BY <1>1, <1>2, <2>1, SaveSame DEF SaveCopy, Fresh
  <2> QED BY <1>2, <2>1, <2>2 DEF SaveCopy, HoldsFresh
<1>3. ASSUME Handle(r)  PROVE req'[r].pc = "idle"
  BY <1>3 DEF Handle, Idle, Typing, TypeOK
<1>4. CASE UNCHANGED vars
  BY <1>4 DEF vars, HoldsFresh, Fresh
<1>5. CASE GetUser(r)
  <2>1. PICK i \in DOMAIN users :
          req' = [req EXCEPT ![r] = [pc |-> "touch", id |-> i, row |-> users[i]]]
    BY <1>5 DEF GetUser
  <2>2. req'[r].id = i /\ req'[r].row = users[i]
    BY <2>1 DEF Typing, TypeOK
  <2> QED BY <1>5, <2>2 DEF GetUser, HoldsFresh, Fresh
<1>6. CASE Touch(r)
  <2>1. users' = users /\ ~stale' /\ Fresh(r)
    BY <1>2, <1>6 DEF Touch, HoldsFresh
  <2>2. req'[r].id = req[r].id /\ req'[r].row = req[r].row
    BY <1>6 DEF Touch, Typing, TypeOK, RequestState
  <2> QED BY <2>1, <2>2 DEF HoldsFresh, Fresh
<1>7. CASE ChangeSettings(r)
  BY <1>2, <1>3, <1>7 DEF ChangeSettings, Handle, HoldsFresh
<1>8. CASE SetIdentity(r) \/ SetPaused(r) \/ PutSealed(r) \/ DeleteUser(r) \/ Refuse(r)
  BY <1>3, <1>8 DEF SetIdentity, SetPaused, PutSealed, DeleteUser, Refuse, HoldsFresh
<1>9. CASE Register
  <2>1. PICK row \in Row : users' = Create(users, NextId, row)
    BY <1>9 DEF Register, Row
  <2>2. NextId \notin DOMAIN users /\ users \in [DOMAIN users -> Row]
    BY DEF NextId, Typing, TypeOK
  <2>3. DOMAIN users \subseteq DOMAIN users' /\ \A i \in DOMAIN users : users'[i] = users[i]
    BY <2>1, <2>2, CreateType
  <2> QED BY <1>9, <2>3 DEF Register, HoldsFresh, Fresh
<1>10. CASE Tick
  BY <1>10 DEF Tick, HoldsFresh, Fresh
<1>11. CASE Restart
  BY <1>11 DEF Restart, Idle, HoldsFresh
<1> QED BY <1>4, <1>5, <1>6, <1>7, <1>8, <1>9, <1>10, <1>11 DEF Next, Step

(* A server that handles one request at a time never writes back an        *)
(* outdated copy of a row (AloneNeverStale).                               *)
THEOREM AloneIsNeverStale == Spec => []AloneNeverStale
<1>1. CASE Alone
  <2>1. Typing /\ HoldsFresh /\ [Next]_vars => HoldsFresh'
    BY <1>1, FreshNext
  <2>2. HoldsFresh => AloneNeverStale
    BY DEF HoldsFresh, AloneNeverStale
  <2> QED BY <2>1, <2>2, FreshInit, RequestsWellFormed, PTL DEF Spec
<1>2. CASE ~Alone
  <2>1. AloneNeverStale
    BY <1>2 DEF Alone, AloneNeverStale
  <2> QED BY <2>1, PTL
<1> QED BY <1>1, <1>2

(* A server that handles one request at a time implements the board        *)
(* (ImplementsBoard).                                                      *)
THEOREM AloneOnBoard ==
  ASSUME Alone
  PROVE  Spec => ImplementsBoard
<1>1. Init => Board!Init
  <2> SUFFICES ASSUME Init PROVE Board!Init
    OBVIOUS
  <2>1. DOMAIN users = {}
    BY DEF Init
  <2>2. [i \in DOMAIN users |-> users[i].identityPublic] = [m \in {} |-> NoKey]
    BY <2>1
  <2>3. {i \in DOMAIN users : users[i].sharingPaused} = {}
    BY <2>1
  <2> QED BY <2>2, <2>3 DEF Init, Board!Init
<1>2. Typing /\ HoldsFresh /\ [Next]_vars => HoldsFresh'
  BY FreshNext
<1>3. Typing /\ Boarded /\ HoldsFresh' /\ [Next]_vars => [Board!Next]_(Board!vars)
  BY StepOnBoard DEF Boarded, HoldsFresh
<1> QED BY <1>1, <1>2, <1>3, FreshInit, TablesConsistent, PTL
       DEF Spec, ImplementsBoard, Board!Spec
=============================================================================

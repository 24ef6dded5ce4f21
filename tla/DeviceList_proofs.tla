------------------------- MODULE DeviceList_proofs -------------------------
(***************************************************************************)
(* Proofs about DeviceList, for any number of calls in flight, of users of *)
(* one browser, of devices and of passwords.                               *)
(***************************************************************************)
EXTENDS DeviceList, FiniteSetTheorems, TLAPS

(* What a call carries at each of its awaits.                              *)
Fits(c) ==
  /\ c.pc \in {"restore", "derive", "putWrap", "unseal", "sealLegacy", "writeList"} => c.user \in User
  /\ c.pc \in {"derive", "putWrap", "unseal", "sealLegacy", "writeList"} =>
       c.key \in Key /\ c.key.user = c.user
  /\ c.pc \in {"clearWrap", "clearSecrets"} <=> c.op \in {"lock", "forget"}
  /\ c.pc \in {"logIn", "putSecrets", "deleteSecrets", "writeList", "getSecrets", "fetch",
               "requestToken", "putToken", "fetchAgain"} => c.dev \in Device
  /\ c.pc \in {"logIn", "putSecrets"} => c.op \in {"add", "reenter", "refresh"} /\ c.pw \in Password
  /\ c.pc \in {"logIn", "putSecrets"} /\ c.op = "add" => c.user \in User
  /\ c.pc = "deleteSecrets" => c.op = "remove"
  /\ c.pc \in {"getSecrets", "fetch", "requestToken", "putToken", "fetchAgain"} => c.op = "refresh"
  /\ c.pc = "getSecrets" => c.pw \in Password \cup {NoPassword}
  /\ c.pc \in {"fetch", "requestToken", "putToken", "fetchAgain"} => c.pw \in Password

Calls == task \in [Task -> TaskState] /\ \A t \in Task : Fits(task[t])

(* A key is kept under the name it was made from.                          *)
Storage ==
  /\ bundle \in [User -> Sealed \cup {None}]
  /\ legacy \subseteq Device
  /\ remembered \in User \cup {None}
  /\ wrapStore \in [User -> Key \cup {None}]
  /\ \A u \in User : wrapStore[u] # None => wrapStore[u].user = u
  /\ secretStore \in [Device -> Password \cup {None}]
ListOpen ==
  /\ user \in User \cup {None} /\ owner \in User \cup {None}
  /\ stored \subseteq Entry
  /\ owner # None => wrapKey \in Key /\ wrapKey.user = owner
  /\ owner = None => wrapKey = None
Flags ==
  /\ unlocking \in BOOLEAN /\ locked \in BOOLEAN /\ needsLogin \in BOOLEAN
  /\ abandoned \in BOOLEAN /\ disturbed \in BOOLEAN
Others ==
  /\ needsPassword \subseteq Device
  /\ password \in [Device -> Password]
  /\ guesses \in [Device -> Nat]
Typing == Calls /\ Storage /\ ListOpen /\ Flags /\ Others
-----------------------------------------------------------------------------
(* The names of the awaits and of the functions.                           *)
LEMMA Names ==
  /\ {"idle", "restore", "derive", "putWrap", "unseal", "sealLegacy", "unlocked", "clearWrap",
      "clearSecrets", "logIn", "putSecrets", "writeList", "deleteSecrets", "getSecrets", "fetch",
      "requestToken", "putToken", "fetchAgain"} \subseteq PC
  /\ {"none", "restore", "unlock", "lock", "forget", "add", "reenter", "remove", "refresh"}
       \subseteq TaskOp
BY DEF PC, TaskOp

(* A call that has not begun.                                              *)
LEMMA IdleFits == Idle \in TaskState /\ Fits(Idle)
<1>1. Idle \in TaskState
  BY Names DEF Idle, TaskState
<1>2. Fits(Idle)
  BY DEF Idle, Fits
<1> QED BY <1>1, <1>2

(* A call that goes on to another await keeps all that it carries.         *)
LEMMA Moved ==
  ASSUME NEW c \in TaskState, NEW p \in PC, NEW n, n = [c EXCEPT !.pc = p]
  PROVE  /\ n \in TaskState /\ n.pc = p /\ n.op = c.op /\ n.user = c.user /\ n.key = c.key
         /\ n.dev = c.dev /\ n.pw = c.pw /\ n.list = c.list /\ n.late = c.late
BY DEF TaskState

(* The only change that one call makes to another is to make it late.      *)
Same(c, d) ==
  /\ d.pc = c.pc /\ d.op = c.op /\ d.user = c.user /\ d.key = c.key
  /\ d.dev = c.dev /\ d.pw = c.pw /\ d.list = c.list
LEMMA Overtaken ==
  ASSUME NEW c \in TaskState, NEW n, n = [c EXCEPT !.late = TRUE]
  PROVE  n \in TaskState /\ Same(c, n) /\ n.late = TRUE
BY DEF TaskState, Same

(* What a call carries does not depend on whether it is late.              *)
LEMMA SameFits ==
  ASSUME NEW c, NEW d, Same(c, d), Fits(c)
  PROVE  Fits(d)
BY DEF Same, Fits

(* What a step of one call leaves of the others.                           *)
LEMMA Running ==
  ASSUME task \in [Task -> TaskState], NEW t \in Task, NEW n, NEW over, Run(t, n, over)
  PROVE  /\ n \in TaskState => task' \in [Task -> TaskState]
         /\ task'[t] = n
         /\ \A x \in Task \ {t} :
              /\ Same(task[x], task'[x])
              /\ x \in over => task'[x].late = TRUE
              /\ x \notin over => task'[x] = task[x]
<1>1. task' = [x \in Task |->
             IF x = t THEN n
             ELSE IF x \in over THEN [task[x] EXCEPT !.late = TRUE] ELSE task[x]]
  BY DEF Run
<1>2. task'[t] = n
  BY <1>1
<1>3. ASSUME NEW x \in Task \ {t}
      PROVE  /\ task'[x] \in TaskState /\ Same(task[x], task'[x])
             /\ x \in over => task'[x].late = TRUE
             /\ x \notin over => task'[x] = task[x]
  <2>1. task[x] \in TaskState
    OBVIOUS
  <2>2. CASE x \in over
    <3>1. task'[x] = [task[x] EXCEPT !.late = TRUE]
      BY <1>1, <2>2
    <3> QED BY <2>1, <2>2, <3>1, Overtaken
  <2>3. CASE x \notin over
    <3>1. task'[x] = task[x]
      BY <1>1, <2>3
    <3> QED BY <2>1, <2>3, <3>1 DEF Same
  <2> QED BY <2>2, <2>3
<1>4. n \in TaskState => task' \in [Task -> TaskState]
  <2>1. n \in TaskState => \A x \in Task : task'[x] \in TaskState
    BY <1>2, <1>3
  <2> QED BY <1>1, <2>1
<1> QED BY <1>2, <1>3, <1>4

(* Calls stay what they should be when the one that steps does.            *)
LEMMA CallsRun ==
  ASSUME Calls, NEW t \in Task, NEW n \in TaskState, Fits(n), NEW over, Run(t, n, over)
  PROVE  Calls'
<1>1. task' \in [Task -> TaskState] /\ task'[t] = n
      /\ \A x \in Task \ {t} : Same(task[x], task'[x])
  BY Running DEF Calls
<1>2. \A x \in Task \ {t} : Fits(task'[x])
  BY <1>1, SameFits DEF Calls
<1> QED BY <1>1, <1>2 DEF Calls
-----------------------------------------------------------------------------
(* The calls that begin.                                                   *)
LEMMA Begun ==
  /\ \A u \in User :
       LET n == [Idle EXCEPT !.pc = "restore", !.op = "restore", !.user = u]
       IN  n \in TaskState /\ Fits(n)
  /\ \A u \in User, k \in OwnPassword, r \in BOOLEAN :
       LET n == [Idle EXCEPT !.pc = "derive", !.op = "unlock", !.user = u,
                   !.key = [user |-> u, password |-> k], !.remember = r]
       IN  n \in TaskState /\ Fits(n)
  /\ \A op \in {"lock", "forget"} :
       LET n == [Idle EXCEPT !.pc = "clearWrap", !.op = op] IN n \in TaskState /\ Fits(n)
  /\ LET n == [Idle EXCEPT !.pc = "unlocked", !.op = "unlock"] IN n \in TaskState /\ Fits(n)
<1>1. ASSUME NEW u \in User, NEW n, n = [Idle EXCEPT !.pc = "restore", !.op = "restore", !.user = u]
      PROVE  n \in TaskState /\ Fits(n)
  <2>1. n = [pc |-> "restore", op |-> "restore", user |-> u, key |-> None, remember |-> FALSE,
             dev |-> None, pw |-> None, list |-> {}, late |-> FALSE]
    BY <1>1 DEF Idle
  <2>2. n \in TaskState
    BY <2>1, Names DEF TaskState
  <2>3. Fits(n)
    BY <2>1 DEF Fits
  <2> QED BY <2>2, <2>3
<1>2. ASSUME NEW u \in User, NEW k \in OwnPassword, NEW r \in BOOLEAN, NEW n,
             n = [Idle EXCEPT !.pc = "derive", !.op = "unlock", !.user = u,
                    !.key = [user |-> u, password |-> k], !.remember = r]
      PROVE  n \in TaskState /\ Fits(n)
  <2>1. n = [pc |-> "derive", op |-> "unlock", user |-> u, key |-> [user |-> u, password |-> k],
             remember |-> r, dev |-> None, pw |-> None, list |-> {}, late |-> FALSE]
    BY <1>2 DEF Idle
  <2>2. [user |-> u, password |-> k] \in Key
    BY DEF Key
  <2>3. n \in TaskState
    BY <2>1, <2>2, Names DEF TaskState
  <2>4. Fits(n)
    BY <2>1, <2>2 DEF Fits
  <2> QED BY <2>3, <2>4
<1>3. ASSUME NEW op \in {"lock", "forget"}, NEW n, n = [Idle EXCEPT !.pc = "clearWrap", !.op = op]
      PROVE  n \in TaskState /\ Fits(n)
  <2>1. n = [pc |-> "clearWrap", op |-> op, user |-> None, key |-> None, remember |-> FALSE,
             dev |-> None, pw |-> None, list |-> {}, late |-> FALSE]
    BY <1>3 DEF Idle
  <2>2. n \in TaskState
    BY <2>1, Names DEF TaskState
  <2>3. Fits(n)
    BY <2>1 DEF Fits
  <2> QED BY <2>2, <2>3
<1>4. ASSUME NEW n, n = [Idle EXCEPT !.pc = "unlocked", !.op = "unlock"]
      PROVE  n \in TaskState /\ Fits(n)
  <2>1. n = [pc |-> "unlocked", op |-> "unlock", user |-> None, key |-> None, remember |-> FALSE,
             dev |-> None, pw |-> None, list |-> {}, late |-> FALSE]
    BY <1>4 DEF Idle
  <2>2. n \in TaskState
    BY <2>1, Names DEF TaskState
  <2>3. Fits(n)
    BY <2>1 DEF Fits
  <2> QED BY <2>2, <2>3
<1> QED BY <1>1, <1>2, <1>3, <1>4

(* The calls about a device that begin.                                    *)
LEMMA BegunAbout ==
  ASSUME NEW d \in Device
  PROVE  /\ \A u \in User, p \in Password :
              LET n == [Idle EXCEPT !.pc = "logIn", !.op = "add", !.user = u, !.dev = d, !.pw = p]
              IN  n \in TaskState /\ Fits(n)
         /\ \A p \in Password :
              LET n == [Idle EXCEPT !.pc = "logIn", !.op = "reenter", !.dev = d, !.pw = p]
              IN  n \in TaskState /\ Fits(n)
         /\ LET n == [Idle EXCEPT !.pc = "deleteSecrets", !.op = "remove", !.dev = d]
            IN  n \in TaskState /\ Fits(n)
<1>1. ASSUME NEW u \in User, NEW p \in Password, NEW n,
             n = [Idle EXCEPT !.pc = "logIn", !.op = "add", !.user = u, !.dev = d, !.pw = p]
      PROVE  n \in TaskState /\ Fits(n)
  <2>1. n = [pc |-> "logIn", op |-> "add", user |-> u, key |-> None, remember |-> FALSE,
             dev |-> d, pw |-> p, list |-> {}, late |-> FALSE]
    BY <1>1 DEF Idle
  <2>2. n \in TaskState
    BY <2>1, Names DEF TaskState
  <2>3. Fits(n)
    BY <2>1 DEF Fits
  <2> QED BY <2>2, <2>3
<1>2. ASSUME NEW p \in Password, NEW n,
             n = [Idle EXCEPT !.pc = "logIn", !.op = "reenter", !.dev = d, !.pw = p]
      PROVE  n \in TaskState /\ Fits(n)
  <2>1. n = [pc |-> "logIn", op |-> "reenter", user |-> None, key |-> None, remember |-> FALSE,
             dev |-> d, pw |-> p, list |-> {}, late |-> FALSE]
    BY <1>2 DEF Idle
  <2>2. n \in TaskState
    BY <2>1, Names DEF TaskState
  <2>3. Fits(n)
    BY <2>1 DEF Fits
  <2> QED BY <2>2, <2>3
<1>3. ASSUME NEW n, n = [Idle EXCEPT !.pc = "deleteSecrets", !.op = "remove", !.dev = d]
      PROVE  n \in TaskState /\ Fits(n)
  <2>1. n = [pc |-> "deleteSecrets", op |-> "remove", user |-> None, key |-> None,
             remember |-> FALSE, dev |-> d, pw |-> None, list |-> {}, late |-> FALSE]
    BY <1>3 DEF Idle
  <2>2. n \in TaskState
    BY <2>1, Names DEF TaskState
  <2>3. Fits(n)
    BY <2>1 DEF Fits
  <2> QED BY <2>2, <2>3
<1> QED BY <1>1, <1>2, <1>3

(* A refresh that begins.                                                  *)
LEMMA RefreshFits ==
  ASSUME NEW e \in Entry
  PROVE  RefreshOf(e) \in TaskState /\ Fits(RefreshOf(e))
<1> SUFFICES ASSUME NEW n, n = RefreshOf(e)
             PROVE  n \in TaskState /\ Fits(n)
  OBVIOUS
<1>1. n = [pc |-> "getSecrets", op |-> "refresh", user |-> None, key |-> None,
           remember |-> FALSE, dev |-> e.dev, pw |-> e.password, list |-> {}, late |-> FALSE]
  BY DEF Idle, RefreshOf
<1>2. e.dev \in Device /\ e.password \in Password \cup {NoPassword}
  BY DEF Entry
<1>3. n \in TaskState
  BY <1>1, <1>2, Names DEF TaskState
<1>4. Fits(n)
  BY <1>1, <1>2 DEF Fits
<1> QED BY <1>3, <1>4
-----------------------------------------------------------------------------
(* The invariant says what TypeOK says.                                    *)
LEMMA TypingTypes == Typing => TypeOK
<1> SUFFICES ASSUME Typing  PROVE TypeOK
  OBVIOUS
<1>1. {unlocking, locked, needsLogin} \subseteq BOOLEAN /\ {abandoned, disturbed} \subseteq BOOLEAN
  BY DEF Typing, Flags
<1>2. \A t \in Task : task[t].pc = "writeList" => task[t].user # None /\ task[t].key # None
  <2> SUFFICES ASSUME NEW t \in Task, task[t].pc = "writeList"
               PROVE  task[t].user # None /\ task[t].key # None
    OBVIOUS
  <2>1. task[t].user \in User /\ task[t].key \in Key
    BY DEF Typing, Calls, Fits
  <2> QED BY <2>1, DeviceListAssumption
<1>3. wrapKey \in Key \cup {None}
  BY DEF Typing, ListOpen
<1> QED BY <1>1, <1>2, <1>3 DEF Typing, Storage, ListOpen, Others, Calls, TypeOK

(* It holds at the start.                                                  *)
LEMMA TypingInit == Init => Typing
<1> SUFFICES ASSUME Init  PROVE Typing
  OBVIOUS
<1>1. Calls
  BY IdleFits DEF Init, Calls
<1>2. Storage
  <2>1. \A d \in Device : secretStore[d] \in Password \cup {None}
    BY DEF Init
  <2> QED BY <2>1 DEF Init, Storage
<1>3. ListOpen
  BY DEF Init, ListOpen
<1>4. Flags
  <2>1. (legacy # {}) \in BOOLEAN
    OBVIOUS
  <2> QED BY <2>1, Zenon DEF Init, Flags
<1>5. Others
  BY DEF Init, Others
<1> QED BY <1>1, <1>2, <1>3, <1>4, <1>5 DEF Typing

(* Locking the list.                                                       *)
LEMMA LockingTypes ==
  ASSUME Typing, LockFamily, user' \in User \cup {None}
  PROVE  /\ ListOpen' /\ needsPassword' \subseteq Device /\ guesses' \in [Device -> Nat]
         /\ unlocking' \in BOOLEAN /\ locked' \in BOOLEAN /\ needsLogin' \in BOOLEAN
<1>1. ListOpen' /\ needsPassword' \subseteq Device /\ guesses' \in [Device -> Nat]
  BY DEF LockFamily, ListOpen
<1>2. unlocking' \in BOOLEAN /\ locked' \in BOOLEAN /\ needsLogin' \in BOOLEAN
  BY Zenon DEF LockFamily, Typing, Flags
<1> QED BY <1>1, <1>2

(* A disturbance is a Boolean.                                             *)
LEMMA Disturbing ==
  ASSUME NEW t \in Task, Disturb(t)
  PROVE  disturbed' \in BOOLEAN
<1>1. (disturbed \/ task[t].late) \in BOOLEAN
  OBVIOUS
<1> QED BY <1>1, Zenon DEF Disturb

(* What openList makes of a call that has the key, once the list is there. *)
Opens(c) ==
  /\ c \in TaskState /\ c.user \in User /\ c.key \in Key /\ c.key.user = c.user
  /\ c.op \notin {"lock", "forget"}
LEMMA OpenedTypes ==
  ASSUME Typing, NEW t \in Task, NEW c, Opens(c), NEW list \in SUBSET Entry, Opened(t, c, list)
  PROVE  /\ Calls' /\ stored' \subseteq Entry /\ legacy' \subseteq Device
         /\ locked' \in BOOLEAN /\ needsLogin' \in BOOLEAN
<1> DEFINE joining == {d \in legacy : \A e \in list : e.dev # d}
           all == list \cup {[dev |-> d, password |-> NoPassword, by |-> c.user] : d \in joining}
<1>1. all \subseteq Entry
  <2>1. joining \subseteq Device
    BY DEF Typing, Storage
  <2>2. ASSUME NEW d \in Device  PROVE [dev |-> d, password |-> NoPassword, by |-> c.user] \in Entry
    BY DEF Entry, Opens
  <2> QED BY <2>1, <2>2
<1>2. stored' = all
  BY DEF Opened
<1>3. CASE joining = {} /\ Show(t, c)
  <2>1. legacy' = {} /\ locked' = FALSE /\ needsLogin' = FALSE
    BY <1>3 DEF Show
  <2>2. Calls'
    <3>1. CASE c.op = "unlock"
      BY <1>3, <3>1, Begun, CallsRun DEF Show, Typing
    <3>2. CASE c.op # "unlock"
      BY <1>3, <3>2, IdleFits, CallsRun DEF Show, Typing
    <3> QED BY <3>1, <3>2
  <2> QED BY <1>1, <1>2, <2>1, <2>2
<1>4. CASE joining # {} /\ Run(t, [c EXCEPT !.pc = "sealLegacy", !.list = all], Holding({}))
                         /\ UNCHANGED <<legacy, locked, needsLogin>>
  <2> HIDE DEF all
  <2> DEFINE n == [c EXCEPT !.pc = "sealLegacy", !.list = all]
  <2>1. n \in TaskState /\ n.pc = "sealLegacy" /\ n.op = c.op /\ n.user = c.user /\ n.key = c.key
    BY <1>1, Names DEF TaskState, Opens
  <2> HIDE DEF n
  <2>2. Fits(n)
    BY <2>1 DEF Fits, Opens
  <2>3. Run(t, n, Holding({}))
    BY <1>4 DEF n
  <2>4. Calls'
    BY <2>1, <2>2, <2>3, CallsRun DEF Typing
  <2>5. legacy' \subseteq Device
    BY <1>4 DEF Typing, Storage
  <2>6. locked' \in BOOLEAN /\ needsLogin' \in BOOLEAN
    BY <1>4, Zenon DEF Typing, Flags
  <2> QED BY <1>1, <1>2, <2>4, <2>5, <2>6
<1> QED BY <1>3, <1>4 DEF Opened

LEMMA OpenListTypes ==
  ASSUME Typing, NEW t \in Task, NEW c, Opens(c), OpenList(t, c), UNCHANGED user
  PROVE  /\ Calls' /\ ListOpen' /\ legacy' \subseteq Device
         /\ locked' \in BOOLEAN /\ needsLogin' \in BOOLEAN /\ disturbed' \in BOOLEAN
<1> DEFINE sealed == bundle[c.user]
           list == IF sealed # None /\ sealed.key = c.key THEN sealed.list ELSE {}
<1>1. list \in SUBSET Entry
  BY DEF Typing, Storage, Opens, Sealed
<1>2. owner' = c.user /\ wrapKey' = c.key
  BY DEF OpenList
<1>3. /\ Calls' /\ stored' \subseteq Entry /\ legacy' \subseteq Device
      /\ locked' \in BOOLEAN /\ needsLogin' \in BOOLEAN
  <2>1. CASE sealed = None /\ Opened(t, c, {})
    BY <2>1, OpenedTypes
  <2>2. CASE Run(t, [c EXCEPT !.pc = "unseal", !.list = list], {})
               /\ UNCHANGED <<legacy, stored, locked, needsLogin>>
    <3> HIDE DEF list
    <3> DEFINE n == [c EXCEPT !.pc = "unseal", !.list = list]
    <3>1. n \in TaskState /\ n.pc = "unseal" /\ n.op = c.op /\ n.user = c.user /\ n.key = c.key
      BY <1>1, Names DEF TaskState, Opens
    <3> HIDE DEF n
    <3>2. Fits(n)
      BY <3>1 DEF Fits, Opens
    <3>3. Run(t, n, {})
      BY <2>2 DEF n
    <3>4. Calls'
      BY <3>1, <3>2, <3>3, CallsRun DEF Typing
    <3>5. stored' \subseteq Entry /\ legacy' \subseteq Device
      BY <2>2 DEF Typing, Storage, ListOpen
    <3>6. locked' \in BOOLEAN /\ needsLogin' \in BOOLEAN
      BY <2>2, Zenon DEF Typing, Flags
    <3> QED BY <3>4, <3>5, <3>6
  <2> QED BY <2>1, <2>2 DEF OpenList
<1>4. ListOpen'
  <2>1. c.user # None
    BY DeviceListAssumption DEF Opens
  <2> QED BY <1>2, <1>3, <2>1 DEF ListOpen, Typing, Opens
<1>5. disturbed' \in BOOLEAN
  <2>1. (disturbed \/ task[t].late \/ wrapKey \notin {None, c.key}) \in BOOLEAN
    OBVIOUS
  <2> QED BY <2>1, Zenon DEF OpenList
<1> QED BY <1>3, <1>4, <1>5

(* A call that restores or unlocks the list, when it has the key.          *)
LEMMA HasKey ==
  ASSUME Typing, NEW t \in Task
  PROVE  /\ \A key : task[t].pc = "restore" /\ key = wrapStore[task[t].user] /\ key # None =>
              Opens([task[t] EXCEPT !.key = key])
         /\ task[t].pc \in {"derive", "putWrap", "unseal"} => Opens(task[t])
         /\ task[t].pc = "putWrap" => Opens([task[t] EXCEPT !.remember = FALSE])
<1> DEFINE c == task[t]
<1>1. c \in TaskState /\ Fits(c)
  BY DEF Typing, Calls
<1>2. ASSUME NEW key, c.pc = "restore", key = wrapStore[c.user], key # None,
             NEW n, n = [c EXCEPT !.key = key]
      PROVE  Opens(n)
  <2>1. c.user \in User /\ c.op \notin {"lock", "forget"}
    BY <1>1, <1>2 DEF Fits
  <2>2. key \in Key /\ key.user = c.user
    BY <1>2, <2>1 DEF Typing, Storage
  <2> HIDE DEF c
  <2>3. n \in TaskState /\ n.user = c.user /\ n.key = key /\ n.op = c.op
    BY <1>1, <1>2, <2>2 DEF TaskState
  <2> QED BY <2>1, <2>2, <2>3 DEF Opens
<1>3. c.pc \in {"derive", "putWrap", "unseal"} => Opens(c)
  BY <1>1 DEF Fits, Opens
<1>4. ASSUME c.pc = "putWrap", NEW n, n = [c EXCEPT !.remember = FALSE]
      PROVE  Opens(n)
  <2> HIDE DEF c
  <2>1. n \in TaskState /\ n.user = c.user /\ n.key = c.key /\ n.op = c.op
    BY <1>1, <1>4 DEF TaskState
  <2> QED BY <1>3, <1>4, <2>1 DEF Opens
<1> QED BY <1>2, <1>3, <1>4
-----------------------------------------------------------------------------
(* Each action keeps the types: logging in and out.                        *)
LEMMA LoginTypes ==
  ASSUME Typing, NEW u \in User, Login(u)
  PROVE  Typing'
<1>1. PICK t1 \in Task, t2 \in Task, k \in OwnPassword, remember \in BOOLEAN :
        /\ Free(t1) /\ Free(t2) /\ (t1 = t2 => wrapStore[u] = None)
        /\ remembered' = IF remember THEN u ELSE remembered
        /\ task' = [task EXCEPT
             ![t1] = Restoring(u),
             ![t2] = [Idle EXCEPT !.pc = "derive", !.op = "unlock", !.user = u,
                        !.key = [user |-> u, password |-> k], !.remember = remember]]
  BY Zenon DEF Login
<1>2. Restoring(u) \in TaskState /\ Fits(Restoring(u))
  BY Begun, IdleFits DEF Restoring
<1> DEFINE n == [Idle EXCEPT !.pc = "derive", !.op = "unlock", !.user = u,
                   !.key = [user |-> u, password |-> k], !.remember = remember]
<1>3. n \in TaskState /\ Fits(n)
  BY Begun
<1> HIDE DEF n
<1>4. task' = [task EXCEPT ![t1] = Restoring(u), ![t2] = n]
  BY <1>1 DEF n
<1>5. Calls'
  BY <1>2, <1>3, <1>4 DEF Typing, Calls
<1>6. Storage'
  BY <1>1 DEF Login, Typing, Storage
<1>7. ListOpen'
  BY DEF Login, Typing, ListOpen
<1>8. Flags'
  BY Zenon DEF Login, Typing, Flags
<1>9. Others'
  BY DEF Login, Typing, Others
<1> QED BY <1>5, <1>6, <1>7, <1>8, <1>9 DEF Typing

LEMMA LogoutTypes ==
  ASSUME Typing, Logout
  PROVE  Typing'
<1>1. PICK t \in Task : Run(t, [Idle EXCEPT !.pc = "clearWrap", !.op = "lock"], InFlight)
  BY DEF Logout
<1>2. Calls'
  BY <1>1, Begun, CallsRun DEF Typing
<1>3. Storage'
  BY DEF Logout, Typing, Storage
<1>4. LockFamily /\ user' \in User \cup {None}
  BY DEF Logout
<1>5. Flags'
  BY <1>4, LockingTypes, Zenon DEF Logout, Typing, Flags
<1>6. Others'
  BY <1>4, LockingTypes DEF Logout, Typing, Others
<1> QED BY <1>2, <1>3, <1>4, <1>5, <1>6, LockingTypes DEF Typing

LEMMA ForgetSessionTypes ==
  ASSUME Typing, ForgetSession
  PROVE  Typing'
<1>1. Calls' /\ Storage' /\ ListOpen' /\ Others'
  BY DEF ForgetSession, memory, Typing, Calls, Storage, ListOpen, Others
<1>2. Flags'
  BY Zenon DEF ForgetSession, memory, Typing, Flags
<1> QED BY <1>1, <1>2 DEF Typing

LEMMA ForgetTypes ==
  ASSUME Typing, ForgetAllDevices
  PROVE  Typing'
<1>1. PICK t \in Task : Run(t, [Idle EXCEPT !.pc = "clearWrap", !.op = "forget"], InFlight)
  BY DEF ForgetAllDevices
<1>2. Calls'
  BY <1>1, Begun, CallsRun DEF Typing
<1>3. Storage'
  BY DEF ForgetAllDevices, Typing, Storage
<1>4. LockFamily /\ user' \in User \cup {None}
  BY DEF ForgetAllDevices, Typing, ListOpen
<1>5. Flags'
  BY <1>4, LockingTypes, Zenon DEF ForgetAllDevices, Typing, Flags
<1>6. Others'
  BY <1>4, LockingTypes DEF ForgetAllDevices, Typing, Others
<1> QED BY <1>2, <1>3, <1>4, <1>5, <1>6, LockingTypes DEF Typing

LEMMA ClearWrapTypes ==
  ASSUME Typing, NEW t \in Task, ClearWrap(t)
  PROVE  Typing'
<1> DEFINE n == [task[t] EXCEPT !.pc = "clearSecrets"]
<1>1. task[t] \in TaskState /\ Fits(task[t]) /\ task[t].pc = "clearWrap"
  BY DEF ClearWrap, Typing, Calls
<1>2. n \in TaskState /\ n.pc = "clearSecrets" /\ n.op = task[t].op
  BY <1>1, Names, Moved
<1> HIDE DEF n
<1>3. Fits(n)
  BY <1>1, <1>2 DEF Fits
<1>4. Run(t, n, {})
  BY DEF ClearWrap, Wait, n
<1>5. Calls'
  BY <1>2, <1>3, <1>4, CallsRun DEF Typing
<1>6. Storage' /\ ListOpen' /\ Others'
  BY DEF ClearWrap, memory, Typing, Storage, ListOpen, Others
<1>7. Flags'
  <2>1. disturbed' \in BOOLEAN
    BY Disturbing DEF ClearWrap
  <2> QED BY <2>1, Zenon DEF ClearWrap, memory, Typing, Flags
<1> QED BY <1>5, <1>6, <1>7 DEF Typing

LEMMA ClearSecretsTypes ==
  ASSUME Typing, NEW t \in Task, ClearSecrets(t)
  PROVE  Typing'
<1>1. disturbed' \in BOOLEAN /\ abandoned' \in BOOLEAN
  BY Disturbing DEF ClearSecrets
<1>2. Storage'
  BY DEF ClearSecrets, Typing, Storage
<1>3. user' \in User \cup {None}
  BY DEF ClearSecrets, memory, Typing, ListOpen
<1>4. CASE \E over : Run(t, Idle, over)
            /\ UNCHANGED <<owner, wrapKey, stored, unlocking, locked, needsLogin, needsPassword,
                           guesses>>
  <2>1. Calls'
    BY <1>4, IdleFits, CallsRun DEF Typing
  <2>2. ListOpen'
    BY <1>3, <1>4 DEF Typing, ListOpen
  <2>3. Flags'
    BY <1>1, <1>4, Zenon DEF Typing, Flags
  <2>4. Others'
    BY <1>4 DEF ClearSecrets, Typing, Others
  <2> QED BY <1>2, <2>1, <2>2, <2>3, <2>4 DEF Typing
<1>5. CASE LockFamily /\ Run(t, [Idle EXCEPT !.pc = "clearWrap", !.op = "lock"], InFlight)
  <2>1. Calls'
    BY <1>5, Begun, CallsRun DEF Typing
  <2>2. Flags'
    BY <1>1, <1>3, <1>5, LockingTypes, Zenon DEF Flags
  <2>3. Others'
    BY <1>3, <1>5, LockingTypes DEF ClearSecrets, Typing, Others
  <2> QED BY <1>2, <1>3, <1>5, <2>1, <2>2, <2>3, LockingTypes DEF Typing
<1> QED BY <1>4, <1>5 DEF ClearSecrets, memory

LEMMA ReloadTypes ==
  ASSUME Typing, Reload
  PROVE  Typing'
<1>1. PICK t \in Task : task' = [x \in Task |->
        IF x = t /\ remembered # None
        THEN [Idle EXCEPT !.pc = "restore", !.op = "restore", !.user = remembered] ELSE Idle]
  BY DEF Reload
<1>2. Calls'
  <2> DEFINE n == [Idle EXCEPT !.pc = "restore", !.op = "restore", !.user = remembered]
  <2>1. remembered # None => n \in TaskState /\ Fits(n)
    BY Begun DEF Typing, Storage
  <2> HIDE DEF n
  <2>2. task' = [x \in Task |-> IF x = t /\ remembered # None THEN n ELSE Idle]
    BY <1>1 DEF n
  <2> QED BY <2>1, <2>2, IdleFits DEF Calls
<1>3. Storage' /\ ListOpen' /\ Others'
  BY DEF Reload, storage, Typing, Storage, ListOpen, Others
<1>4. Flags'
  <2>1. /\ (abandoned \/ (user # None /\ remembered = None)) \in BOOLEAN
        /\ (disturbed \/ \E x \in Task : task[x].op \in {"add", "reenter", "lock", "forget"}) \in BOOLEAN
    OBVIOUS
  <2> QED BY <2>1, Zenon DEF Reload, Flags
<1> QED BY <1>2, <1>3, <1>4 DEF Typing
-----------------------------------------------------------------------------
(* Opening the list.                                                       *)
LEMMA RestoreTypes ==
  ASSUME Typing, NEW t \in Task, RestoreFamily(t)
  PROVE  Typing'
<1> DEFINE key == wrapStore[task[t].user]
<1>1. CASE key # None /\ OpenList(t, [task[t] EXCEPT !.key = key])
  <2>1. Opens([task[t] EXCEPT !.key = key])
    BY <1>1, HasKey DEF RestoreFamily
  <2>2. UNCHANGED user
    BY DEF RestoreFamily
  <2>3. /\ Calls' /\ ListOpen' /\ legacy' \subseteq Device
        /\ locked' \in BOOLEAN /\ needsLogin' \in BOOLEAN /\ disturbed' \in BOOLEAN
    <3> HIDE DEF key
    <3> QED BY <1>1, <2>1, <2>2, OpenListTypes
  <2>4. Storage' /\ Others'
    BY <2>3 DEF RestoreFamily, Typing, Storage, Others
  <2>5. Flags'
    BY <2>3, Zenon DEF RestoreFamily, Typing, Flags
  <2> QED BY <2>3, <2>4, <2>5 DEF Typing
<1>2. CASE /\ needsLogin' = (needsLogin \/ ~unlocking)
           /\ Done(t)
           /\ UNCHANGED <<legacy, owner, wrapKey, stored, locked, disturbed>>
  <2>1. Calls'
    BY <1>2, IdleFits, CallsRun DEF Done, Typing
  <2>2. Storage' /\ ListOpen' /\ Others'
    BY <1>2 DEF RestoreFamily, Typing, Storage, ListOpen, Others
  <2>3. Flags'
    <3>1. (needsLogin \/ ~unlocking) \in BOOLEAN
      OBVIOUS
    <3> QED BY <1>2, <3>1, Zenon DEF RestoreFamily, Typing, Flags
  <2> QED BY <2>1, <2>2, <2>3 DEF Typing
<1> QED BY <1>1, <1>2 DEF RestoreFamily

LEMMA UnlockTypes ==
  ASSUME Typing, NEW t \in Task, UnlockFamily(t)
  PROVE  Typing'
<1>1. CASE OpenList(t, task[t])
  <2>1. Opens(task[t]) /\ UNCHANGED user
    BY HasKey DEF UnlockFamily
  <2>2. /\ Calls' /\ ListOpen' /\ legacy' \subseteq Device
        /\ locked' \in BOOLEAN /\ needsLogin' \in BOOLEAN /\ disturbed' \in BOOLEAN
    BY <1>1, <2>1, OpenListTypes
  <2>3. Storage' /\ Others'
    BY <2>2 DEF UnlockFamily, Typing, Storage, Others
  <2>4. Flags'
    BY <2>2, Zenon DEF UnlockFamily, Typing, Flags
  <2> QED BY <2>2, <2>3, <2>4 DEF Typing
<1>2. CASE /\ Wait(t, "putWrap")
           /\ UNCHANGED <<legacy, owner, wrapKey, stored, locked, needsLogin, disturbed>>
  <2> DEFINE n == [task[t] EXCEPT !.pc = "putWrap"]
  <2>1. task[t] \in TaskState /\ Fits(task[t]) /\ task[t].pc = "derive"
    BY DEF UnlockFamily, Typing, Calls
  <2>2. /\ n \in TaskState /\ n.pc = "putWrap" /\ n.op = task[t].op
        /\ n.user = task[t].user /\ n.key = task[t].key
    BY <2>1, Names, Moved
  <2> HIDE DEF n
  <2>3. Fits(n)
    BY <2>1, <2>2 DEF Fits
  <2>4. Run(t, n, {})
    BY <1>2 DEF Wait, n
  <2>5. Calls'
    BY <2>2, <2>3, <2>4, CallsRun DEF Typing
  <2>6. Storage' /\ ListOpen' /\ Others'
    BY <1>2 DEF UnlockFamily, Typing, Storage, ListOpen, Others
  <2>7. Flags'
    BY <1>2, Zenon DEF UnlockFamily, Typing, Flags
  <2> QED BY <2>5, <2>6, <2>7 DEF Typing
<1> QED BY <1>1, <1>2 DEF UnlockFamily

LEMMA PutWrapTypes ==
  ASSUME Typing, NEW t \in Task, PutWrap(t)
  PROVE  Typing'
<1> DEFINE n == [task[t] EXCEPT !.remember = FALSE]
<1>1. Opens(n) /\ UNCHANGED user
  BY HasKey DEF PutWrap
<1>2. OpenList(t, n)
  BY DEF PutWrap
<1> HIDE DEF n
<1>3. /\ Calls' /\ ListOpen' /\ legacy' \subseteq Device
      /\ locked' \in BOOLEAN /\ needsLogin' \in BOOLEAN /\ disturbed' \in BOOLEAN
  BY <1>1, <1>2, OpenListTypes
<1>4. task[t].user \in User /\ task[t].key \in Key /\ task[t].key.user = task[t].user
  BY DEF PutWrap, Typing, Calls, Fits
<1>5. Storage' /\ Others'
  BY <1>3, <1>4 DEF PutWrap, Typing, Storage, Others
<1>6. Flags'
  BY <1>3, Zenon DEF PutWrap, Typing, Flags
<1> QED BY <1>3, <1>5, <1>6 DEF Typing

LEMMA UnsealTypes ==
  ASSUME Typing, NEW t \in Task, Unseal(t)
  PROVE  Typing'
<1>1. Opens(task[t]) /\ task[t].list \in SUBSET Entry
  <2>1. task[t] \in TaskState
    BY DEF Typing, Calls
  <2>2. task[t].list \in SUBSET Entry
    BY <2>1 DEF TaskState
  <2> QED BY <2>2, HasKey DEF Unseal
<1>2. /\ Calls' /\ stored' \subseteq Entry /\ legacy' \subseteq Device
      /\ locked' \in BOOLEAN /\ needsLogin' \in BOOLEAN
  BY <1>1, OpenedTypes DEF Unseal
<1>3. Storage' /\ Others' /\ ListOpen'
  BY <1>2 DEF Unseal, Typing, Storage, Others, ListOpen
<1>4. Flags'
  <2>1. disturbed' \in BOOLEAN
    BY Disturbing DEF Unseal
  <2> QED BY <1>2, <2>1, Zenon DEF Unseal, Typing, Flags
<1> QED BY <1>2, <1>3, <1>4 DEF Typing

(* What is sealed under a key.                                             *)
LEMMA SealedTypes ==
  ASSUME Typing, NEW t \in Task, task[t].pc \in {"sealLegacy", "writeList"}
  PROVE  /\ task[t].user \in User /\ task[t].list \in SUBSET Entry
         /\ [key |-> task[t].key, list |-> task[t].list] \in Sealed
<1>1. task[t] \in TaskState /\ Fits(task[t])
  BY DEF Typing, Calls
<1>2. task[t].user \in User /\ task[t].key \in Key
  BY <1>1 DEF Fits
<1>3. task[t].list \in SUBSET Entry
  BY <1>1 DEF TaskState
<1> QED BY <1>2, <1>3 DEF Sealed

LEMMA SealLegacyTypes ==
  ASSUME Typing, NEW t \in Task, SealLegacy(t)
  PROVE  Typing'
<1>1. legacy' = {} /\ locked' = FALSE /\ needsLogin' = FALSE
  BY DEF SealLegacy, Show
<1>2. Calls'
  <2>1. CASE task[t].op = "unlock"
    BY <2>1, Begun, CallsRun DEF SealLegacy, Show, Typing
  <2>2. CASE task[t].op # "unlock"
    BY <2>2, IdleFits, CallsRun DEF SealLegacy, Show, Typing
  <2> QED BY <2>1, <2>2
<1>3. Storage'
  <2> DEFINE new == [key |-> task[t].key, list |-> task[t].list]
  <2>1. new \in Sealed /\ bundle' = [bundle EXCEPT ![task[t].user] = new]
    BY SealedTypes DEF SealLegacy
  <2> HIDE DEF new
  <2> QED BY <1>1, <2>1 DEF SealLegacy, Typing, Storage
<1>4. Others' /\ ListOpen'
  BY DEF SealLegacy, Typing, Others, ListOpen
<1>5. Flags'
  <2>1. disturbed' \in BOOLEAN
    BY Disturbing DEF SealLegacy
  <2> QED BY <1>1, <2>1, Zenon DEF SealLegacy, Typing, Flags
<1> QED BY <1>2, <1>3, <1>4, <1>5 DEF Typing

LEMMA UnlockedTypes ==
  ASSUME Typing, NEW t \in Task, Unlocked(t)
  PROVE  Typing'
<1>1. Calls'
  BY IdleFits, CallsRun DEF Unlocked, Done, Typing
<1>2. Storage' /\ Others' /\ ListOpen'
  BY DEF Unlocked, storage, Typing, Storage, Others, ListOpen
<1>3. Flags'
  BY Zenon DEF Unlocked, storage, Typing, Flags
<1> QED BY <1>1, <1>2, <1>3 DEF Typing
-----------------------------------------------------------------------------
(* The devices.  The ways of a call that only goes on to its next await.   *)
Onward(c, p) ==
  \/ c.pc = "logIn" /\ p = "putSecrets"
  \/ c.pc = "putSecrets" /\ c.op = "refresh" /\ p = "fetch"
  \/ c.pc = "getSecrets" /\ c.pw # NoPassword /\ p = "logIn"
  \/ c.pc = "fetch" /\ p = "requestToken"
  \/ c.pc = "requestToken" /\ p = "putToken"
  \/ c.pc = "putToken" /\ p = "fetchAgain"
LEMMA OnwardTypes ==
  ASSUME Typing, NEW t \in Task, NEW p \in PC, Onward(task[t], p), NEW over,
         Run(t, [task[t] EXCEPT !.pc = p], over)
  PROVE  Calls'
<1> DEFINE c == task[t]
           n == [c EXCEPT !.pc = p]
<1>1. c \in TaskState /\ Fits(c) /\ Onward(c, p)
  BY DEF Typing, Calls
<1>2. Run(t, n, over)
  OBVIOUS
<1> HIDE DEF c
<1>3. /\ n \in TaskState /\ n.pc = p /\ n.op = c.op /\ n.user = c.user /\ n.key = c.key
      /\ n.dev = c.dev /\ n.pw = c.pw /\ n.list = c.list /\ n.late = c.late
  BY <1>1, Moved
<1> HIDE DEF n
<1>4. Fits(n)
  BY <1>1, <1>3 DEF Fits, Onward
<1> QED BY <1>2, <1>3, <1>4, CallsRun DEF Typing

(* Entering the list anew.                                                 *)
LEMMA WriteListTypes ==
  ASSUME Typing, NEW t \in Task, task[t].pc \in {"putSecrets", "deleteSecrets"},
         NEW list \in SUBSET Entry, WriteList(t, list)
  PROVE  Calls'
<1> DEFINE c == task[t]
           n == [c EXCEPT !.pc = "writeList", !.user = owner, !.key = wrapKey, !.list = list]
<1>1. c \in TaskState /\ Fits(c) /\ c.pc \in {"putSecrets", "deleteSecrets"}
  BY DEF Typing, Calls
<1>2. CASE owner = None \/ wrapKey = None
  BY <1>2, IdleFits, CallsRun DEF WriteList, Typing
<1>3. CASE ~(owner = None \/ wrapKey = None)
  <2>1. owner \in User /\ wrapKey \in Key /\ wrapKey.user = owner
    BY <1>3 DEF Typing, ListOpen
  <2>2. Run(t, n, About(c.dev, c.op))
    BY <1>3 DEF WriteList
  <2> HIDE DEF c
  <2>3. /\ n \in TaskState /\ n.pc = "writeList" /\ n.op = c.op /\ n.user = owner
        /\ n.key = wrapKey /\ n.dev = c.dev
    BY <1>1, <2>1, Names DEF TaskState
  <2> HIDE DEF n
  <2>4. Fits(n)
    BY <1>1, <2>1, <2>3 DEF Fits
  <2> QED BY <2>2, <2>3, <2>4, CallsRun DEF Typing
<1> QED BY <1>2, <1>3

(* What becomes of the list is a list.                                     *)
LEMMA NewListTypes ==
  ASSUME Typing, NEW t \in Task,
         \/ task[t].pc = "putSecrets" /\ task[t].op # "refresh"
         \/ task[t].pc = "deleteSecrets"
  PROVE  NewList(t) \in SUBSET Entry
<1>1. stored \subseteq Entry
  BY DEF Typing, ListOpen
<1>2. Fits(task[t])
  BY DEF Typing, Calls
<1>3. CASE task[t].pc = "putSecrets" /\ task[t].op = "add"
  <2>1. task[t].dev \in Device /\ task[t].pw \in Password /\ task[t].user \in User
    BY <1>2, <1>3 DEF Fits
  <2>2. [dev |-> task[t].dev, password |-> task[t].pw, by |-> task[t].user] \in Entry
    BY <2>1 DEF Entry
  <2>3. NewList(t) = stored \cup {[dev |-> task[t].dev, password |-> task[t].pw, by |-> task[t].user]}
    BY <1>3 DEF NewList
  <2> QED BY <1>1, <2>2, <2>3
<1>4. CASE task[t].pc = "putSecrets" /\ task[t].op = "reenter"
  <2> DEFINE new(e) == IF e.dev = task[t].dev THEN [e EXCEPT !.password = task[t].pw] ELSE e
  <2>1. task[t].pw \in Password
    BY <1>2, <1>4 DEF Fits
  <2>2. ASSUME NEW e \in Entry  PROVE new(e) \in Entry
    BY <2>1 DEF Entry
  <2>3. NewList(t) = {new(e) : e \in stored}
    BY <1>4 DEF NewList
  <2> HIDE DEF new
  <2> QED BY <1>1, <2>2, <2>3
<1>5. CASE task[t].pc = "deleteSecrets"
  <2>1. task[t].op = "remove"
    BY <1>2, <1>5 DEF Fits
  <2>2. NewList(t) = {e \in stored : e.dev # task[t].dev}
    BY <2>1 DEF NewList
  <2> QED BY <1>1, <2>2
<1>6. task[t].pc = "putSecrets" => task[t].op \in {"add", "reenter", "refresh"}
  BY <1>2 DEF Fits
<1> QED BY <1>3, <1>4, <1>5, <1>6

(* A call starts.                                                          *)
LEMMA StartTypes ==
  ASSUME Typing, NEW n \in TaskState, Fits(n), Start(n)
  PROVE  Typing'
<1>1. PICK t \in Task : Run(t, n, {})
  BY DEF Start
<1>2. Calls'
  BY <1>1, CallsRun DEF Typing
<1>3. Storage' /\ Others' /\ ListOpen'
  BY DEF Start, storage, memory, Typing, Storage, Others, ListOpen
<1>4. Flags'
  BY Zenon DEF Start, storage, memory, Typing, Flags
<1> QED BY <1>2, <1>3, <1>4 DEF Typing

LEMMA StartsType ==
  ASSUME Typing, AddDevice \/ ReenterPassword \/ RemoveDevice
  PROVE  Typing'
<1>1. CASE AddDevice
  <2>1. PICK d \in Device, p \in Password :
          Start([Idle EXCEPT !.pc = "logIn", !.op = "add", !.user = user, !.dev = d, !.pw = p])
    BY <1>1 DEF AddDevice
  <2>2. user \in User
    BY <2>1 DEF Start, Typing, ListOpen
  <2> QED BY <2>1, <2>2, BegunAbout, StartTypes
<1>2. CASE ReenterPassword
  <2>1. PICK d \in needsPassword, p \in Password :
          Start([Idle EXCEPT !.pc = "logIn", !.op = "reenter", !.dev = d, !.pw = p])
    BY <1>2 DEF ReenterPassword
  <2>2. d \in Device
    BY DEF Typing, Others
  <2> QED BY <2>1, <2>2, BegunAbout, StartTypes
<1>3. CASE RemoveDevice
  <2>1. PICK d \in Device :
          Start([Idle EXCEPT !.pc = "deleteSecrets", !.op = "remove", !.dev = d])
    BY <1>3 DEF RemoveDevice
  <2> QED BY <2>1, BegunAbout, StartTypes
<1> QED BY <1>1, <1>2, <1>3

LEMMA RefreshTypes ==
  ASSUME Typing, RefreshDevice
  PROVE  Typing'
<1>1. PICK e \in stored, t \in Task : Run(t, RefreshOf(e), {})
  BY DEF RefreshDevice
<1>2. e \in Entry
  BY DEF Typing, ListOpen
<1>3. Calls'
  BY <1>1, <1>2, RefreshFits, CallsRun DEF Typing
<1>4. Storage' /\ Others' /\ ListOpen'
  BY DEF RefreshDevice, storage, memory, Typing, Storage, Others, ListOpen
<1>5. Flags'
  BY Zenon DEF RefreshDevice, storage, memory, Typing, Flags
<1> QED BY <1>3, <1>4, <1>5 DEF Typing

(* What a call about a device leaves alone.                                *)
LEMMA KeptTypes ==
  ASSUME Typing, UNCHANGED <<Kept, bundle>>, stored' \subseteq Entry,
         secretStore' \in [Device -> Password \cup {None}], needsPassword' \subseteq Device,
         guesses' \in [Device -> Nat], disturbed' \in BOOLEAN
  PROVE  Storage' /\ ListOpen' /\ Flags' /\ Others'
<1>1. Storage' /\ ListOpen' /\ Others'
  BY DEF Kept, Typing, Storage, ListOpen, Others
<1>2. Flags'
  BY Zenon DEF Kept, Typing, Flags
<1> QED BY <1>1, <1>2

(* A call that fails, or is refused, is over.                              *)
LEMMA DoneTypes ==
  ASSUME Typing, NEW t \in Task, Done(t)
  PROVE  Calls'
BY IdleFits, CallsRun DEF Done, Typing

LEMMA RefusedTypes ==
  ASSUME Typing, NEW t \in Task, Refused(t), task[t].dev \in Device
  PROVE  /\ Calls' /\ needsPassword' \subseteq Device /\ guesses' \in [Device -> Nat]
         /\ disturbed' \in BOOLEAN
<1>1. Calls' /\ disturbed' \in BOOLEAN
  BY DoneTypes, Disturbing DEF Refused
<1>2. needsPassword' \subseteq Device /\ guesses' \in [Device -> Nat]
  BY DEF Refused, Typing, Others
<1> QED BY <1>1, <1>2


LEMMA LogInTypes ==
  ASSUME Typing, NEW t \in Task, LogIn(t)
  PROVE  Typing'
<1>1. task[t].dev \in Device
  BY DEF LogIn, Typing, Calls, Fits
<1>2. /\ Calls' /\ needsPassword' \subseteq Device /\ guesses' \in [Device -> Nat]
      /\ disturbed' \in BOOLEAN
  <2>1. CASE UNCHANGED <<needsPassword, guesses, disturbed>>
    <3>1. Calls'
      <4>1. CASE Wait(t, "putSecrets")
        <5>1. Onward(task[t], "putSecrets") /\ "putSecrets" \in PC
          BY Names DEF LogIn, Onward
        <5>2. Run(t, [task[t] EXCEPT !.pc = "putSecrets"], {})
          BY <4>1 DEF Wait
        <5> QED BY <5>1, <5>2, OnwardTypes
      <4>2. CASE Done(t)
        BY <4>2, DoneTypes
      <4> QED BY <4>1, <4>2 DEF LogIn, Refused
    <3>2. needsPassword' \subseteq Device /\ guesses' \in [Device -> Nat]
      BY <2>1 DEF Typing, Others
    <3>3. disturbed' \in BOOLEAN
      BY <2>1, Zenon DEF Typing, Flags
    <3> QED BY <3>1, <3>2, <3>3
  <2>2. CASE Refused(t)
    BY <1>1, <2>2, RefusedTypes
  <2> QED BY <2>1, <2>2 DEF LogIn
<1>3. /\ UNCHANGED <<Kept, bundle>> /\ stored' \subseteq Entry
      /\ secretStore' \in [Device -> Password \cup {None}]
  BY DEF LogIn, Typing, Storage, ListOpen
<1> QED BY <1>2, <1>3, KeptTypes DEF Typing

LEMMA PutSecretsTypes ==
  ASSUME Typing, NEW t \in Task, PutSecrets(t)
  PROVE  Typing'
<1>1. Fits(task[t]) /\ task[t].pc = "putSecrets"
  BY DEF PutSecrets, Typing, Calls
<1>2. task[t].dev \in Device /\ task[t].pw \in Password
  BY <1>1 DEF Fits
<1>3. Calls'
  <2>1. CASE task[t].op = "refresh"
    <3>1. Onward(task[t], "fetch") /\ "fetch" \in PC
      BY <1>1, <2>1, Names DEF Onward
    <3>2. Run(t, [task[t] EXCEPT !.pc = "fetch"], About(task[t].dev, "refresh"))
      BY <2>1 DEF PutSecrets
    <3> QED BY <3>1, <3>2, OnwardTypes
  <2>2. CASE task[t].op # "refresh"
    BY <1>1, <2>2, NewListTypes, WriteListTypes DEF PutSecrets
  <2> QED BY <2>1, <2>2
<1>4. disturbed' \in BOOLEAN
  BY Disturbing DEF PutSecrets
<1>5. /\ UNCHANGED <<Kept, bundle>> /\ stored' \subseteq Entry
      /\ secretStore' \in [Device -> Password \cup {None}]
      /\ needsPassword' \subseteq Device /\ guesses' \in [Device -> Nat]
  BY <1>2 DEF PutSecrets, Typing, Storage, ListOpen, Others
<1> QED BY <1>3, <1>4, <1>5, KeptTypes DEF Typing

LEMMA DeleteSecretsTypes ==
  ASSUME Typing, NEW t \in Task, DeleteSecrets(t)
  PROVE  Typing'
<1>1. task[t].pc = "deleteSecrets"
  BY DEF DeleteSecrets
<1>2. Calls'
  BY <1>1, NewListTypes, WriteListTypes DEF DeleteSecrets
<1>3. disturbed' \in BOOLEAN
  BY Disturbing DEF DeleteSecrets
<1>4. /\ UNCHANGED <<Kept, bundle>> /\ stored' \subseteq Entry
      /\ secretStore' \in [Device -> Password \cup {None}]
      /\ needsPassword' \subseteq Device /\ guesses' \in [Device -> Nat]
  BY DEF DeleteSecrets, Typing, Storage, ListOpen, Others
<1> QED BY <1>2, <1>3, <1>4, KeptTypes DEF Typing

LEMMA ListSealedTypes ==
  ASSUME Typing, NEW t \in Task, ListSealed(t)
  PROVE  Typing'
<1> DEFINE d == task[t].dev
           list == task[t].list
           needs == IF task[t].op = "add" THEN needsPassword ELSE needsPassword \ {d}
           new == [key |-> task[t].key, list |-> list]
<1>1. d \in Device /\ task[t].user \in User /\ list \in SUBSET Entry /\ new \in Sealed
  <2>1. d \in Device
    BY DEF ListSealed, Typing, Calls, Fits
  <2> QED BY <2>1, SealedTypes DEF ListSealed
<1>2. /\ bundle' = [bundle EXCEPT ![task[t].user] = new]
      /\ stored' = list /\ needsPassword' = needs
      /\ guesses' = IF task[t].op = "add" THEN guesses ELSE [guesses EXCEPT ![d] = 0]
  BY DEF ListSealed
<1>3. Calls'
  <2>1. CASE \E e \in list : Run(t, RefreshOf(e), Holding({d}))
    <3>1. PICK e \in list : Run(t, RefreshOf(e), Holding({d}))
      BY <2>1
    <3>2. e \in Entry
      BY <1>1
    <3> QED BY <3>1, <3>2, RefreshFits, CallsRun DEF Typing
  <2>2. CASE Run(t, Idle, Holding({d}))
    BY <2>2, IdleFits, CallsRun DEF Typing
  <2> QED BY <2>1, <2>2 DEF ListSealed
<1>4. disturbed' \in BOOLEAN
  <2>1. (disturbed \/ task[t].late \/ \E x \in Task : task[x].pc = "unseal") \in BOOLEAN
    OBVIOUS
  <2> QED BY <2>1, Zenon DEF ListSealed
<1>5. needs \subseteq Device
  BY DEF Typing, Others
<1> HIDE DEF d, list, new, needs
<1>6. Storage' /\ ListOpen'
  BY <1>1, <1>2 DEF ListSealed, Kept, Typing, Storage, ListOpen
<1>7. Others'
  <2>1. guesses \in [Device -> Nat] /\ password' = password /\ password \in [Device -> Password]
    BY DEF ListSealed, Kept, Typing, Others
  <2>2. [guesses EXCEPT ![d] = 0] \in [Device -> Nat]
    BY <1>1, <2>1
  <2>3. guesses' \in [Device -> Nat]
    BY <1>2, <2>1, <2>2
  <2> QED BY <1>2, <1>5, <2>1, <2>3 DEF Others
<1>8. Flags'
  BY <1>4, Zenon DEF ListSealed, Kept, Typing, Flags
<1> QED BY <1>3, <1>6, <1>7, <1>8 DEF Typing

LEMMA GetSecretsTypes ==
  ASSUME Typing, NEW t \in Task, GetSecrets(t)
  PROVE  Typing'
<1> DEFINE secrets == secretStore[task[t].dev]
<1>1. /\ task[t] \in TaskState /\ Fits(task[t]) /\ task[t].pc = "getSecrets"
      /\ task[t].dev \in Device
  BY DEF GetSecrets, Typing, Calls, Fits
<1>2. Calls' /\ needsPassword' \subseteq Device /\ disturbed' \in BOOLEAN
  <2>1. CASE /\ secrets # None
             /\ Run(t, [task[t] EXCEPT !.pc = "fetch", !.pw = secrets], {})
             /\ UNCHANGED <<needsPassword, disturbed>>
    <3> DEFINE n == [task[t] EXCEPT !.pc = "fetch", !.pw = secrets]
    <3>1. secrets \in Password
      BY <1>1, <2>1 DEF Typing, Storage
    <3> HIDE DEF secrets
    <3>2. /\ n \in TaskState /\ n.pc = "fetch" /\ n.op = task[t].op /\ n.pw = secrets
          /\ n.dev = task[t].dev
      BY <1>1, <3>1, Names DEF TaskState
    <3>3. Run(t, n, {})
      BY <2>1
    <3> HIDE DEF n
    <3>4. Fits(n)
      BY <1>1, <3>1, <3>2 DEF Fits
    <3>5. Calls'
      BY <3>2, <3>3, <3>4, CallsRun DEF Typing
    <3>6. disturbed' \in BOOLEAN
      BY <2>1, Zenon DEF Typing, Flags
    <3> QED BY <2>1, <3>5, <3>6 DEF Typing, Others
  <2>2. CASE needsPassword' = needsPassword \cup {task[t].dev} /\ Done(t) /\ Disturb(t)
    BY <1>1, <2>2, DoneTypes, Disturbing DEF Typing, Others
  <2>3. CASE /\ task[t].pw # NoPassword /\ Wait(t, "logIn")
             /\ UNCHANGED <<needsPassword, disturbed>>
    <3>1. Onward(task[t], "logIn") /\ "logIn" \in PC
      BY <1>1, <2>3, Names DEF Onward
    <3>2. Run(t, [task[t] EXCEPT !.pc = "logIn"], {})
      BY <2>3 DEF Wait
    <3>3. Calls'
      BY <3>1, <3>2, OnwardTypes
    <3>4. disturbed' \in BOOLEAN
      BY <2>3, Zenon DEF Typing, Flags
    <3> QED BY <2>3, <3>3, <3>4 DEF Typing, Others
  <2> QED BY <2>1, <2>2, <2>3 DEF GetSecrets
<1>3. /\ UNCHANGED <<Kept, bundle>> /\ stored' \subseteq Entry
      /\ secretStore' \in [Device -> Password \cup {None}] /\ guesses' \in [Device -> Nat]
  BY DEF GetSecrets, Typing, Storage, ListOpen, Others
<1> QED BY <1>2, <1>3, KeptTypes DEF Typing

LEMMA FetchTypes ==
  ASSUME Typing, NEW t \in Task, Fetch(t)
  PROVE  Typing'
<1>1. Calls'
  <2>1. CASE task[t].pc = "fetch" /\ Wait(t, "requestToken")
    <3>1. Onward(task[t], "requestToken") /\ "requestToken" \in PC
      BY <2>1, Names DEF Onward
    <3>2. Run(t, [task[t] EXCEPT !.pc = "requestToken"], {})
      BY <2>1 DEF Wait
    <3> QED BY <3>1, <3>2, OnwardTypes
  <2>2. CASE Done(t)
    BY <2>2, DoneTypes
  <2> QED BY <2>1, <2>2 DEF Fetch
<1>2. disturbed' \in BOOLEAN
  BY Zenon DEF Fetch, Typing, Flags
<1>3. /\ UNCHANGED <<Kept, bundle>> /\ stored' \subseteq Entry
      /\ secretStore' \in [Device -> Password \cup {None}]
      /\ needsPassword' \subseteq Device /\ guesses' \in [Device -> Nat]
  BY DEF Fetch, Typing, Storage, ListOpen, Others
<1> QED BY <1>1, <1>2, <1>3, KeptTypes DEF Typing

LEMMA RequestTokenTypes ==
  ASSUME Typing, NEW t \in Task, RequestToken(t)
  PROVE  Typing'
<1>1. task[t].dev \in Device
  BY DEF RequestToken, Typing, Calls, Fits
<1>2. /\ Calls' /\ needsPassword' \subseteq Device /\ guesses' \in [Device -> Nat]
      /\ disturbed' \in BOOLEAN
  <2>1. CASE Wait(t, "putToken") /\ UNCHANGED <<needsPassword, guesses, disturbed>>
    <3>1. Onward(task[t], "putToken") /\ "putToken" \in PC
      BY Names DEF RequestToken, Onward
    <3>2. Run(t, [task[t] EXCEPT !.pc = "putToken"], {})
      BY <2>1 DEF Wait
    <3>3. Calls'
      BY <3>1, <3>2, OnwardTypes
    <3>4. disturbed' \in BOOLEAN
      BY <2>1, Zenon DEF Typing, Flags
    <3> QED BY <2>1, <3>3, <3>4 DEF Typing, Others
  <2>2. CASE Refused(t)
    BY <1>1, <2>2, RefusedTypes
  <2>3. CASE Done(t) /\ UNCHANGED <<needsPassword, guesses, disturbed>>
    <3>1. disturbed' \in BOOLEAN
      BY <2>3, Zenon DEF Typing, Flags
    <3> QED BY <2>3, <3>1, DoneTypes DEF Typing, Others
  <2> QED BY <2>1, <2>2, <2>3 DEF RequestToken
<1>3. /\ UNCHANGED <<Kept, bundle>> /\ stored' \subseteq Entry
      /\ secretStore' \in [Device -> Password \cup {None}]
  BY DEF RequestToken, Typing, Storage, ListOpen
<1> QED BY <1>2, <1>3, KeptTypes DEF Typing

LEMMA PutTokenTypes ==
  ASSUME Typing, NEW t \in Task, PutToken(t)
  PROVE  Typing'
<1>1. task[t].pc = "putToken" /\ task[t].dev \in Device /\ task[t].pw \in Password
  BY DEF PutToken, Typing, Calls, Fits
<1>2. Calls'
  <2>1. Onward(task[t], "fetchAgain") /\ "fetchAgain" \in PC
    BY <1>1, Names DEF Onward
  <2>2. Run(t, [task[t] EXCEPT !.pc = "fetchAgain"], About(task[t].dev, "refresh"))
    BY DEF PutToken
  <2> QED BY <2>1, <2>2, OnwardTypes
<1>3. disturbed' \in BOOLEAN
  BY Disturbing DEF PutToken
<1>4. /\ UNCHANGED <<Kept, bundle>> /\ stored' \subseteq Entry
      /\ secretStore' \in [Device -> Password \cup {None}]
      /\ needsPassword' \subseteq Device /\ guesses' \in [Device -> Nat]
  BY <1>1 DEF PutToken, Typing, Storage, ListOpen, Others
<1> QED BY <1>2, <1>3, <1>4, KeptTypes DEF Typing

LEMMA ChangePasswordTypes ==
  ASSUME Typing, ChangePassword
  PROVE  Typing'
<1>1. Calls' /\ Storage' /\ ListOpen' /\ Others'
  BY DEF ChangePassword, storage, memory, Typing, Calls, Storage, ListOpen, Others
<1>2. Flags'
  BY Zenon DEF ChangePassword, storage, memory, Typing, Flags
<1> QED BY <1>1, <1>2 DEF Typing

(* The types are kept by every step.                                       *)
LEMMA TypingStep == Typing /\ [Next]_vars => Typing'
<1> SUFFICES ASSUME Typing, [Next]_vars  PROVE Typing'
  OBVIOUS
<1>1. CASE UNCHANGED vars
  <2>1. Calls' /\ Storage' /\ ListOpen' /\ Others'
    BY <1>1 DEF vars, storage, memory, Typing, Calls, Storage, ListOpen, Others
  <2>2. Flags'
    BY <1>1, Zenon DEF vars, storage, memory, Typing, Flags
  <2> QED BY <2>1, <2>2 DEF Typing
<1>2. ASSUME NEW t \in Task, Continue(t)  PROVE Typing'
  BY <1>2, ClearWrapTypes, ClearSecretsTypes, RestoreTypes, UnlockTypes, PutWrapTypes, UnsealTypes,
     SealLegacyTypes, UnlockedTypes, LogInTypes, PutSecretsTypes, DeleteSecretsTypes,
     ListSealedTypes, GetSecretsTypes, FetchTypes, RequestTokenTypes, PutTokenTypes DEF Continue
<1> QED BY <1>1, <1>2, LoginTypes, ForgetSessionTypes, LogoutTypes, ForgetTypes, ReloadTypes, StartsType,
           RefreshTypes, ChangePasswordTypes DEF Next

(* What every call of family.ts carries across its awaits, whose key is    *)
(* kept and whose list is open.                                            *)
THEOREM CallsWellFormed == Spec => []Typing
<1>1. Init => Typing
  BY TypingInit
<1>2. Typing /\ [Next]_vars => Typing'
  BY TypingStep
<1> QED BY <1>1, <1>2, PTL DEF Spec

(* Type correctness, for any number of calls, users and devices.           *)
THEOREM TypesCorrect == Spec => []TypeOK
<1>1. Typing => TypeOK
  BY TypingTypes
<1> QED BY <1>1, CallsWellFormed, PTL
-----------------------------------------------------------------------------
(* Automatic log-ins.  Once one is refused the device is marked, and from  *)
(* then on no refresh of it begins: those that were refused are over.      *)
Refreshing(d) == {t \in Task : task[t].op = "refresh" /\ task[t].dev = d}
Counting ==
  \A d \in Device : guesses[d] # 0 =>
    d \in needsPassword /\ guesses[d] <= Cardinality(Task \ Refreshing(d))

(* The calls that are not refreshing a device are counted.                 *)
LEMMA CountedCalls ==
  ASSUME IsFiniteSet(Task)
  PROVE  /\ \A S, T \in SUBSET Task : S \subseteq T =>
              Cardinality(Task \ T) <= Cardinality(Task \ S)
         /\ \A T \in SUBSET Task : \A t \in T : Cardinality(Task \ T) + 1 <= Cardinality(Task \ (T \ {t}))
         /\ \A T \in SUBSET Task : Cardinality(Task \ T) \in Nat /\ Cardinality(Task \ T) <= Cardinality(Task)
<1>1. \A T \in SUBSET Task : IsFiniteSet(Task \ T) /\ Cardinality(Task \ T) \in Nat
                               /\ Cardinality(Task \ T) <= Cardinality(Task)
  <2> SUFFICES ASSUME NEW T \in SUBSET Task
               PROVE  IsFiniteSet(Task \ T) /\ Cardinality(Task \ T) \in Nat
                        /\ Cardinality(Task \ T) <= Cardinality(Task)
    OBVIOUS
  <2>1. Task \ T \in SUBSET Task
    OBVIOUS
  <2>2. IsFiniteSet(Task \ T) /\ Cardinality(Task \ T) <= Cardinality(Task)
    BY <2>1, FS_Subset
  <2> QED BY <2>2, FS_CardinalityType
<1>2. ASSUME NEW S \in SUBSET Task, NEW T \in SUBSET Task, S \subseteq T
      PROVE  Cardinality(Task \ T) <= Cardinality(Task \ S)
  <2>1. Task \ T \in SUBSET (Task \ S)
    BY <1>2
  <2> QED BY <1>1, <2>1, FS_Subset
<1>3. ASSUME NEW T \in SUBSET Task, NEW t \in T
      PROVE  Cardinality(Task \ T) + 1 <= Cardinality(Task \ (T \ {t}))
  <2>1. Task \ (T \ {t}) = (Task \ T) \cup {t} /\ t \notin Task \ T
    OBVIOUS
  <2>2. Cardinality((Task \ T) \cup {t}) = Cardinality(Task \ T) + 1
    BY <1>1, <2>1, FS_AddElement
  <2>3. Cardinality(Task \ (T \ {t})) = Cardinality(Task \ T) + 1
    BY <2>1, <2>2
  <2> QED BY <1>1, <2>3
<1> QED BY <1>1, <1>2, <1>3

(* What a step may do with the count of a device.                          *)
Forgotten(d) == guesses'[d] = 0
Unmoved(d) ==
  /\ guesses'[d] = guesses[d] /\ (d \in needsPassword => d \in needsPassword')
  /\ d \in needsPassword => Refreshing(d)' \subseteq Refreshing(d)
CountedUp(d, t) ==
  /\ t \in Refreshing(d) /\ Refreshing(d)' \subseteq Refreshing(d) \ {t}
  /\ guesses'[d] = guesses[d] + 1 /\ d \in needsPassword'

LEMMA CountingFrom ==
  ASSUME IsFiniteSet(Task), Typing, Counting,
         \A d \in Device : Forgotten(d) \/ Unmoved(d) \/ \E t \in Task : CountedUp(d, t)
  PROVE  Counting'
<1> SUFFICES ASSUME NEW d \in Device, guesses'[d] # 0
             PROVE  d \in needsPassword' /\ guesses'[d] <= Cardinality(Task \ Refreshing(d)')
  BY DEF Counting
<1> DEFINE R == Refreshing(d)
           N == Refreshing(d)'
<1>1. R \in SUBSET Task /\ N \in SUBSET Task /\ guesses[d] \in Nat
  BY DEF Refreshing, Typing, Others
<1>2. guesses[d] # 0 => d \in needsPassword /\ guesses[d] <= Cardinality(Task \ R)
  BY DEF Counting
<1>3. CASE Unmoved(d)
  <2>1. guesses'[d] = guesses[d] /\ d \in needsPassword' /\ N \subseteq R
    BY <1>2, <1>3 DEF Unmoved
  <2> HIDE DEF R, N
  <2>2. Cardinality(Task \ R) <= Cardinality(Task \ N)
    BY <1>1, <2>1, CountedCalls
  <2>3. Cardinality(Task \ R) \in Nat /\ Cardinality(Task \ N) \in Nat
    BY <1>1, CountedCalls
  <2>4. guesses'[d] <= Cardinality(Task \ N)
    BY <1>1, <1>2, <2>1, <2>2, <2>3
  <2> QED BY <2>1, <2>4 DEF N
<1>4. ASSUME NEW t \in Task, CountedUp(d, t)
      PROVE  d \in needsPassword' /\ guesses'[d] <= Cardinality(Task \ N)
  <2>1. t \in R /\ N \subseteq R \ {t} /\ guesses'[d] = guesses[d] + 1 /\ d \in needsPassword'
    BY <1>4 DEF CountedUp
  <2> HIDE DEF R, N
  <2>2. Cardinality(Task \ R) + 1 <= Cardinality(Task \ (R \ {t}))
    BY <1>1, <2>1, CountedCalls
  <2>3. Cardinality(Task \ (R \ {t})) <= Cardinality(Task \ N)
    BY <1>1, <2>1, CountedCalls
  <2>4. /\ Cardinality(Task \ R) \in Nat /\ Cardinality(Task \ N) \in Nat
        /\ Cardinality(Task \ (R \ {t})) \in Nat
    BY <1>1, CountedCalls
  <2>5. guesses'[d] <= Cardinality(Task \ N)
    BY <1>1, <1>2, <2>1, <2>2, <2>3, <2>4
  <2> QED BY <2>1, <2>5
<1> QED BY <1>3, <1>4 DEF Forgotten

(* The step of a call begins no refresh, when the call becomes none.       *)
Onwards(t) ==
  \E n, over : Run(t, n, over) /\ (n.op = "refresh" => n.op = task[t].op /\ n.dev = task[t].dev)
LEMMA NoneBegins ==
  ASSUME Typing, NEW t \in Task, Onwards(t), NEW d \in Device
  PROVE  Refreshing(d)' \subseteq Refreshing(d)
<1>1. PICK n, over : Run(t, n, over) /\ (n.op = "refresh" => n.op = task[t].op /\ n.dev = task[t].dev)
  BY DEF Onwards
<1>2. task'[t] = n /\ \A x \in Task \ {t} : Same(task[x], task'[x])
  BY <1>1, Running DEF Typing, Calls
<1> QED BY <1>1, <1>2 DEF Refreshing, Same

(* A call that ends is refreshing nothing.                                 *)
LEMMA NoneLeft ==
  ASSUME Typing, NEW t \in Task, Done(t), NEW d \in Device
  PROVE  Refreshing(d)' \subseteq Refreshing(d) \ {t}
<1>1. task'[t] = Idle /\ \A x \in Task \ {t} : Same(task[x], task'[x])
  BY Running DEF Done, Typing, Calls
<1>2. task'[t].op = "none"
  BY <1>1 DEF Idle
<1> QED BY <1>1, <1>2 DEF Refreshing, Same

(* The steps of a call that begin no refresh.                              *)
LEMMA Ends == \A t \in Task : Done(t) => Onwards(t)
<1> SUFFICES ASSUME NEW t \in Task, Done(t)  PROVE Onwards(t)
  OBVIOUS
<1>1. Run(t, Idle, {}) /\ Idle.op = "none"
  BY DEF Done, Idle
<1> QED BY <1>1 DEF Onwards
LEMMA Waits == Typing => \A t \in Task, p \in PC : Wait(t, p) => Onwards(t)
<1> SUFFICES ASSUME Typing, NEW t \in Task, NEW p \in PC, Wait(t, p)  PROVE Onwards(t)
  OBVIOUS
<1>1. PICK n : n = [task[t] EXCEPT !.pc = p]
  OBVIOUS
<1>2. n.op = task[t].op /\ n.dev = task[t].dev
  BY <1>1, Moved DEF Typing, Calls
<1> QED BY <1>1, <1>2 DEF Onwards, Wait


(* Each step of a call counts one refusal at most, or begins no refresh of *)
(* a device that is marked.                                                *)
Counted == \A d \in Device : Forgotten(d) \/ Unmoved(d) \/ \E t \in Task : CountedUp(d, t)
LEMMA CountedLater ==
  ASSUME Typing, NEW t \in Task, Onwards(t), UNCHANGED guesses, needsPassword \subseteq needsPassword'
  PROVE  Counted
BY NoneBegins DEF Counted, Unmoved
LEMMA CountedLock ==
  ASSUME LockFamily
  PROVE  Counted
BY DEF LockFamily, Counted, Forgotten
LEMMA CountedRefusal ==
  ASSUME Typing, NEW t \in Task, Refused(t), task[t].dev \in Device, task[t].op = "refresh"
  PROVE  Counted
<1> SUFFICES ASSUME NEW d \in Device  PROVE Unmoved(d) \/ CountedUp(d, t)
  BY DEF Counted
<1>1. Refreshing(d)' \subseteq Refreshing(d) \ {t}
  BY NoneLeft DEF Refused
<1>2. /\ needsPassword' = needsPassword \cup {task[t].dev}
      /\ guesses' = [guesses EXCEPT ![task[t].dev] = @ + 1] /\ guesses \in [Device -> Nat]
  BY DEF Refused, Typing, Others
<1>3. CASE d = task[t].dev
  <2>1. t \in Refreshing(d)
    BY <1>3 DEF Refreshing
  <2>2. guesses'[d] = guesses[d] + 1 /\ d \in needsPassword'
    BY <1>2, <1>3
  <2> QED BY <1>1, <2>1, <2>2 DEF CountedUp
<1>4. CASE d # task[t].dev
  BY <1>1, <1>2, <1>4 DEF Unmoved
<1> QED BY <1>3, <1>4

(* openList and writeList begin no refresh of their own.                   *)
LEMMA OpensOnwards ==
  ASSUME Typing, NEW t \in Task, NEW c, Opens(c), c.op = task[t].op, c.dev = task[t].dev,
         (\E list : Opened(t, c, list)) \/ Show(t, c) \/ OpenList(t, c)
  PROVE  Onwards(t)
<1>1. ASSUME Show(t, c)  PROVE Onwards(t)
  <2>1. PICK n : n = IF c.op = "unlock" THEN [Idle EXCEPT !.pc = "unlocked", !.op = "unlock"] ELSE Idle
    OBVIOUS
  <2>2. n.op # "refresh"
    BY <2>1 DEF Idle
  <2>3. Run(t, n, Holding({}))
    BY <1>1, <2>1 DEF Show
  <2> QED BY <2>2, <2>3 DEF Onwards
<1>2. ASSUME NEW pc, NEW list, NEW over, Run(t, [c EXCEPT !.pc = pc, !.list = list], over)
      PROVE  Onwards(t)
  <2>1. PICK n : n = [c EXCEPT !.pc = pc, !.list = list]
    OBVIOUS
  <2>2. n.op = c.op /\ n.dev = c.dev
    BY <2>1 DEF Opens, TaskState
  <2> QED BY <1>2, <2>1, <2>2 DEF Onwards
<1>3. ASSUME NEW list, Opened(t, c, list)  PROVE Onwards(t)
  BY <1>1, <1>2, <1>3 DEF Opened
<1>4. ASSUME OpenList(t, c)  PROVE Onwards(t)
  BY <1>2, <1>3, <1>4 DEF OpenList
<1> QED BY <1>1, <1>3, <1>4

LEMMA WritesOnwards ==
  ASSUME Typing, NEW t \in Task, NEW list, WriteList(t, list)
  PROVE  Onwards(t)
<1>1. CASE owner = None \/ wrapKey = None
  BY <1>1 DEF WriteList, Onwards, Idle
<1>2. CASE ~(owner = None \/ wrapKey = None)
  <2>1. PICK n : n = [task[t] EXCEPT !.pc = "writeList", !.user = owner, !.key = wrapKey, !.list = list]
    OBVIOUS
  <2>2. task[t] \in TaskState
    BY DEF Typing, Calls
  <2>3. n.op = task[t].op /\ n.dev = task[t].dev
    BY <2>1, <2>2 DEF TaskState
  <2> QED BY <1>2, <2>1, <2>3 DEF WriteList, Onwards
<1> QED BY <1>1, <1>2

(* The same of each step of a call that is under way.                      *)
LEMMA OpeningCounted ==
  ASSUME Typing, NEW t \in Task,
         \/ RestoreFamily(t) \/ UnlockFamily(t) \/ PutWrap(t) \/ Unseal(t) \/ SealLegacy(t)
         \/ Unlocked(t) \/ ClearWrap(t)
  PROVE  Counted
<1>1. UNCHANGED <<guesses, needsPassword>>
  BY DEF RestoreFamily, UnlockFamily, PutWrap, Unseal, SealLegacy, Unlocked, ClearWrap, memory
<1> SUFFICES Onwards(t)
  BY <1>1, CountedLater
<1> DEFINE c == task[t]
<1>2. c \in TaskState
  BY DEF Typing, Calls
<1>3. CASE RestoreFamily(t)
  <2>1. ASSUME NEW key, key = wrapStore[c.user], key # None, OpenList(t, [c EXCEPT !.key = key])
        PROVE  Onwards(t)
    <3>1. PICK n : n = [c EXCEPT !.key = key]
      OBVIOUS
    <3>2. Opens(n)
      BY <1>3, <2>1, <3>1, HasKey DEF RestoreFamily
    <3>3. OpenList(t, n)
      BY <2>1, <3>1
    <3> HIDE DEF c
    <3>4. n.op = c.op /\ n.dev = c.dev
      BY <1>2, <3>1 DEF TaskState
    <3> QED BY <3>2, <3>3, <3>4, OpensOnwards DEF c
  <2> QED BY <1>3, <2>1, Ends DEF RestoreFamily
<1>4. CASE UnlockFamily(t)
  <2>1. CASE OpenList(t, c)
    BY <1>4, <2>1, HasKey, OpensOnwards DEF UnlockFamily
  <2>2. CASE Wait(t, "putWrap")
    BY <2>2, Waits, Names
  <2> QED BY <1>4, <2>1, <2>2 DEF UnlockFamily
<1>5. CASE PutWrap(t)
  <2>1. PICK n : n = [c EXCEPT !.remember = FALSE]
    OBVIOUS
  <2>2. Opens(n) /\ OpenList(t, n)
    BY <1>5, <2>1, HasKey DEF PutWrap
  <2> HIDE DEF c
  <2>3. n.op = c.op /\ n.dev = c.dev
    BY <1>2, <2>1 DEF TaskState
  <2> QED BY <2>2, <2>3, OpensOnwards DEF c
<1>6. CASE Unseal(t)
  BY <1>6, HasKey, OpensOnwards DEF Unseal
<1>7. CASE SealLegacy(t)
  <2>1. Opens(c)
    BY <1>2, <1>7 DEF SealLegacy, Typing, Calls, Fits, Opens
  <2> QED BY <1>7, <2>1, OpensOnwards DEF SealLegacy
<1>8. CASE Unlocked(t)
  BY <1>8, Ends DEF Unlocked
<1>9. CASE ClearWrap(t)
  BY <1>9, Waits, Names DEF ClearWrap
<1> QED BY <1>3, <1>4, <1>5, <1>6, <1>7, <1>8, <1>9

LEMMA WorkingCounted ==
  ASSUME Typing, NEW t \in Task,
         \/ LogIn(t) \/ PutSecrets(t) \/ DeleteSecrets(t) \/ GetSecrets(t) \/ Fetch(t)
         \/ RequestToken(t) \/ PutToken(t)
  PROVE  Counted
<1> DEFINE c == task[t]
<1>1. c \in TaskState /\ Fits(c)
  BY DEF Typing, Calls
<1>2. ASSUME NEW p \in PC, NEW over, Run(t, [c EXCEPT !.pc = p], over)  PROVE Onwards(t)
  <2>1. PICK n : n = [c EXCEPT !.pc = p]
    OBVIOUS
  <2>2. n.op = c.op /\ n.dev = c.dev
    BY <1>1, <2>1, Moved
  <2> QED BY <1>2, <2>1, <2>2 DEF Onwards
<1>3. CASE LogIn(t)
  <2>1. CASE Refused(t) /\ c.op = "refresh"
    BY <1>1, <1>3, <2>1, CountedRefusal DEF LogIn, Fits
  <2>2. CASE (Wait(t, "putSecrets") \/ Done(t)) /\ UNCHANGED <<needsPassword, guesses>>
    BY <2>2, Waits, Ends, Names, CountedLater
  <2> QED BY <1>3, <2>1, <2>2 DEF LogIn
<1>4. CASE PutSecrets(t)
  <2>1. Onwards(t)
    BY <1>2, <1>4, Names, WritesOnwards DEF PutSecrets
  <2> QED BY <1>4, <2>1, CountedLater DEF PutSecrets
<1>5. CASE DeleteSecrets(t)
  BY <1>5, WritesOnwards, CountedLater DEF DeleteSecrets
<1>6. CASE GetSecrets(t)
  <2>1. ASSUME NEW s, Run(t, [c EXCEPT !.pc = "fetch", !.pw = s], {})  PROVE Onwards(t)
    <3>1. PICK n : n = [c EXCEPT !.pc = "fetch", !.pw = s]
      OBVIOUS
    <3>2. n.op = c.op /\ n.dev = c.dev
      BY <1>1, <3>1 DEF TaskState
    <3> QED BY <2>1, <3>1, <3>2 DEF Onwards
  <2>2. Onwards(t) /\ UNCHANGED guesses /\ needsPassword \subseteq needsPassword'
    BY <1>6, <2>1, Waits, Ends, Names DEF GetSecrets
  <2> QED BY <2>2, CountedLater
<1>7. CASE Fetch(t)
  BY <1>7, Waits, Ends, Names, CountedLater DEF Fetch
<1>8. CASE RequestToken(t)
  <2>1. CASE Refused(t)
    BY <1>1, <1>8, <2>1, CountedRefusal DEF RequestToken, Fits
  <2>2. CASE (Wait(t, "putToken") \/ Done(t)) /\ UNCHANGED <<needsPassword, guesses>>
    BY <2>2, Waits, Ends, Names, CountedLater
  <2> QED BY <1>8, <2>1, <2>2 DEF RequestToken
<1>9. CASE PutToken(t)
  <2>1. Onwards(t)
    BY <1>2, <1>9, Names DEF PutToken
  <2> QED BY <1>9, <2>1, CountedLater DEF PutToken
<1> QED BY <1>3, <1>4, <1>5, <1>6, <1>7, <1>8, <1>9

(* A refresh begins for a device that is not marked.                       *)
LEMMA RefreshCounted ==
  ASSUME Typing, NEW t \in Task, NEW e, NEW over, Run(t, RefreshOf(e), over),
         e.dev \notin needsPassword', NEW d \in Device
  PROVE  d \in needsPassword' => Refreshing(d)' \subseteq Refreshing(d)
<1>1. task'[t] = RefreshOf(e) /\ \A x \in Task \ {t} : Same(task[x], task'[x])
  BY Running DEF Typing, Calls
<1>2. task'[t].dev = e.dev
  BY <1>1 DEF RefreshOf, Idle
<1> QED BY <1>1, <1>2 DEF Refreshing, Same

LEMMA ListSealedCounted ==
  ASSUME Typing, Counting, NEW t \in Task, ListSealed(t)
  PROVE  Counted
<1> DEFINE c == task[t]
           needs == IF c.op = "add" THEN needsPassword ELSE needsPassword \ {c.dev}
<1>1. /\ needsPassword' = needs
      /\ guesses' = IF c.op = "add" THEN guesses ELSE [guesses EXCEPT ![c.dev] = 0]
  BY DEF ListSealed
<1> SUFFICES ASSUME NEW d \in Device  PROVE Forgotten(d) \/ Unmoved(d)
  BY DEF Counted
<1>2. d \in needsPassword' => Refreshing(d)' \subseteq Refreshing(d)
  <2>1. CASE \E e \in c.list : Refreshable(e.dev, needs) /\ Run(t, RefreshOf(e), Holding({c.dev}))
    BY <1>1, <2>1, RefreshCounted DEF Refreshable
  <2>2. CASE Run(t, Idle, Holding({c.dev}))
    <3>1. Onwards(t)
      BY <2>2 DEF Onwards, Idle
    <3> QED BY <3>1, NoneBegins
  <2> QED BY <2>1, <2>2 DEF ListSealed
<1>3. CASE c.op # "add" /\ d = c.dev
  BY <1>1, <1>3 DEF Forgotten, Typing, Others
<1>4. CASE ~(c.op # "add" /\ d = c.dev)
  <2>1. guesses'[d] = guesses[d] /\ (d \in needsPassword => d \in needsPassword')
    BY <1>1, <1>4 DEF Typing, Others
  <2> QED BY <1>2, <2>1 DEF Unmoved
<1> QED BY <1>3, <1>4


LEMMA OthersCounted ==
  ASSUME Typing, Counting,
         \/ \E u \in User : Login(u)
         \/ ForgetSession \/ Logout \/ ForgetAllDevices \/ Reload
         \/ \E t \in Task : ClearSecrets(t)
         \/ AddDevice \/ ReenterPassword \/ RemoveDevice \/ RefreshDevice \/ ChangePassword
  PROVE  Counted
<1>1. ASSUME NEW u \in User, Login(u)  PROVE Counted
  <2>1. PICK t1 \in Task, t2 \in Task, k \in OwnPassword, remember \in BOOLEAN :
          /\ Free(t1) /\ Free(t2) /\ (t1 = t2 => wrapStore[u] = None)
          /\ remembered' = IF remember THEN u ELSE remembered
          /\ task' = [task EXCEPT
               ![t1] = Restoring(u),
               ![t2] = [Idle EXCEPT !.pc = "derive", !.op = "unlock", !.user = u,
                          !.key = [user |-> u, password |-> k], !.remember = remember]]
    BY <1>1, Zenon DEF Login
  <2>2. PICK n : n = [Idle EXCEPT !.pc = "derive", !.op = "unlock", !.user = u,
                        !.key = [user |-> u, password |-> k], !.remember = remember]
    OBVIOUS
  <2>3. n.op # "refresh" /\ Restoring(u).op # "refresh"
    BY <2>2 DEF Restoring, Idle
  <2>4. task' = [task EXCEPT ![t1] = Restoring(u), ![t2] = n]
    BY <2>1, <2>2
  <2>5. \A d \in Device : Refreshing(d)' \subseteq Refreshing(d)
    BY <2>3, <2>4 DEF Refreshing, Typing, Calls
  <2> QED BY <1>1, <2>5 DEF Login, Counted, Unmoved
<1>2. ASSUME Logout \/ ForgetAllDevices  PROVE Counted
  BY <1>2, CountedLock DEF Logout, ForgetAllDevices
<1>3. ASSUME Reload  PROVE Counted
  BY <1>3 DEF Reload, Counted, Forgotten
<1>4. ASSUME NEW t \in Task, ClearSecrets(t)  PROVE Counted
  <2>1. CASE (\E over : Run(t, Idle, over)) /\ UNCHANGED <<guesses, needsPassword>>
    <3>1. Onwards(t)
      BY <2>1 DEF Onwards, Idle
    <3> QED BY <2>1, <3>1, CountedLater
  <2>2. CASE LockFamily
    BY <2>2, CountedLock
  <2> QED BY <1>4, <2>1, <2>2 DEF ClearSecrets, memory
<1>5. ASSUME NEW n, Start(n), n.op # "refresh"  PROVE Counted
  <2>1. PICK t \in Task : Run(t, n, {})
    BY <1>5 DEF Start
  <2>2. Onwards(t)
    BY <1>5, <2>1 DEF Onwards
  <2> QED BY <1>5, <2>2, CountedLater DEF Start, memory
<1>6. ASSUME AddDevice \/ ReenterPassword \/ RemoveDevice  PROVE Counted
  <2>1. \A d, p : [Idle EXCEPT !.pc = "logIn", !.op = "add", !.user = user, !.dev = d, !.pw = p].op # "refresh"
    BY DEF Idle
  <2>2. \A d, p : [Idle EXCEPT !.pc = "logIn", !.op = "reenter", !.dev = d, !.pw = p].op # "refresh"
    BY DEF Idle
  <2>3. \A d : [Idle EXCEPT !.pc = "deleteSecrets", !.op = "remove", !.dev = d].op # "refresh"
    BY DEF Idle
  <2> QED BY <1>5, <1>6, <2>1, <2>2, <2>3 DEF AddDevice, ReenterPassword, RemoveDevice
<1>7. ASSUME RefreshDevice  PROVE Counted
  <2>1. PICK e \in stored, t \in Task : e.dev \notin needsPassword /\ Run(t, RefreshOf(e), {})
    BY <1>7 DEF RefreshDevice, Refreshable
  <2>2. UNCHANGED <<guesses, needsPassword>>
    BY <1>7 DEF RefreshDevice, memory
  <2> QED BY <2>1, <2>2, RefreshCounted DEF Counted, Unmoved
<1>8. ASSUME ForgetSession \/ ChangePassword  PROVE Counted
  BY <1>8 DEF ForgetSession, ChangePassword, memory, Counted, Unmoved, Refreshing
<1> QED BY <1>1, <1>2, <1>3, <1>4, <1>6, <1>7, <1>8

LEMMA CountingStep ==
  ASSUME IsFiniteSet(Task), Typing, Counting, [Next]_vars
  PROVE  Counting'
<1>1. CASE UNCHANGED vars
  BY <1>1 DEF vars, memory, Counting, Refreshing
<1>2. CASE Next
  <2>1. Counted
    BY <1>2, OpeningCounted, WorkingCounted, ListSealedCounted, OthersCounted DEF Next, Continue
  <2> QED BY <2>1, CountingFrom DEF Counted
<1> QED BY <1>1, <1>2

(* Between two entries of a password, or two openings of the list, the     *)
(* server refuses no more automatic log-ins to a device than calls may be  *)
(* in flight together.                                                     *)
THEOREM GuessesBounded ==
  ASSUME IsFiniteSet(Task)
  PROVE  Spec => []AutomaticGuessesBounded
<1>1. Init => Counting
  BY DEF Init, Counting
<1>2. Typing /\ Counting /\ [Next]_vars => Counting'
  BY CountingStep
<1>3. Typing /\ Counting => AutomaticGuessesBounded
  <2> SUFFICES ASSUME Typing, Counting, NEW d \in Device  PROVE guesses[d] <= Cardinality(Task)
    BY DEF AutomaticGuessesBounded
  <2>1. guesses[d] \in Nat /\ Cardinality(Task) \in Nat
    BY FS_CardinalityType DEF Typing, Others
  <2>2. Refreshing(d) \in SUBSET Task
    BY DEF Refreshing
  <2>3. /\ Cardinality(Task \ Refreshing(d)) \in Nat
        /\ Cardinality(Task \ Refreshing(d)) <= Cardinality(Task)
    BY <2>2, CountedCalls
  <2> QED BY <2>1, <2>3 DEF Counting
<1> QED BY <1>1, <1>2, <1>3, CallsWellFormed, PTL DEF Spec
-----------------------------------------------------------------------------
(* Calls that do not cross.  What a call in flight relies on, as long as   *)
(* nothing it started from has changed: u is who is logged in, o whose     *)
(* list is open with the key k, s what is shown and b what is sealed.      *)
Content(b, u, key) == IF b[u] # None /\ b[u].key = key THEN b[u].list ELSE {}
ForUser(c) ==
  \/ c.pc \in {"restore", "derive", "putWrap"}
  \/ c.pc \in {"logIn", "putSecrets"} /\ c.op = "add"
HoldsList(c) == c.pc \in {"unseal", "sealLegacy", "writeList"}
Follows(c, u, o, k, s, b) ==
  c.pc # "idle" /\ ~c.late =>
    /\ c.op \notin {"lock", "forget"} => u # None
    /\ ForUser(c) => c.user = u
    /\ HoldsList(c) => c.user = o /\ c.key = k /\ \A e \in c.list : e.by = o
    /\ c.pc = "unseal" => c.list = Content(b, o, k)
    /\ c.pc = "sealLegacy" => c.list = s
Following == \A t \in Task : Follows(task[t], user, owner, wrapKey, stored, bundle)

(* The list that is open is the one of whoever is logged in, and each list *)
(* holds what its owner has entered.                                       *)
Own ==
  /\ owner \in {None, user}
  /\ owner = None => stored = {} /\ locked
  /\ \A e \in stored : e.by = owner
  /\ \A u \in User : bundle[u] # None => \A e \in bundle[u].list : e.by = u

(* What is shown is what the key opens.                                    *)
Showing == ~locked /\ (\A t \in Task : task[t].pc # "sealLegacy") => stored = Content(bundle, owner, wrapKey)

(* After a logout, what is left is being cleared.                          *)
Clearing ==
  user = None =>
    /\ (\E u \in User : wrapStore[u] # None) =>
         \/ \E t \in Task : task[t].pc = "clearWrap"
         \/ abandoned /\ \A t \in Task : task[t].pc # "clearSecrets"
    /\ (\E d \in Device : secretStore[d] # None) =>
         abandoned \/ \E t \in Task : task[t].pc \in {"clearWrap", "clearSecrets"}

Smooth == Own /\ Following /\ Showing /\ Clearing
Crossless == ~disturbed => Smooth

(* What the calls rely on after a step of one of them.                     *)
LEMMA FollowingRun ==
  ASSUME Typing, NEW t \in Task, NEW n, NEW over, Run(t, n, over),
         NEW u, NEW o, NEW k, NEW s, NEW b, Follows(n, u, o, k, s, b),
         \A x \in Task \ {t} : x \notin over => Follows(task[x], u, o, k, s, b)
  PROVE  \A x \in Task : Follows(task'[x], u, o, k, s, b)
<1>1. /\ task'[t] = n
      /\ \A x \in Task \ {t} :
           /\ x \in over => task'[x].late = TRUE
           /\ x \notin over => task'[x] = task[x]
  BY Running DEF Typing, Calls
<1>2. ASSUME NEW x \in Task \ {t}, x \in over  PROVE Follows(task'[x], u, o, k, s, b)
  BY <1>1, <1>2 DEF Follows
<1> QED BY <1>1, <1>2

LEMMA FollowingNext ==
  ASSUME Typing, NEW t \in Task, NEW n, NEW over, Run(t, n, over),
         Follows(n, user', owner', wrapKey', stored', bundle'),
         \A x \in Task \ {t} : x \notin over =>
           Follows(task[x], user', owner', wrapKey', stored', bundle')
  PROVE  Following'
<1>1. \A x \in Task : Follows(task'[x], user', owner', wrapKey', stored', bundle')
  BY FollowingRun
<1> QED BY <1>1 DEF Following

(* A call that has ended, and one that clears, rely on nothing.            *)
LEMMA IdleFollows ==
  /\ \A u, o, k, s, b : Follows(Idle, u, o, k, s, b)
  /\ \A u, o, k, s, b : u # None =>
       Follows([Idle EXCEPT !.pc = "unlocked", !.op = "unlock"], u, o, k, s, b)
  /\ \A op \in {"lock", "forget"} : \A u, o, k, s, b :
       Follows([Idle EXCEPT !.pc = "clearWrap", !.op = op], u, o, k, s, b)
<1>1. \A u, o, k, s, b : Follows(Idle, u, o, k, s, b)
  BY DEF Idle, Follows
<1>2. ASSUME NEW u, NEW o, NEW k, NEW s, NEW b, u # None, NEW n,
             n = [Idle EXCEPT !.pc = "unlocked", !.op = "unlock"]
      PROVE  Follows(n, u, o, k, s, b)
  <2>1. n.pc = "unlocked" /\ n.op = "unlock"
    BY <1>2 DEF Idle
  <2> QED BY <1>2, <2>1 DEF Follows, ForUser, HoldsList
<1>3. ASSUME NEW op \in {"lock", "forget"}, NEW u, NEW o, NEW k, NEW s, NEW b, NEW n,
             n = [Idle EXCEPT !.pc = "clearWrap", !.op = op]
      PROVE  Follows(n, u, o, k, s, b)
  <2>1. n.pc = "clearWrap" /\ n.op = op
    BY <1>3 DEF Idle
  <2> QED BY <2>1 DEF Follows, ForUser, HoldsList
<1> QED BY <1>1, <1>2, <1>3

(* A call that is in time belongs to whoever is logged in.                 *)
LEMMA InTime ==
  ASSUME Typing, Smooth, NEW t \in Task, ~task[t].late, task[t].pc # "idle",
         task[t].pc \notin {"clearWrap", "clearSecrets"}
  PROVE  /\ user # None
         /\ ForUser(task[t]) => task[t].user = user
         /\ HoldsList(task[t]) =>
              /\ owner = user /\ owner \in User /\ wrapKey \in Key /\ wrapKey # None
              /\ task[t].user = owner /\ task[t].key = wrapKey /\ \A e \in task[t].list : e.by = owner
<1>1. Follows(task[t], user, owner, wrapKey, stored, bundle) /\ Fits(task[t])
  BY DEF Smooth, Following, Typing, Calls
<1>2. task[t].op \notin {"lock", "forget"}
  BY <1>1 DEF Fits
<1>3. user # None /\ (ForUser(task[t]) => task[t].user = user)
  BY <1>1, <1>2 DEF Follows
<1>4. ASSUME HoldsList(task[t])
      PROVE  /\ owner = user /\ owner \in User /\ wrapKey \in Key /\ wrapKey # None
             /\ task[t].user = owner /\ task[t].key = wrapKey /\ \A e \in task[t].list : e.by = owner
  <2>1. task[t].user = owner /\ task[t].key = wrapKey /\ \A e \in task[t].list : e.by = owner
    BY <1>1, <1>4 DEF Follows
  <2>2. task[t].user \in User /\ task[t].key \in Key
    BY <1>1, <1>4 DEF Fits, HoldsList
  <2> QED BY <2>1, <2>2, DeviceListAssumption DEF Smooth, Own
<1> QED BY <1>3, <1>4

(* A step that leaves the list, its key and whose it is as they were.      *)
LEMMA CalmStep ==
  ASSUME Typing, Smooth, NEW t \in Task, NEW n, NEW over, Run(t, n, over),
         UNCHANGED <<bundle, user, owner, wrapKey, stored, locked, wrapStore, abandoned>>,
         Follows(n, user, owner, wrapKey, stored, bundle), n.pc # "clearSecrets",
         task[t].pc \notin {"sealLegacy", "clearWrap", "clearSecrets"},
         secretStore' = secretStore \/ user # None
  PROVE  Smooth'
<1>1. task'[t] = n /\ \A x \in Task \ {t} : Same(task[x], task'[x])
  BY Running DEF Typing, Calls
<1>2. Own'
  BY DEF Smooth, Own
<1>3. Following'
  <2>1. \A x \in Task : Follows(task'[x], user, owner, wrapKey, stored, bundle)
    BY FollowingRun DEF Smooth, Following
  <2> QED BY <2>1 DEF Following
<1>4. Showing'
  <2>1. (\A x \in Task : task'[x].pc # "sealLegacy") => \A x \in Task : task[x].pc # "sealLegacy"
    BY <1>1 DEF Same
  <2> QED BY <2>1 DEF Smooth, Showing
<1>5. Clearing'
  <2>1. \A pc \in {"clearWrap", "clearSecrets"}, x \in Task : task[x].pc = pc => task'[x].pc = pc
    BY <1>1 DEF Same
  <2>2. \A x \in Task : task'[x].pc = "clearSecrets" => task[x].pc = "clearSecrets"
    BY <1>1 DEF Same
  <2> QED BY <2>1, <2>2 DEF Smooth, Clearing
<1> QED BY <1>2, <1>3, <1>4, <1>5 DEF Smooth


(* Logging in and out.                                                     *)
LEMMA LockSmooth ==
  ASSUME Typing, Smooth, LockFamily, NEW t \in Task, NEW op \in {"lock", "forget"},
         Run(t, [Idle EXCEPT !.pc = "clearWrap", !.op = op], InFlight),
         \A u \in User : bundle'[u] \in {None, bundle[u]}
  PROVE  Smooth'
<1>1. task'[t].pc = "clearWrap"
  <2>1. PICK n : n = [Idle EXCEPT !.pc = "clearWrap", !.op = op]
    OBVIOUS
  <2>2. n.pc = "clearWrap"
    BY <2>1 DEF Idle
  <2>3. Run(t, n, InFlight)
    BY <2>1
  <2>4. task'[t] = n
    BY <2>3, Running DEF Typing, Calls
  <2> QED BY <2>2, <2>4
<1>2. Own'
  BY DEF LockFamily, Smooth, Own
<1>3. Following'
  <2>1. \A x \in Task \ {t} :
          x \notin InFlight => Follows(task[x], user', owner', wrapKey', stored', bundle')
    BY DEF InFlight, Free, Follows
  <2>2. Follows([Idle EXCEPT !.pc = "clearWrap", !.op = op], user', owner', wrapKey', stored', bundle')
    BY IdleFollows
  <2>3. \A x \in Task : Follows(task'[x], user', owner', wrapKey', stored', bundle')
    BY <2>1, <2>2, FollowingRun
  <2> QED BY <2>3 DEF Following
<1>4. Showing'
  BY DEF LockFamily, Showing
<1>5. Clearing'
  BY <1>1 DEF Clearing
<1> QED BY <1>2, <1>3, <1>4, <1>5 DEF Smooth

LEMMA LoginSmooth ==
  ASSUME Typing, Smooth, NEW u \in User, Login(u)
  PROVE  Smooth'
<1>1. PICK t1 \in Task, t2 \in Task, k \in OwnPassword, remember \in BOOLEAN :
        /\ Free(t1) /\ Free(t2) /\ (t1 = t2 => wrapStore[u] = None)
        /\ remembered' = IF remember THEN u ELSE remembered
        /\ task' = [task EXCEPT
             ![t1] = Restoring(u),
             ![t2] = [Idle EXCEPT !.pc = "derive", !.op = "unlock", !.user = u,
                        !.key = [user |-> u, password |-> k], !.remember = remember]]
  BY Zenon DEF Login
<1>2. /\ user = None /\ user' = u /\ u # None
      /\ UNCHANGED <<bundle, owner, wrapKey, stored, locked>>
  BY DeviceListAssumption DEF Login
<1>3. Own' /\ Showing' /\ Clearing'
  BY <1>2 DEF Smooth, Own, Showing, Clearing
<1>4. Following'
  <2>1. PICK n : n = [Idle EXCEPT !.pc = "derive", !.op = "unlock", !.user = u,
                        !.key = [user |-> u, password |-> k], !.remember = remember]
    OBVIOUS
  <2>2. n.pc = "derive" /\ n.op = "unlock" /\ n.user = u
    BY <2>1 DEF Idle
  <2>3. Follows(n, u, owner, wrapKey, stored, bundle)
    BY <1>2, <2>2 DEF Follows, ForUser, HoldsList
  <2>4. Follows(Restoring(u), u, owner, wrapKey, stored, bundle)
    <3>1. PICK r : r = [Idle EXCEPT !.pc = "restore", !.op = "restore", !.user = u]
      OBVIOUS
    <3>2. r.pc = "restore" /\ r.op = "restore" /\ r.user = u
      BY <3>1 DEF Idle
    <3>3. Follows(r, u, owner, wrapKey, stored, bundle)
      BY <1>2, <3>2 DEF Follows, ForUser, HoldsList
    <3> QED BY <3>1, <3>3, IdleFollows DEF Restoring
  <2>5. ASSUME NEW x \in Task  PROVE Follows(task[x], u, owner, wrapKey, stored, bundle)
    <3>1. Follows(task[x], user, owner, wrapKey, stored, bundle) /\ Fits(task[x])
      BY DEF Smooth, Following, Typing, Calls
    <3>2. CASE task[x].pc = "idle" \/ task[x].late
      BY <3>2 DEF Follows
    <3>3. CASE task[x].op \in {"lock", "forget"}
      <4>1. task[x].pc \in {"clearWrap", "clearSecrets"}
        BY <3>1, <3>3 DEF Fits
      <4> QED BY <1>2, <4>1 DEF Follows, ForUser, HoldsList
    <3> QED BY <1>2, <3>1, <3>2, <3>3 DEF Follows
  <2>6. task' = [task EXCEPT ![t1] = Restoring(u), ![t2] = n]
    BY <1>1, <2>1
  <2>7. \A x \in Task : task'[x] \in {task[x], Restoring(u), n}
    BY <2>6 DEF Typing, Calls
  <2>8. \A x \in Task : Follows(task'[x], u, owner, wrapKey, stored, bundle)
    BY <2>3, <2>4, <2>5, <2>7
  <2> QED BY <1>2, <2>8 DEF Following
<1> QED BY <1>3, <1>4 DEF Smooth

LEMMA LogoutSmooth ==
  ASSUME Typing, Smooth, Logout \/ ForgetAllDevices
  PROVE  Smooth'
<1>1. LockFamily
  BY DEF Logout, ForgetAllDevices
<1>2. PICK t \in Task, op \in {"lock", "forget"} :
        Run(t, [Idle EXCEPT !.pc = "clearWrap", !.op = op], InFlight)
  BY DEF Logout, ForgetAllDevices
<1>3. \A u \in User : bundle'[u] \in {None, bundle[u]}
  BY DEF Logout, ForgetAllDevices, Typing, Storage
<1> QED BY <1>1, <1>2, <1>3, LockSmooth

LEMMA ClearWrapSmooth ==
  ASSUME Typing, Smooth, NEW t \in Task, ClearWrap(t)
  PROVE  Smooth'
<1>1. PICK n : n = [task[t] EXCEPT !.pc = "clearSecrets"]
  OBVIOUS
<1>2. task[t] \in TaskState /\ Fits(task[t]) /\ task[t].pc = "clearWrap"
  BY DEF ClearWrap, Typing, Calls
<1>3. n.pc = "clearSecrets" /\ n.op = task[t].op /\ n.op \in {"lock", "forget"}
  BY <1>1, <1>2, Names, Moved DEF Fits
<1>4. Run(t, n, {})
  BY <1>1 DEF ClearWrap, Wait
<1>5. task'[t] = n /\ \A x \in Task \ {t} : Same(task[x], task'[x])
  BY <1>4, Running DEF Typing, Calls
<1>6. UNCHANGED <<bundle, user, owner, wrapKey, stored, locked>>
  BY DEF ClearWrap, memory
<1>7. Own'
  BY <1>6 DEF Smooth, Own
<1>8. Following'
  <2>1. Follows(n, user, owner, wrapKey, stored, bundle)
    BY <1>3 DEF Follows, ForUser, HoldsList
  <2>2. \A x \in Task : Follows(task'[x], user, owner, wrapKey, stored, bundle)
    BY <1>4, <2>1, FollowingRun DEF Smooth, Following
  <2> QED BY <1>6, <2>2 DEF Following
<1>9. Showing'
  <2>1. (\A x \in Task : task'[x].pc # "sealLegacy") => \A x \in Task : task[x].pc # "sealLegacy"
    BY <1>2, <1>5 DEF Same
  <2> QED BY <1>6, <2>1 DEF Smooth, Showing
<1>10. Clearing'
  <2>1. \A u \in User : wrapStore'[u] = None
    BY DEF ClearWrap
  <2>2. task'[t].pc = "clearSecrets"
    BY <1>3, <1>5
  <2> QED BY <2>1, <2>2 DEF Clearing
<1> QED BY <1>7, <1>8, <1>9, <1>10 DEF Smooth

LEMMA ClearSecretsSmooth ==
  ASSUME Typing, Smooth, NEW t \in Task, ClearSecrets(t)
  PROVE  Smooth'
<1>1. CASE LockFamily /\ Run(t, [Idle EXCEPT !.pc = "clearWrap", !.op = "lock"], InFlight)
  BY <1>1, LockSmooth DEF ClearSecrets
<1>2. CASE \E over : Run(t, Idle, over)
                       /\ user' = user /\ UNCHANGED <<owner, wrapKey, stored, locked>>
  <2>1. PICK over : Run(t, Idle, over)
    BY <1>2
  <2>2. task'[t] = Idle /\ \A x \in Task \ {t} : Same(task[x], task'[x])
    BY <2>1, Running DEF Typing, Calls
  <2>3. UNCHANGED <<bundle, user, owner, wrapKey, stored, locked, wrapStore>>
    BY <1>2 DEF ClearSecrets
  <2>4. Own'
    BY <2>3 DEF Smooth, Own
  <2>5. Following'
    <3>1. \A x \in Task : Follows(task'[x], user, owner, wrapKey, stored, bundle)
      BY <2>1, FollowingRun, IdleFollows DEF Smooth, Following
    <3> QED BY <2>3, <3>1 DEF Following
  <2>6. Showing'
    <3>1. (\A x \in Task : task'[x].pc # "sealLegacy") => \A x \in Task : task[x].pc # "sealLegacy"
      BY <2>2 DEF Same, ClearSecrets
    <3> QED BY <2>3, <3>1 DEF Smooth, Showing
  <2>7. Clearing'
    <3>1. \A d \in Device : secretStore'[d] = None
      BY DEF ClearSecrets
    <3>2. task[t].pc = "clearSecrets"
      BY DEF ClearSecrets
    <3>3. \A x \in Task : task[x].pc = "clearWrap" => task'[x].pc = "clearWrap"
      BY <2>2, <3>2 DEF Same
    <3> QED BY <2>3, <3>1, <3>2, <3>3 DEF Smooth, Clearing
  <2> QED BY <2>4, <2>5, <2>6, <2>7 DEF Smooth
<1>3. \/ LockFamily /\ Run(t, [Idle EXCEPT !.pc = "clearWrap", !.op = "lock"], InFlight)
      \/ \E over : Run(t, Idle, over)
                     /\ user' = user /\ UNCHANGED <<owner, wrapKey, stored, locked>>
  BY DEF ClearSecrets, memory
<1> QED BY <1>1, <1>2, <1>3

LEMMA ReloadSmooth ==
  ASSUME Typing, Smooth, Reload, ~disturbed'
  PROVE  Smooth'
<1>1. PICK t \in Task : task' = [x \in Task |->
        IF x = t /\ remembered # None
        THEN [Idle EXCEPT !.pc = "restore", !.op = "restore", !.user = remembered] ELSE Idle]
  BY DEF Reload
<1>2. PICK n : n = [Idle EXCEPT !.pc = "restore", !.op = "restore", !.user = remembered]
  OBVIOUS
<1>3. n.pc = "restore" /\ n.op = "restore" /\ n.user = remembered
  BY <1>2 DEF Idle
<1>4. \A x \in Task : task'[x] = Idle \/ (remembered # None /\ task'[x] = n)
  BY <1>1, <1>2
<1>5. Own' /\ Showing'
  BY DEF Reload, storage, Smooth, Own, Showing
<1>6. Following'
  <2>1. remembered # None => Follows(n, user', owner', wrapKey', stored', bundle')
    BY <1>3 DEF Reload, Follows, ForUser, HoldsList
  <2> QED BY <1>4, <2>1, IdleFollows DEF Following
<1>7. Clearing'
  <2>1. \A x \in Task : task'[x].pc \notin {"clearWrap", "clearSecrets"}
    BY <1>3, <1>4 DEF Idle
  <2>2. \A x \in Task : task[x].pc \notin {"clearWrap", "clearSecrets"}
    BY DEF Reload, Typing, Calls, Fits
  <2>3. UNCHANGED <<wrapStore, secretStore>> /\ user' = remembered
    BY DEF Reload, storage
  <2>4. CASE user = None
    <3>1. abandoned => abandoned'
      BY DEF Reload
    <3> QED BY <2>1, <2>2, <2>3, <2>4, <3>1 DEF Smooth, Clearing
  <2>5. CASE user # None
    <3>1. user' = None => abandoned'
      BY <2>5 DEF Reload
    <3> QED BY <2>1, <3>1 DEF Clearing
  <2> QED BY <2>4, <2>5
<1> QED BY <1>5, <1>6, <1>7 DEF Smooth
-----------------------------------------------------------------------------
(* Opening the list.  What is opened is what is sealed, and then shown.    *)
LEMMA OpenedSmooth ==
  ASSUME Typing, Smooth, NEW t \in Task, NEW c, Opens(c), ~c.late, c.user = user,
         owner' = c.user, wrapKey' = c.key, UNCHANGED <<bundle, user>>,
         NEW list, list = Content(bundle, c.user, c.key), Opened(t, c, list)
  PROVE  Smooth'
<1> DEFINE joining == {d \in legacy : \A e \in list : e.dev # d}
           all == list \cup {[dev |-> d, password |-> NoPassword, by |-> c.user] : d \in joining}
<1>1. user \in User /\ user # None
  BY DeviceListAssumption DEF Opens
<1>2. \A e \in list : e.by = user
  BY <1>1 DEF Opens, Content, Smooth, Own
<1>3. stored' = all /\ \A e \in all : e.by = user
  BY <1>2 DEF Opened
<1>4. Own'
  <2>1. \A u \in User : bundle'[u] # None => \A e \in bundle'[u].list : e.by = u
    BY DEF Smooth, Own
  <2> HIDE DEF all
  <2> QED BY <1>1, <1>3, <2>1 DEF Own
<1>5. Clearing'
  BY <1>1 DEF Clearing
<1>6. \A x \in Task \ {t} : x \notin Holding({}) =>
        Follows(task[x], user', owner', wrapKey', stored', bundle')
  <2> SUFFICES ASSUME NEW x \in Task \ {t}, x \notin Holding({})
               PROVE  Follows(task[x], user, owner', wrapKey', stored', bundle)
    OBVIOUS
  <2>1. Follows(task[x], user, owner, wrapKey, stored, bundle)
    BY DEF Smooth, Following
  <2>2. task[x].pc # "idle" => ~HoldsList(task[x])
    BY DEF Holding, InFlight, Free, HoldsList
  <2> HIDE DEF all
  <2> QED BY <2>1, <2>2 DEF Follows, HoldsList
<1>7. CASE joining = {} /\ Show(t, c)
  <2>1. all = list
    BY <1>7
  <2>2. PICK n : n = IF c.op = "unlock" THEN [Idle EXCEPT !.pc = "unlocked", !.op = "unlock"] ELSE Idle
    OBVIOUS
  <2>3. Run(t, n, Holding({}))
    BY <1>7, <2>2 DEF Show
  <2>4. Follows(n, user', owner', wrapKey', stored', bundle')
    BY <1>1, <2>2, IdleFollows
  <2>5. \A x \in Task : Follows(task'[x], user', owner', wrapKey', stored', bundle')
    BY <1>6, <2>3, <2>4, FollowingRun
  <2>6. Showing'
    BY <1>3, <2>1 DEF Showing, Content
  <2> QED BY <1>4, <1>5, <2>5, <2>6 DEF Smooth, Following
<1>8. CASE Run(t, [c EXCEPT !.pc = "sealLegacy", !.list = all], Holding({}))
  <2> HIDE DEF all
  <2>1. PICK n : n = [c EXCEPT !.pc = "sealLegacy", !.list = all]
    OBVIOUS
  <2>2. n.pc = "sealLegacy" /\ n.op = c.op /\ n.user = c.user /\ n.key = c.key /\ n.list = all
    BY <2>1 DEF Opens, TaskState
  <2>3. Run(t, n, Holding({}))
    BY <1>8, <2>1
  <2>4. Follows(n, user', owner', wrapKey', stored', bundle')
    BY <1>1, <1>3, <2>2 DEF Follows, ForUser, HoldsList
  <2>5. \A x \in Task : Follows(task'[x], user', owner', wrapKey', stored', bundle')
    BY <1>6, <2>3, <2>4, FollowingRun
  <2>6. task'[t].pc = "sealLegacy"
    BY <2>2, <2>3, Running DEF Typing, Calls
  <2>7. Showing'
    BY <2>6 DEF Showing
  <2> QED BY <1>4, <1>5, <2>5, <2>7 DEF Smooth, Following
<1> QED BY <1>7, <1>8 DEF Opened

LEMMA OpenListSmooth ==
  ASSUME Typing, Smooth, NEW t \in Task, NEW c, Opens(c), OpenList(t, c),
         task[t].pc \in {"restore", "derive", "putWrap"},
         c.user = task[t].user, c.late = task[t].late,
         UNCHANGED <<bundle, user>>, ~disturbed'
  PROVE  Smooth'
<1>1. ~c.late /\ wrapKey \in {None, c.key}
  BY DEF OpenList
<1>2. user # None /\ c.user = user
  BY <1>1, InTime DEF ForUser
<1>3. c.user \in User /\ c.key \in Key /\ c.op \notin {"lock", "forget"}
  BY DEF Opens
<1>4. owner' = c.user /\ wrapKey' = c.key
  BY DEF OpenList
<1>5. owner # None => owner = c.user /\ wrapKey = c.key
  BY <1>1, <1>2, DeviceListAssumption DEF Smooth, Own, Typing, ListOpen
<1> DEFINE list == Content(bundle, c.user, c.key)
<1>6. CASE bundle[c.user] = None /\ Opened(t, c, {})
  <2>1. {} = list
    BY <1>6 DEF Content
  <2> QED BY <1>1, <1>2, <1>4, <1>6, <2>1, OpenedSmooth
<1>7. CASE /\ Run(t, [c EXCEPT !.pc = "unseal", !.list = list], {})
           /\ UNCHANGED <<legacy, stored, locked, needsLogin>>
  <2>1. \A e \in list : e.by = c.user
    BY <1>3 DEF Content, Smooth, Own
  <2> HIDE DEF list
  <2>2. PICK n : n = [c EXCEPT !.pc = "unseal", !.list = list]
    OBVIOUS
  <2>3. n.pc = "unseal" /\ n.op = c.op /\ n.user = c.user /\ n.key = c.key /\ n.list = list
    BY <2>2 DEF Opens, TaskState
  <2>4. Run(t, n, {})
    BY <1>7, <2>2
  <2>5. Follows(n, user', owner', wrapKey', stored', bundle')
    BY <1>2, <1>3, <1>4, <2>1, <2>3 DEF Follows, ForUser, HoldsList, list
  <2>6. ASSUME NEW x \in Task \ {t}
        PROVE  Follows(task[x], user', owner', wrapKey', stored', bundle')
    <3>1. Follows(task[x], user, owner, wrapKey, stored, bundle) /\ Fits(task[x])
      BY DEF Smooth, Following, Typing, Calls
    <3>2. CASE HoldsList(task[x]) /\ task[x].pc # "idle" /\ ~task[x].late
      <4>1. task[x].user \in User /\ task[x].user = owner
        BY <3>1, <3>2 DEF Fits, Follows, HoldsList
      <4>2. owner' = owner /\ wrapKey' = wrapKey
        BY <1>4, <1>5, <4>1, DeviceListAssumption
      <4> QED BY <1>7, <3>1, <4>2
    <3>3. CASE ~(HoldsList(task[x]) /\ task[x].pc # "idle" /\ ~task[x].late)
      BY <3>1, <3>3 DEF Follows, HoldsList
    <3> QED BY <3>2, <3>3
  <2>7. \A x \in Task : Follows(task'[x], user', owner', wrapKey', stored', bundle')
    BY <2>4, <2>5, <2>6, FollowingRun
  <2>8. task'[t] = n /\ \A x \in Task \ {t} : Same(task[x], task'[x])
    BY <2>4, Running DEF Typing, Calls
  <2>9. Own'
    BY <1>2, <1>3, <1>4, <1>5, <1>7, DeviceListAssumption DEF Smooth, Own
  <2>10. Showing'
    <3>1. (\A x \in Task : task'[x].pc # "sealLegacy") => \A x \in Task : task[x].pc # "sealLegacy"
      BY <2>8 DEF Same
    <3>2. ~locked => owner # None
      BY DEF Smooth, Own
    <3> QED BY <1>4, <1>5, <1>7, <3>1, <3>2 DEF Smooth, Showing
  <2>11. Clearing'
    BY <1>2 DEF Clearing
  <2> QED BY <2>7, <2>9, <2>10, <2>11 DEF Smooth, Following
<1> QED BY <1>6, <1>7 DEF OpenList, Content

LEMMA OpeningSmooth ==
  ASSUME Typing, Smooth, NEW t \in Task, ~disturbed',
         RestoreFamily(t) \/ UnlockFamily(t) \/ PutWrap(t)
  PROVE  Smooth'
<1> DEFINE c == task[t]
<1>1. c \in TaskState /\ Fits(c) /\ c.pc \in {"restore", "derive", "putWrap"}
  BY DEF RestoreFamily, UnlockFamily, PutWrap, Typing, Calls
<1>2. UNCHANGED <<bundle, user, secretStore, abandoned>>
  BY DEF RestoreFamily, UnlockFamily, PutWrap
<1>3. ASSUME NEW n, Opens(n), OpenList(t, n), n.user = c.user, n.late = c.late  PROVE Smooth'
  BY <1>1, <1>2, <1>3, OpenListSmooth
<1>4. CASE RestoreFamily(t)
  <2>1. ASSUME NEW key, key = wrapStore[c.user], key # None, OpenList(t, [c EXCEPT !.key = key])
        PROVE  Smooth'
    <3>1. PICK n : n = [c EXCEPT !.key = key]
      OBVIOUS
    <3>2. Opens(n) /\ OpenList(t, n)
      BY <1>4, <2>1, <3>1, HasKey DEF RestoreFamily
    <3> HIDE DEF c
    <3>3. n.user = c.user /\ n.late = c.late
      BY <1>1, <3>1 DEF TaskState
    <3> QED BY <1>3, <3>2, <3>3
  <2>2. CASE Done(t) /\ UNCHANGED <<owner, wrapKey, stored, locked>>
    <3>1. Run(t, Idle, {}) /\ UNCHANGED wrapStore /\ Idle.pc # "clearSecrets"
      BY <1>4, <2>2 DEF Done, RestoreFamily, Idle
    <3> QED BY <1>1, <1>2, <2>2, <3>1, IdleFollows, CalmStep
  <2> QED BY <1>4, <2>1, <2>2 DEF RestoreFamily
<1>5. CASE UnlockFamily(t)
  <2>1. CASE OpenList(t, c)
    BY <1>3, <1>5, <2>1, HasKey DEF UnlockFamily
  <2>2. CASE Wait(t, "putWrap") /\ UNCHANGED <<owner, wrapKey, stored, locked>>
    <3>1. PICK n : n = [c EXCEPT !.pc = "putWrap"]
      OBVIOUS
    <3>2. Run(t, n, {}) /\ UNCHANGED wrapStore /\ c.pc = "derive"
      BY <1>5, <2>2, <3>1 DEF Wait, UnlockFamily
    <3>3. n.pc = "putWrap" /\ n.op = c.op /\ n.user = c.user /\ n.late = c.late
      BY <1>1, <3>1, Names, Moved
    <3>4. Follows(c, user, owner, wrapKey, stored, bundle)
      BY DEF Smooth, Following
    <3>5. Follows(n, user, owner, wrapKey, stored, bundle)
      BY <3>2, <3>3, <3>4 DEF Follows, ForUser, HoldsList
    <3> QED BY <1>2, <2>2, <3>2, <3>3, <3>5, CalmStep
  <2> QED BY <1>5, <2>1, <2>2 DEF UnlockFamily
<1>6. CASE PutWrap(t)
  <2>1. PICK n : n = [c EXCEPT !.remember = FALSE]
    OBVIOUS
  <2>2. Opens(n) /\ OpenList(t, n)
    BY <1>6, <2>1, HasKey DEF PutWrap
  <2> HIDE DEF c
  <2>3. n.user = c.user /\ n.late = c.late
    BY <1>1, <2>1 DEF TaskState
  <2> QED BY <1>3, <2>2, <2>3
<1> QED BY <1>4, <1>5, <1>6


LEMMA UnsealSmooth ==
  ASSUME Typing, Smooth, NEW t \in Task, Unseal(t), ~disturbed'
  PROVE  Smooth'
<1> DEFINE c == task[t]
<1>1. c.pc = "unseal" /\ ~c.late /\ Opens(c)
  BY HasKey DEF Unseal, Disturb
<1>2. owner = user /\ c.user = owner /\ c.key = wrapKey
  BY <1>1, InTime DEF HoldsList
<1>3. c.list = Content(bundle, c.user, c.key)
  <2>1. Follows(c, user, owner, wrapKey, stored, bundle)
    BY DEF Smooth, Following
  <2> QED BY <1>1, <1>2, <2>1 DEF Follows
<1>4. UNCHANGED <<owner, wrapKey, bundle, user>> /\ Opened(t, c, c.list)
  BY DEF Unseal
<1> HIDE DEF c
<1> QED BY <1>1, <1>2, <1>3, <1>4, OpenedSmooth

(* The list is sealed again, with the key it is open with.                 *)
LEMMA ResealSmooth ==
  ASSUME Typing, Smooth, NEW t \in Task, ~task[t].late, task[t].pc \in {"sealLegacy", "writeList"},
         NEW n, NEW over, Run(t, n, over), Holding({}) \subseteq over,
         n.op \notin {"lock", "forget"}, ~ForUser(n), ~HoldsList(n),
         stored' = task[t].list, UNCHANGED <<user, owner, wrapKey>>,
         bundle' = [bundle EXCEPT ![task[t].user] = [key |-> task[t].key, list |-> task[t].list]]
  PROVE  Smooth'
<1> DEFINE c == task[t]
           new == [key |-> c.key, list |-> c.list]
<1>1. /\ user # None /\ owner = user /\ owner \in User /\ c.user = owner /\ c.key = wrapKey
      /\ \A e \in c.list : e.by = owner
  BY InTime DEF HoldsList
<1>2. new \in Sealed /\ new # None /\ new.key = c.key /\ new.list = c.list
  BY SealedTypes, DeviceListAssumption
<1>3. bundle \in [User -> Sealed \cup {None}]
  BY DEF Typing, Storage
<1>4. bundle' = [bundle EXCEPT ![owner] = new] /\ stored' = c.list
  BY <1>1
<1> HIDE DEF c, new
<1>5. Own'
  <2>1. ASSUME NEW u \in User, bundle'[u] # None, NEW e \in bundle'[u].list  PROVE e.by = u
    BY <1>1, <1>2, <1>3, <1>4, <2>1 DEF Smooth, Own
  <2> QED BY <1>1, <1>4, <2>1, DeviceListAssumption DEF Own
<1>6. Following'
  <2>1. Follows(n, user', owner', wrapKey', stored', bundle')
    BY <1>1 DEF Follows, HoldsList
  <2>2. ASSUME NEW x \in Task \ {t}, x \notin over
        PROVE  Follows(task[x], user', owner', wrapKey', stored', bundle')
    <3>1. Follows(task[x], user, owner, wrapKey, stored, bundle)
      BY DEF Smooth, Following
    <3>2. task[x].pc # "idle" => ~HoldsList(task[x])
      BY <2>2 DEF Holding, InFlight, Free, HoldsList
    <3> QED BY <3>1, <3>2 DEF Follows, HoldsList
  <2> QED BY <2>1, <2>2, FollowingNext
<1>7. Showing'
  BY <1>1, <1>2, <1>3, <1>4 DEF Showing, Content
<1>8. Clearing'
  BY <1>1 DEF Clearing
<1> QED BY <1>5, <1>6, <1>7, <1>8 DEF Smooth

LEMMA SealLegacySmooth ==
  ASSUME Typing, Smooth, NEW t \in Task, SealLegacy(t), ~disturbed'
  PROVE  Smooth'
<1>1. task[t].pc = "sealLegacy" /\ ~task[t].late
  BY DEF SealLegacy, Disturb
<1>2. stored = task[t].list
  BY <1>1 DEF Smooth, Following, Follows
<1>3. PICK n : n = IF task[t].op = "unlock" THEN [Idle EXCEPT !.pc = "unlocked", !.op = "unlock"] ELSE Idle
  OBVIOUS
<1>4. n.op \notin {"lock", "forget"} /\ ~ForUser(n) /\ ~HoldsList(n)
  BY <1>3 DEF Idle, ForUser, HoldsList
<1>5. Run(t, n, Holding({}))
  BY <1>3 DEF SealLegacy, Show
<1> QED BY <1>1, <1>2, <1>4, <1>5, ResealSmooth DEF SealLegacy

(* The calls about devices.                                                *)
LEMMA RefreshOfFollows ==
  ASSUME NEW e, user # None
  PROVE  /\ Follows(RefreshOf(e), user, owner, wrapKey, stored, bundle)
         /\ RefreshOf(e).op \notin {"lock", "forget"} /\ RefreshOf(e).pc = "getSecrets"
         /\ ~ForUser(RefreshOf(e)) /\ ~HoldsList(RefreshOf(e))
<1>1. RefreshOf(e).pc = "getSecrets" /\ RefreshOf(e).op = "refresh"
  BY DEF RefreshOf, Idle
<1> QED BY <1>1 DEF Follows, ForUser, HoldsList

LEMMA ListSealedSmooth ==
  ASSUME Typing, Smooth, NEW t \in Task, ListSealed(t), ~disturbed'
  PROVE  Smooth'
<1> DEFINE d == task[t].dev
<1>1. task[t].pc = "writeList" /\ ~task[t].late
  BY DEF ListSealed
<1>2. user # None
  BY <1>1, InTime
<1>3. PICK n : Run(t, n, Holding({d})) /\ (n = Idle \/ \E e \in task[t].list : n = RefreshOf(e))
  BY DEF ListSealed
<1>4. n.op \notin {"lock", "forget"} /\ ~ForUser(n) /\ ~HoldsList(n)
  <2>1. Idle.op = "none" /\ Idle.pc = "idle"
    BY DEF Idle
  <2>2. CASE n = Idle
    BY <2>1, <2>2 DEF ForUser, HoldsList
  <2> QED BY <1>2, <1>3, <2>2, RefreshOfFollows
<1>5. Holding({}) \subseteq Holding({d})
  BY DEF Holding
<1>6. stored' = task[t].list /\ UNCHANGED <<user, owner, wrapKey>>
  BY DEF ListSealed, Kept
<1>7. bundle' = [bundle EXCEPT ![task[t].user] = [key |-> task[t].key, list |-> task[t].list]]
  BY DEF ListSealed
<1> HIDE DEF d
<1> QED BY <1>1, <1>3, <1>4, <1>5, <1>6, <1>7, ResealSmooth

(* A call that goes on to its next await relies on what it relied on.      *)
LEMMA OnwardFollows ==
  ASSUME Typing, Smooth, NEW t \in Task, NEW p \in PC, Onward(task[t], p), NEW n,
         n = [task[t] EXCEPT !.pc = p]
  PROVE  Follows(n, user, owner, wrapKey, stored, bundle) /\ n.pc # "clearSecrets"
<1>1. /\ task[t] \in TaskState /\ Fits(task[t])
      /\ Follows(task[t], user, owner, wrapKey, stored, bundle)
  BY DEF Typing, Calls, Smooth, Following
<1>2. n.pc = p /\ n.op = task[t].op /\ n.user = task[t].user /\ n.late = task[t].late
  BY <1>1, Moved
<1>3. n.pc \notin {"clearSecrets", "restore", "derive", "putWrap", "unseal", "sealLegacy", "writeList"}
  BY <1>2 DEF Onward
<1>4. task[t].pc # "idle"
  BY DEF Onward
<1>5. ForUser(n) => ForUser(task[t])
  BY <1>1, <1>2, <1>3 DEF Onward, ForUser, Fits
<1> QED BY <1>1, <1>2, <1>3, <1>4, <1>5 DEF Follows, HoldsList

(* Steps that leave the list alone.                                        *)
LEMMA WorkSmooth ==
  ASSUME Typing, Smooth, NEW t \in Task, NEW over,
         UNCHANGED <<bundle, user, owner, wrapKey, stored, locked, wrapStore, abandoned>>,
         secretStore' = secretStore \/ user # None,
         task[t].pc \notin {"sealLegacy", "clearWrap", "clearSecrets"},
         \/ Run(t, Idle, over)
         \/ \E p \in PC : Onward(task[t], p) /\ Run(t, [task[t] EXCEPT !.pc = p], over)
  PROVE  Smooth'
<1>1. CASE Run(t, Idle, over)
  <2>1. Idle.pc # "clearSecrets"
    BY DEF Idle
  <2> QED BY <1>1, <2>1, IdleFollows, CalmStep
<1>2. ASSUME NEW p \in PC, Onward(task[t], p), Run(t, [task[t] EXCEPT !.pc = p], over)
      PROVE  Smooth'
  <2>1. PICK n : n = [task[t] EXCEPT !.pc = p]
    OBVIOUS
  <2>2. Run(t, n, over)
    BY <1>2, <2>1
  <2>3. Follows(n, user, owner, wrapKey, stored, bundle) /\ n.pc # "clearSecrets"
    BY <1>2, <2>1, OnwardFollows
  <2> QED BY <2>2, <2>3, CalmStep
<1> QED BY <1>1, <1>2

(* What becomes of the list was entered by its owner.                      *)
LEMMA NewListOwn ==
  ASSUME Typing, Smooth, NEW t \in Task, ~task[t].late, owner # None,
         \/ task[t].pc = "putSecrets" /\ task[t].op # "refresh"
         \/ task[t].pc = "deleteSecrets"
  PROVE  \A e \in NewList(t) : e.by = owner
<1>1. stored \subseteq Entry /\ (\A e \in stored : e.by = owner) /\ owner = user
  BY DEF Smooth, Own, Typing, ListOpen
<1>2. Fits(task[t])
  BY DEF Typing, Calls
<1>3. CASE task[t].pc = "putSecrets" /\ task[t].op = "add"
  <2>1. task[t].user = user
    BY <1>3, InTime DEF ForUser
  <2>2. NewList(t) = stored \cup {[dev |-> task[t].dev, password |-> task[t].pw, by |-> task[t].user]}
    BY <1>3 DEF NewList
  <2> QED BY <1>1, <2>1, <2>2
<1>4. CASE task[t].pc = "putSecrets" /\ task[t].op = "reenter"
  <2> DEFINE new(e) == IF e.dev = task[t].dev THEN [e EXCEPT !.password = task[t].pw] ELSE e
  <2>1. ASSUME NEW e \in Entry  PROVE new(e).by = e.by
    BY DEF Entry
  <2>2. NewList(t) = {new(e) : e \in stored}
    BY <1>4 DEF NewList
  <2> HIDE DEF new
  <2> QED BY <1>1, <2>1, <2>2
<1>5. CASE task[t].pc = "deleteSecrets"
  <2>1. NewList(t) = {e \in stored : e.dev # task[t].dev}
    BY <1>2, <1>5 DEF NewList, Fits
  <2> QED BY <1>1, <2>1
<1> QED BY <1>2, <1>3, <1>4, <1>5 DEF Fits

LEMMA WriteListSmooth ==
  ASSUME Typing, Smooth, NEW t \in Task, ~task[t].late,
         \/ task[t].pc = "putSecrets" /\ task[t].op # "refresh"
         \/ task[t].pc = "deleteSecrets",
         WriteList(t, NewList(t)),
         UNCHANGED <<bundle, user, owner, wrapKey, stored, locked, wrapStore, abandoned>>
  PROVE  Smooth'
<1> DEFINE c == task[t]
           list == NewList(t)
<1>1. user # None /\ c \in TaskState
  BY InTime DEF Typing, Calls
<1>2. CASE owner = None \/ wrapKey = None
  <2>1. Run(t, Idle, About(c.dev, c.op))
    BY <1>2 DEF WriteList
  <2> QED BY <1>1, <2>1, WorkSmooth
<1>3. CASE ~(owner = None \/ wrapKey = None)
  <2>1. \A e \in list : e.by = owner
    BY <1>3, NewListOwn
  <2>2. Run(t, [c EXCEPT !.pc = "writeList", !.user = owner, !.key = wrapKey, !.list = list], About(c.dev, c.op))
    BY <1>3 DEF WriteList
  <2> HIDE DEF list
  <2>3. PICK n : n = [c EXCEPT !.pc = "writeList", !.user = owner, !.key = wrapKey, !.list = list]
    OBVIOUS
  <2>4. Run(t, n, About(c.dev, c.op))
    BY <2>2, <2>3
  <2> HIDE DEF c
  <2>5. n.pc = "writeList" /\ n.user = owner /\ n.key = wrapKey /\ n.list = list
    BY <1>1, <2>3 DEF TaskState
  <2>6. Follows(n, user, owner, wrapKey, stored, bundle)
    BY <1>1, <2>1, <2>5 DEF Follows, ForUser, HoldsList
  <2> QED BY <1>1, <2>4, <2>5, <2>6, CalmStep
<1> QED BY <1>2, <1>3


LEMMA WorkingSmooth ==
  ASSUME Typing, Smooth, NEW t \in Task, ~disturbed',
         \/ LogIn(t) \/ PutSecrets(t) \/ DeleteSecrets(t) \/ GetSecrets(t) \/ Fetch(t)
         \/ RequestToken(t) \/ PutToken(t)
  PROVE  Smooth'
<1> DEFINE c == task[t]
<1>1. c \in TaskState /\ Fits(c)
  BY DEF Typing, Calls
<1>2. UNCHANGED <<bundle, user, owner, wrapKey, stored, locked, wrapStore, abandoned>>
  BY DEF LogIn, PutSecrets, DeleteSecrets, GetSecrets, Fetch, RequestToken, PutToken, Kept
<1>3. c.pc \notin {"idle", "sealLegacy", "clearWrap", "clearSecrets"}
  BY DEF LogIn, PutSecrets, DeleteSecrets, GetSecrets, Fetch, RequestToken, PutToken
<1>4. ASSUME NEW p \in PC, NEW over, Onward(c, p), Run(t, [c EXCEPT !.pc = p], over),
             secretStore' = secretStore \/ user # None
      PROVE  Smooth'
  BY <1>2, <1>3, <1>4, WorkSmooth
<1>5. ASSUME Done(t), secretStore' = secretStore  PROVE Smooth'
  BY <1>2, <1>3, <1>5, WorkSmooth DEF Done
<1>6. CASE LogIn(t)
  <2>1. Onward(c, "putSecrets") /\ "putSecrets" \in PC /\ secretStore' = secretStore
    BY <1>6, Names DEF LogIn, Onward
  <2>2. Done(t) \/ Run(t, [c EXCEPT !.pc = "putSecrets"], {})
    BY <1>6 DEF LogIn, Refused, Wait
  <2> QED BY <1>4, <1>5, <2>1, <2>2
<1>7. CASE PutSecrets(t)
  <2>1. ~c.late /\ c.pc = "putSecrets"
    BY <1>7 DEF PutSecrets, Disturb
  <2>2. user # None
    BY <1>3, <2>1, InTime
  <2>3. CASE c.op = "refresh"
    <3>1. Onward(c, "fetch") /\ "fetch" \in PC
      BY <2>1, <2>3, Names DEF Onward
    <3> QED BY <1>4, <1>7, <2>2, <2>3, <3>1 DEF PutSecrets
  <2>4. CASE c.op # "refresh"
    BY <1>2, <1>7, <2>1, <2>4, WriteListSmooth DEF PutSecrets
  <2> QED BY <2>3, <2>4
<1>8. CASE DeleteSecrets(t)
  <2>1. ~c.late /\ c.pc = "deleteSecrets"
    BY <1>8 DEF DeleteSecrets, Disturb
  <2> QED BY <1>2, <1>8, <2>1, WriteListSmooth DEF DeleteSecrets
<1>9. CASE GetSecrets(t)
  <2>1. secretStore' = secretStore /\ c.pc = "getSecrets" /\ c.op = "refresh"
    BY <1>1, <1>9 DEF GetSecrets, Fits
  <2>2. ASSUME NEW s, Run(t, [c EXCEPT !.pc = "fetch", !.pw = s], {})  PROVE Smooth'
    <3>1. PICK n : n = [c EXCEPT !.pc = "fetch", !.pw = s]
      OBVIOUS
    <3>2. Run(t, n, {})
      BY <2>2, <3>1
    <3>3. Follows(c, user, owner, wrapKey, stored, bundle)
      BY DEF Smooth, Following
    <3> HIDE DEF c
    <3>4. n.pc = "fetch" /\ n.op = c.op /\ n.late = c.late
      BY <1>1, <3>1 DEF TaskState
    <3>5. Follows(n, user, owner, wrapKey, stored, bundle)
      BY <2>1, <3>3, <3>4 DEF Follows, ForUser, HoldsList
    <3> QED BY <1>2, <1>3, <2>1, <3>2, <3>4, <3>5, CalmStep DEF c
  <2>3. CASE c.pw # NoPassword /\ Wait(t, "logIn")
    <3>1. Onward(c, "logIn") /\ "logIn" \in PC
      BY <2>1, <2>3, Names DEF Onward
    <3> QED BY <1>4, <2>1, <2>3, <3>1 DEF Wait
  <2> QED BY <1>5, <1>9, <2>1, <2>2, <2>3 DEF GetSecrets
<1>10. CASE Fetch(t)
  <2>1. secretStore' = secretStore
    BY <1>10 DEF Fetch
  <2>2. CASE c.pc = "fetch" /\ Wait(t, "requestToken")
    <3>1. Onward(c, "requestToken") /\ "requestToken" \in PC
      BY <2>2, Names DEF Onward
    <3> QED BY <1>4, <2>1, <2>2, <3>1 DEF Wait
  <2> QED BY <1>5, <1>10, <2>1, <2>2 DEF Fetch
<1>11. CASE RequestToken(t)
  <2>1. Onward(c, "putToken") /\ "putToken" \in PC /\ secretStore' = secretStore
    BY <1>11, Names DEF RequestToken, Onward
  <2>2. Done(t) \/ Run(t, [c EXCEPT !.pc = "putToken"], {})
    BY <1>11 DEF RequestToken, Refused, Wait
  <2> QED BY <1>4, <1>5, <2>1, <2>2
<1>12. CASE PutToken(t)
  <2>1. ~c.late /\ c.pc = "putToken"
    BY <1>12 DEF PutToken, Disturb
  <2>2. user # None
    BY <1>3, <2>1, InTime
  <2>3. Onward(c, "fetchAgain") /\ "fetchAgain" \in PC
    BY <2>1, Names DEF Onward
  <2> QED BY <1>4, <1>12, <2>2, <2>3 DEF PutToken
<1> QED BY <1>6, <1>7, <1>8, <1>9, <1>10, <1>11, <1>12

LEMMA StartSmooth ==
  ASSUME Typing, Smooth, NEW n, Start(n), Follows(n, user, owner, wrapKey, stored, bundle),
         n.pc # "clearSecrets"
  PROVE  Smooth'
<1>1. PICK t \in Task : Free(t) /\ Run(t, n, {})
  BY DEF Start
<1>2. task[t].pc = "idle"
  BY <1>1 DEF Free
<1>3. UNCHANGED <<bundle, user, owner, wrapKey, stored, locked, wrapStore, abandoned, secretStore>>
  BY DEF Start, storage, memory
<1> QED BY <1>1, <1>2, <1>3, CalmStep

LEMMA StartsSmooth ==
  ASSUME Typing, Smooth, AddDevice \/ ReenterPassword \/ RemoveDevice
  PROVE  Smooth'
<1>1. PICK n :
        /\ Start(n) /\ n.op \notin {"lock", "forget"} /\ n.pc \in {"logIn", "deleteSecrets"}
        /\ n.op = "add" => n.user = user
  <2>1. ASSUME NEW d, NEW p, Start([Idle EXCEPT !.pc = "logIn", !.op = "add", !.user = user, !.dev = d, !.pw = p])
        PROVE  \E n : /\ Start(n) /\ n.op \notin {"lock", "forget"} /\ n.pc \in {"logIn", "deleteSecrets"}
                      /\ n.op = "add" => n.user = user
    <3>1. PICK n : n = [Idle EXCEPT !.pc = "logIn", !.op = "add", !.user = user, !.dev = d, !.pw = p]
      OBVIOUS
    <3>2. n.op = "add" /\ n.pc = "logIn" /\ n.user = user
      BY <3>1 DEF Idle
    <3> QED BY <2>1, <3>1, <3>2
  <2>2. ASSUME NEW d, NEW p, Start([Idle EXCEPT !.pc = "logIn", !.op = "reenter", !.dev = d, !.pw = p])
        PROVE  \E n : /\ Start(n) /\ n.op \notin {"lock", "forget"} /\ n.pc \in {"logIn", "deleteSecrets"}
                      /\ n.op = "add" => n.user = user
    <3>1. PICK n : n = [Idle EXCEPT !.pc = "logIn", !.op = "reenter", !.dev = d, !.pw = p]
      OBVIOUS
    <3>2. n.op = "reenter" /\ n.pc = "logIn"
      BY <3>1 DEF Idle
    <3> QED BY <2>2, <3>1, <3>2
  <2>3. ASSUME NEW d, Start([Idle EXCEPT !.pc = "deleteSecrets", !.op = "remove", !.dev = d])
        PROVE  \E n : /\ Start(n) /\ n.op \notin {"lock", "forget"} /\ n.pc \in {"logIn", "deleteSecrets"}
                      /\ n.op = "add" => n.user = user
    <3>1. PICK n : n = [Idle EXCEPT !.pc = "deleteSecrets", !.op = "remove", !.dev = d]
      OBVIOUS
    <3>2. n.op = "remove" /\ n.pc = "deleteSecrets"
      BY <3>1 DEF Idle
    <3> QED BY <2>3, <3>1, <3>2
  <2> QED BY <2>1, <2>2, <2>3, Zenon DEF AddDevice, ReenterPassword, RemoveDevice
<1>2. Follows(n, user, owner, wrapKey, stored, bundle)
  BY <1>1 DEF Start, Follows, ForUser, HoldsList
<1> QED BY <1>1, <1>2, StartSmooth

LEMMA RefreshSmooth ==
  ASSUME Typing, Smooth, RefreshDevice
  PROVE  Smooth'
<1>1. PICK e \in stored, t \in Task : Free(t) /\ Run(t, RefreshOf(e), {})
  BY DEF RefreshDevice
<1>2. user # None
  BY <1>1 DEF Smooth, Own
<1>3. UNCHANGED <<bundle, user, owner, wrapKey, stored, locked, wrapStore, abandoned, secretStore>>
  BY DEF RefreshDevice, storage, memory
<1>4. task[t].pc = "idle"
  BY <1>1 DEF Free
<1>5. Follows(RefreshOf(e), user, owner, wrapKey, stored, bundle) /\ RefreshOf(e).pc # "clearSecrets"
  BY <1>2, RefreshOfFollows
<1> QED BY <1>1, <1>3, <1>4, <1>5, CalmStep

(* A disturbance is never undone.                                          *)
LEMMA UndisturbedBefore ==
  ASSUME Typing, [Next]_vars, ~disturbed'
  PROVE  ~disturbed
<1>1. ASSUME NEW t \in Task, Continue(t)  PROVE ~disturbed
  BY <1>1 DEF Continue, ClearWrap, ClearSecrets, RestoreFamily, UnlockFamily, PutWrap, Unseal,
     SealLegacy, Unlocked, LogIn, PutSecrets, DeleteSecrets, ListSealed, GetSecrets, Fetch,
     RequestToken, PutToken, OpenList, Disturb, Refused
<1> QED BY <1>1 DEF Next, vars, Login, ForgetSession, Logout, ForgetAllDevices, Reload, AddDevice, ReenterPassword,
     RemoveDevice, RefreshDevice, ChangePassword, Start

LEMMA CrosslessStep == Typing /\ Crossless /\ [Next]_vars => Crossless'
<1> SUFFICES ASSUME Typing, Crossless, [Next]_vars, ~disturbed'  PROVE Smooth'
  BY DEF Crossless
<1>3. ~disturbed
  BY UndisturbedBefore
<1>4. Smooth
  BY <1>3 DEF Crossless
<1>5. CASE UNCHANGED vars
  BY <1>4, <1>5 DEF vars, storage, memory, Smooth, Own, Following, Showing, Clearing
<1>6. CASE ForgetSession \/ ChangePassword
  BY <1>4, <1>6 DEF ForgetSession, ChangePassword, storage, memory, Smooth, Own, Following, Showing, Clearing
<1>7. ASSUME NEW t \in Task, Unlocked(t)  PROVE Smooth'
  <2>1. Run(t, Idle, {}) /\ task[t].pc = "unlocked"
    BY <1>7 DEF Unlocked, Done
  <2>2. UNCHANGED <<bundle, user, owner, wrapKey, stored, locked, wrapStore, abandoned,
                    secretStore>>
    BY <1>7 DEF Unlocked, storage
  <2> QED BY <1>4, <2>1, <2>2, WorkSmooth
<1>8. ASSUME NEW t \in Task, Continue(t)  PROVE Smooth'
  BY <1>4, <1>7, <1>8, ClearWrapSmooth, ClearSecretsSmooth, OpeningSmooth, UnsealSmooth,
     SealLegacySmooth, WorkingSmooth, ListSealedSmooth DEF Continue
<1> QED BY <1>4, <1>5, <1>6, <1>8, LoginSmooth, LogoutSmooth, ReloadSmooth, StartsSmooth,
           RefreshSmooth DEF Next
-----------------------------------------------------------------------------
(* Until a call writes what it was overtaken in: the open list belongs to  *)
(* whoever is logged in and is what is sealed, each call still holds what  *)
(* it relies on, and after a logout the rest is being cleared.             *)
THEOREM CallsDoNotCross == Spec => []Crossless
<1>1. Init => Crossless
  <2> SUFFICES ASSUME Init  PROVE Smooth
    BY DEF Crossless
  <2>1. Own /\ Showing
    BY DEF Init, Own, Showing
  <2>2. Following
    BY IdleFollows DEF Init, Following
  <2>3. Clearing
    BY DEF Init, Clearing
  <2> QED BY <2>1, <2>2, <2>3 DEF Smooth
<1>2. Typing /\ Crossless /\ [Next]_vars => Crossless'
  BY CrosslessStep
<1> QED BY <1>1, <1>2, CallsWellFormed, PTL DEF Spec

(* After a logout nothing remains that opens a list, and no working copy.  *)
THEOREM NothingIsLeft == Spec => []LockLeavesNothing
<1>1. Typing /\ Crossless => LockLeavesNothing
  <2> SUFFICES ASSUME Typing, Smooth, Quiet  PROVE NothingLeft
    BY DEF Crossless, LockLeavesNothing
  <2>1. user = None /\ ~abandoned /\ \A t \in Task : task[t].pc = "idle"
    BY DEF Quiet, InFlight, Free
  <2>2. owner = None /\ wrapKey = None /\ stored = {}
    BY <2>1 DEF Smooth, Own, Typing, ListOpen
  <2>3. \A t \in Task : task[t].pc \notin {"clearWrap", "clearSecrets"}
    BY <2>1
  <2>4. (\A u \in User : wrapStore[u] = None) /\ (\A d \in Device : secretStore[d] = None)
    BY <2>1, <2>3 DEF Smooth, Clearing
  <2> QED BY <2>2, <2>4 DEF NothingLeft
<1> QED BY <1>1, CallsWellFormed, CallsDoNotCross, PTL

(* Nobody gets a device that somebody else entered in the same browser.    *)
THEOREM OwnDevicesAlways == Spec => []OwnDevicesOnly
<1>1. Crossless => OwnDevicesOnly
  BY DEF Crossless, Smooth, Own, OwnDevicesOnly
<1> QED BY <1>1, CallsDoNotCross, PTL
-----------------------------------------------------------------------------

(* The working copies and the list.  What a call in flight relies on, as   *)
(* long as nothing it started from has changed: k is the key of the open   *)
(* list, s what is shown, l what is sealed, and w are the working copies.  *)
Has(list, d, p) == \E e \in list : e.dev = d /\ e.password = p
AtDevice == {"logIn", "putSecrets", "deleteSecrets", "getSecrets", "fetch", "requestToken",
             "putToken", "fetchAgain"}
AtPlace == {"fetch", "requestToken", "putToken", "fetchAgain"}
Relies(c, k, s, l, w) ==
  c.pc # "idle" /\ ~c.late =>
    /\ c.pc \in AtDevice => k # None
    /\ c.pc \in {"logIn", "putSecrets"} /\ c.op = "reenter" => \E e \in s : e.dev = c.dev
    /\ c.pc \in {"getSecrets", "logIn", "putSecrets"} /\ c.op = "refresh" /\ c.pw # NoPassword =>
         Has(l, c.dev, c.pw)
    /\ c.pc = "sealLegacy" => l \subseteq c.list
    /\ c.pc = "writeList" =>
         \/ c.op \in {"add", "reenter"} /\ w[c.dev] = c.pw /\ Has(c.list, c.dev, c.pw)
         \/ c.op = "remove" /\ w[c.dev] = None

SealedList == Content(bundle, owner, wrapKey)
Relying == \A t \in Task : Relies(task[t], wrapKey, stored, SealedList, secretStore)

(* What is shown is what is sealed, and before that at least what is in    *)
(* the old plain list; a list about to be sealed has all other devices.    *)
NoUnseal == \A t \in Task : task[t].pc # "unseal"
Agreeing ==
  /\ ~locked => stored = SealedList /\ legacy = {}
  /\ \A e \in stored : e \in SealedList \/ (e.password = NoPassword /\ e.dev \in legacy)
  /\ owner # None /\ NoUnseal => SealedList \subseteq stored
Carries(c, s) == c.pc = "writeList" /\ ~c.late => \A e \in s : e.dev # c.dev => e \in c.list
Carrying == NoUnseal => \A t \in Task : Carries(task[t], stored)

(* A working copy has the password of the sealed list, or of one about to  *)
(* be sealed, or of the one that will be opened again.                     *)
PendingIn(tasks, d, p) ==
  \E x \in Task : /\ tasks[x].pc = "writeList" /\ tasks[x].op \in {"add", "reenter"}
                  /\ tasks[x].dev = d /\ (tasks[x].late \/ Has(tasks[x].list, d, p))
Deriving == \E t \in Task : task[t].pc \in {"derive", "putWrap"} /\ ~task[t].late
Waiting(d, p) ==
  /\ owner = None /\ user # None /\ ~Deriving
  /\ wrapStore[user] # None => Has(Content(bundle, user, wrapStore[user]), d, p)
Matched(d, p) ==
  \/ PendingIn(task, d, p)
  \/ owner # None /\ Has(SealedList, d, p)
  \/ Waiting(d, p)
NoClear == ~abandoned /\ \A t \in Task : task[t].pc \notin {"clearWrap", "clearSecrets"}
Matching ==
  NoClear =>
    /\ \A d \in Device : secretStore[d] # None => Matched(d, secretStore[d])
    /\ \A t \in Task : task[t].pc \in AtPlace /\ ~task[t].late =>
         Has(SealedList, task[t].dev, task[t].pw) \/ PendingIn(task, task[t].dev, task[t].pw)

(* The remembered key is the one the list is open with.                    *)
WrapCleared ==
  /\ \A t \in Task : task[t].pc # "clearWrap"
  /\ ~abandoned \/ \E t \in Task : task[t].pc = "clearSecrets"
Remembering ==
  /\ remembered \in {None, user}
  /\ WrapCleared /\ owner # None => wrapStore[owner] \in {None, wrapKey}
  /\ WrapCleared /\ owner = None /\ Deriving => \A u \in User : wrapStore[u] = None

Backing == Relying /\ Agreeing /\ Carrying /\ Matching /\ Remembering
Backed == ~disturbed => Backing

(* What a step of one call leaves of the others.                           *)
LEMMA RunLeaves ==
  ASSUME Typing, NEW t \in Task, NEW n, NEW over, Run(t, n, over)
  PROVE  /\ task'[t] = n
         /\ \A x \in Task \ {t} :
              /\ Same(task[x], task'[x])
              /\ task[x].late => task'[x].late
              /\ ~task'[x].late => x \notin over /\ task'[x] = task[x]
<1>1. /\ task'[t] = n
      /\ \A x \in Task \ {t} :
              /\ Same(task[x], task'[x])
              /\ x \in over => task'[x].late = TRUE
              /\ x \notin over => task'[x] = task[x]
  BY Running DEF Typing, Calls
<1>2. ASSUME NEW x \in Task \ {t}
      PROVE  (task[x].late => task'[x].late) /\ (~task'[x].late => x \notin over /\ task'[x] = task[x])
  BY <1>1
<1> QED BY <1>1, <1>2

LEMMA RelyingNext ==
  ASSUME Typing, NEW t \in Task, NEW n, NEW over, Run(t, n, over),
         Relies(n, wrapKey', stored', SealedList', secretStore'),
         \A x \in Task \ {t} : x \notin over /\ ~task[x].late =>
           Relies(task[x], wrapKey', stored', SealedList', secretStore')
  PROVE  Relying'
<1>1. task'[t] = n
  BY RunLeaves
<1>2. ASSUME NEW x \in Task \ {t}
      PROVE  Relies(task'[x], wrapKey', stored', SealedList', secretStore')
  <2>1. CASE task'[x].late
    BY <2>1 DEF Relies
  <2>2. CASE ~task'[x].late
    <3>1. x \notin over /\ task'[x] = task[x]
      BY <2>2, RunLeaves
    <3> QED BY <2>2, <3>1
  <2> QED BY <2>1, <2>2
<1> QED BY <1>1, <1>2 DEF Relying

LEMMA PendingStays ==
  ASSUME Typing, NEW t \in Task, NEW n, NEW over, Run(t, n, over), NEW d, NEW p, PendingIn(task, d, p),
         task[t].pc # "writeList" \/ task[t].dev # d
  PROVE  PendingIn(task', d, p)
<1>1. PICK x \in Task : /\ task[x].pc = "writeList" /\ task[x].op \in {"add", "reenter"}
                        /\ task[x].dev = d /\ (task[x].late \/ Has(task[x].list, d, p))
  BY DEF PendingIn
<1>2. x # t
  BY <1>1
<1>3. Same(task[x], task'[x]) /\ (task[x].late => task'[x].late)
  BY <1>2, RunLeaves
<1> QED BY <1>1, <1>3 DEF Same, PendingIn


(* A step that leaves the lists and their keys alone.                      *)
LEMMA CalmBacking ==
  ASSUME Typing, Backing, NEW t \in Task, NEW n, NEW over, Run(t, n, over),
         UNCHANGED <<bundle, legacy, remembered, wrapStore, user, owner, wrapKey, stored, locked,
                     abandoned>>,
         task[t].pc \notin {"unseal", "writeList", "clearWrap", "clearSecrets"},
         n.pc \notin {"unseal", "clearWrap", "clearSecrets"},
         n.pc \in {"derive", "putWrap"} /\ ~n.late => task[t].pc = "derive" /\ ~task[t].late,
         Relies(n, wrapKey, stored, SealedList, secretStore'), Carries(n, stored),
         \A x \in Task \ {t} : x \notin over /\ ~task[x].late /\ task[x].pc = "writeList" =>
           secretStore'[task[x].dev] = secretStore[task[x].dev],
         NoClear /\ n.pc \in AtPlace /\ ~n.late =>
           Has(SealedList, n.dev, n.pw) \/ PendingIn(task', n.dev, n.pw),
         \A d \in Device : secretStore'[d] \notin {None, secretStore[d]} /\ NoClear =>
           PendingIn(task', d, secretStore'[d]) \/ (owner # None /\ Has(SealedList, d, secretStore'[d]))
  PROVE  Backing'
<1>1. /\ task'[t] = n
      /\ \A x \in Task \ {t} :
              /\ Same(task[x], task'[x])
              /\ ~task'[x].late => x \notin over /\ task'[x] = task[x]
  BY RunLeaves
<1>2. SealedList' = SealedList /\ NoUnseal' = NoUnseal
  <2>1. NoUnseal' <=> NoUnseal
    BY <1>1 DEF NoUnseal, Same
  <2>2. SealedList' = SealedList
    BY DEF SealedList, Content
  <2> QED BY <2>1, <2>2 DEF NoUnseal
<1>3. Relying'
  <2>1. ASSUME NEW x \in Task \ {t}, x \notin over, ~task[x].late
        PROVE  Relies(task[x], wrapKey, stored, SealedList, secretStore')
    <3>1. Relies(task[x], wrapKey, stored, SealedList, secretStore)
      BY DEF Backing, Relying
    <3>2. task[x].pc = "writeList" => secretStore'[task[x].dev] = secretStore[task[x].dev]
      BY <2>1
    <3> QED BY <3>1, <3>2 DEF Relies
  <2> QED BY <1>2, <2>1, RelyingNext
<1>4. Agreeing' /\ Carrying'
  <2>1. Agreeing'
    BY <1>2 DEF Backing, Agreeing
  <2>2. ASSUME NoUnseal, NEW x \in Task  PROVE Carries(task'[x], stored)
    <3>1. CASE x = t
      BY <1>1, <3>1
    <3>2. CASE x # t
      <4>1. Carries(task[x], stored)
        BY <2>2 DEF Backing, Carrying
      <4> QED BY <1>1, <3>2, <4>1 DEF Carries
    <3> QED BY <3>1, <3>2
  <2>3. Carrying'
    BY <1>2, <2>2 DEF Carrying
  <2> QED BY <2>1, <2>3
<1>5. NoClear' => NoClear
  <2>1. \A x \in Task : task[x].pc \in {"clearWrap", "clearSecrets"} => task'[x].pc = task[x].pc
    BY <1>1 DEF Same
  <2> QED BY <2>1 DEF NoClear
<1>6. Deriving' => Deriving
  <2>1. ASSUME NEW x \in Task, task'[x].pc \in {"derive", "putWrap"}, ~task'[x].late  PROVE Deriving
    <3>1. CASE x = t
      BY <1>1, <2>1, <3>1 DEF Deriving
    <3>2. CASE x # t
      BY <1>1, <2>1, <3>2 DEF Deriving
    <3> QED BY <3>1, <3>2
  <2> QED BY <2>1 DEF Deriving
<1>7. \A d, p : PendingIn(task, d, p) => PendingIn(task', d, p)
  BY PendingStays
<1>8. Matching'
  <2> SUFFICES ASSUME NoClear  PROVE
        /\ \A d \in Device : secretStore'[d] # None => Matched(d, secretStore[d])'
        /\ \A x \in Task : task'[x].pc \in AtPlace /\ ~task'[x].late =>
             Has(SealedList, task'[x].dev, task'[x].pw) \/ PendingIn(task', task'[x].dev, task'[x].pw)
    BY <1>2, <1>5 DEF Matching
  <2>1. ASSUME NEW d \in Device, secretStore'[d] # None  PROVE Matched(d, secretStore[d])'
    <3>1. CASE secretStore'[d] = secretStore[d]
      <4>1. Matched(d, secretStore[d])
        BY <2>1, <3>1 DEF Backing, Matching
      <4> QED BY <1>2, <1>6, <1>7, <3>1, <4>1 DEF Matched, Waiting
    <3>2. CASE secretStore'[d] # secretStore[d]
      BY <1>2, <2>1, <3>2 DEF Matched
    <3> QED BY <3>1, <3>2
  <2>2. ASSUME NEW x \in Task, task'[x].pc \in AtPlace, ~task'[x].late
        PROVE  Has(SealedList, task'[x].dev, task'[x].pw) \/ PendingIn(task', task'[x].dev, task'[x].pw)
    <3>1. CASE x = t
      BY <1>1, <2>2, <3>1
    <3>2. CASE x # t
      <4>1. task'[x] = task[x]
        BY <1>1, <2>2, <3>2
      <4>2. Has(SealedList, task[x].dev, task[x].pw) \/ PendingIn(task, task[x].dev, task[x].pw)
        BY <2>2, <4>1 DEF Backing, Matching
      <4> QED BY <1>7, <4>1, <4>2
    <3> QED BY <3>1, <3>2
  <2> QED BY <2>1, <2>2
<1>9. Remembering'
  <2>1. WrapCleared' => WrapCleared
    <3>1. \A x \in Task : task[x].pc = "clearWrap" => task'[x].pc = task[x].pc
      BY <1>1 DEF Same
    <3>2. \A x \in Task : task'[x].pc = "clearSecrets" => task[x].pc = "clearSecrets"
      BY <1>1 DEF Same
    <3> QED BY <3>1, <3>2 DEF WrapCleared
  <2> QED BY <1>6, <2>1 DEF Backing, Remembering
<1> QED BY <1>3, <1>4, <1>8, <1>9 DEF Backing


(* A call that has ended, and one that has not come to a device, relies on *)
(* nothing of this.                                                        *)
LEMMA IdleRelies ==
  /\ \A c, k, s, l, w : c.pc \notin AtDevice \cup {"sealLegacy", "writeList"} => Relies(c, k, s, l, w)
  /\ \A c, s : c.pc # "writeList" => Carries(c, s)
  /\ Idle.pc = "idle"
BY DEF Relies, Carries, AtDevice, Idle

(* Steps that write no working copy.                                       *)
LEMMA UnwrittenBacking ==
  ASSUME Typing, Backing, NEW t \in Task, NEW n, NEW over, Run(t, n, over),
         UNCHANGED <<bundle, legacy, remembered, wrapStore, user, owner, wrapKey, stored, locked,
                     abandoned, secretStore>>,
         task[t].pc \notin {"unseal", "writeList", "clearWrap", "clearSecrets"},
         n.pc \notin {"unseal", "clearWrap", "clearSecrets", "writeList", "derive"},
         n.pc = "putWrap" /\ ~n.late => task[t].pc = "derive" /\ ~task[t].late,
         Relies(n, wrapKey, stored, SealedList, secretStore),
         NoClear /\ n.pc \in AtPlace /\ ~n.late =>
           Has(SealedList, n.dev, n.pw) \/ PendingIn(task, n.dev, n.pw)
  PROVE  Backing'
<1>1. Relies(n, wrapKey, stored, SealedList, secretStore') /\ Carries(n, stored)
  BY DEF Carries
<1>2. \A d, p : PendingIn(task, d, p) => PendingIn(task', d, p)
  BY PendingStays
<1> QED BY <1>1, <1>2, CalmBacking

LEMMA EndBacking ==
  ASSUME Typing, Backing, NEW t \in Task, NEW over, Run(t, Idle, over),
         UNCHANGED <<bundle, legacy, remembered, wrapStore, user, owner, wrapKey, stored, locked,
                     abandoned, secretStore>>,
         task[t].pc \notin {"unseal", "writeList", "clearWrap", "clearSecrets"}
  PROVE  Backing'
<1>1. Relies(Idle, wrapKey, stored, SealedList, secretStore) /\ Idle.pc \notin AtPlace
  BY IdleRelies DEF AtDevice, AtPlace
<1> QED BY <1>1, IdleRelies, UnwrittenBacking

(* A call that goes on relies on what it relied on.                        *)
LEMMA OnwardBacking ==
  ASSUME Typing, Backing, NEW t \in Task, NEW p \in PC, Onward(task[t], p), p # "fetch",
         NEW over, Run(t, [task[t] EXCEPT !.pc = p], over),
         UNCHANGED <<bundle, legacy, remembered, wrapStore, user, owner, wrapKey, stored, locked,
                     abandoned, secretStore>>
  PROVE  Backing'
<1>1. PICK n : n = [task[t] EXCEPT !.pc = p]
  OBVIOUS
<1>2. Run(t, n, over)
  BY <1>1
<1>3. task[t] \in TaskState /\ Fits(task[t])
  BY DEF Typing, Calls
<1>4. /\ n.pc = p /\ n.op = task[t].op /\ n.late = task[t].late /\ n.dev = task[t].dev
      /\ n.pw = task[t].pw
  BY <1>1, <1>3, Moved
<1>5. Relies(task[t], wrapKey, stored, SealedList, secretStore)
  BY DEF Backing, Relying
<1>6. Relies(n, wrapKey, stored, SealedList, secretStore)
  BY <1>3, <1>4, <1>5 DEF Onward, Relies, Fits, AtDevice
<1>7. p \in AtPlace => task[t].pc \in AtPlace
  BY DEF Onward, AtPlace
<1>8. NoClear /\ n.pc \in AtPlace /\ ~n.late =>
        Has(SealedList, n.dev, n.pw) \/ PendingIn(task, n.dev, n.pw)
  BY <1>4, <1>7 DEF Backing, Matching
<1>9. /\ task[t].pc \notin {"unseal", "writeList", "clearWrap", "clearSecrets"}
      /\ n.pc \notin {"unseal", "clearWrap", "clearSecrets", "writeList", "derive", "putWrap"}
  BY <1>4 DEF Onward
<1> QED BY <1>2, <1>6, <1>8, <1>9, UnwrittenBacking

(* A call at a device has the list open.                                   *)
LEMMA AtDeviceOpen ==
  ASSUME Typing, Backing, NEW t \in Task, ~task[t].late, task[t].pc \in AtDevice
  PROVE  wrapKey # None /\ owner # None
<1>1. Relies(task[t], wrapKey, stored, SealedList, secretStore)
  BY DEF Backing, Relying
<1> QED BY <1>1 DEF Relies, AtDevice, Typing, ListOpen

(* Whoever is about to seal a list is late when the working copy of its    *)
(* device is written.                                                      *)
LEMMA WritersLate ==
  ASSUME Typing, Backing, NEW d, NEW op, NEW x \in Task, x \notin About(d, op), ~task[x].late,
         task[x].pc = "writeList"
  PROVE  task[x].dev # d
<1>1. Relies(task[x], wrapKey, stored, SealedList, secretStore)
  BY DEF Backing, Relying
<1>2. task[x].op # "refresh"
  BY <1>1 DEF Relies
<1> QED BY <1>2 DEF About, InFlight, Free

(* A refresh that writes a working copy.                                   *)
LEMMA RefreshWrites ==
  ASSUME Typing, Backing, NEW t \in Task, NEW p \in AtPlace, ~task[t].late,
         \/ task[t].pc = "putSecrets" /\ task[t].op = "refresh"
         \/ task[t].pc = "putToken",
         Run(t, [task[t] EXCEPT !.pc = p], About(task[t].dev, "refresh")),
         secretStore' = [secretStore EXCEPT ![task[t].dev] = task[t].pw],
         UNCHANGED <<bundle, legacy, remembered, wrapStore, user, owner, wrapKey, stored, locked,
                     abandoned>>
  PROVE  Backing'
<1> DEFINE d == task[t].dev
           w == task[t].pw
<1>1. PICK n : n = [task[t] EXCEPT !.pc = p]
  OBVIOUS
<1>2. Run(t, n, About(d, "refresh"))
  BY <1>1
<1>3. task[t] \in TaskState /\ Fits(task[t]) /\ p \in PC
  BY Names DEF Typing, Calls, AtPlace
<1>4. n.pc = p /\ n.op = task[t].op /\ n.late = task[t].late /\ n.dev = d /\ n.pw = w
  BY <1>1, <1>3, Moved
<1>5. wrapKey # None /\ owner # None
  BY AtDeviceOpen DEF AtDevice
<1>6. d \in Device /\ w \in Password /\ w # NoPassword
  BY <1>3, DeviceListAssumption DEF Fits
<1>7. secretStore \in [Device -> Password \cup {None}]
  BY DEF Typing, Storage
<1>8. NoClear => Has(SealedList, d, w) \/ PendingIn(task, d, w)
  <2>1. CASE task[t].pc = "putSecrets"
    <3>1. Relies(task[t], wrapKey, stored, SealedList, secretStore)
      BY DEF Backing, Relying
    <3> QED BY <1>6, <2>1, <3>1 DEF Relies
  <2>2. CASE task[t].pc = "putToken"
    BY <2>2 DEF Backing, Matching, AtPlace
  <2> QED BY <2>1, <2>2
<1>9. NoClear => Has(SealedList, d, w) \/ PendingIn(task', d, w)
  BY <1>2, <1>8, PendingStays
<1>10. Relies(n, wrapKey, stored, SealedList, secretStore') /\ Carries(n, stored)
  BY <1>4, <1>5 DEF Relies, Carries, AtPlace
<1>11. ASSUME NEW x \in Task \ {t}, x \notin About(d, "refresh"), ~task[x].late,
              task[x].pc = "writeList"
       PROVE  secretStore'[task[x].dev] = secretStore[task[x].dev]
  <2>1. task[x].dev # d /\ task[x].dev \in Device
    BY <1>11, WritersLate DEF Typing, Calls, Fits
  <2> QED BY <1>7, <2>1
<1>12. ASSUME NEW e \in Device, secretStore'[e] \notin {None, secretStore[e]}
       PROVE  e = d /\ secretStore'[e] = w
  BY <1>6, <1>7, <1>12
<1>13. /\ n.pc \notin {"unseal", "clearWrap", "clearSecrets", "derive", "putWrap"}
       /\ task[t].pc \notin {"unseal", "writeList", "clearWrap", "clearSecrets"}
  BY <1>4 DEF AtPlace
<1> HIDE DEF d, w
<1> QED BY <1>2, <1>4, <1>5, <1>9, <1>10, <1>11, <1>12, <1>13, CalmBacking


(* What becomes of the list: only the device of the call changes.          *)
LEMMA NewListHas ==
  ASSUME Typing, Backing, NEW t \in Task, ~task[t].late,
         \/ task[t].pc = "putSecrets" /\ task[t].op # "refresh"
         \/ task[t].pc = "deleteSecrets"
  PROVE  /\ \A e \in stored : e.dev # task[t].dev => e \in NewList(t)
         /\ task[t].pc = "putSecrets" =>
              task[t].op \in {"add", "reenter"} /\ Has(NewList(t), task[t].dev, task[t].pw)
         /\ task[t].pc = "deleteSecrets" => task[t].op = "remove"
<1> DEFINE d == task[t].dev
           w == task[t].pw
<1>1. Fits(task[t]) /\ Relies(task[t], wrapKey, stored, SealedList, secretStore)
      /\ stored \subseteq Entry
  BY DEF Typing, Calls, ListOpen, Backing, Relying
<1>2. CASE task[t].pc = "putSecrets" /\ task[t].op = "add"
  <2>1. PICK new : new = [dev |-> d, password |-> w, by |-> task[t].user]
    OBVIOUS
  <2>2. NewList(t) = stored \cup {new}
    BY <1>2, <2>1 DEF NewList
  <2>3. new.dev = d /\ new.password = w
    BY <2>1
  <2> QED BY <1>2, <2>2, <2>3 DEF Has
<1>3. CASE task[t].pc = "putSecrets" /\ task[t].op = "reenter"
  <2> DEFINE new(e) == IF e.dev = d THEN [e EXCEPT !.password = w] ELSE e
  <2>1. NewList(t) = {new(e) : e \in stored}
    BY <1>3 DEF NewList
  <2>2. PICK e \in stored : e.dev = d
    BY <1>1, <1>3 DEF Relies
  <2>3. new(e).dev = d /\ new(e).password = w
    BY <1>1, <2>2 DEF Entry
  <2>4. \A f \in stored : f.dev # d => new(f) = f
    OBVIOUS
  <2> HIDE DEF new
  <2>5. Has(NewList(t), d, w)
    BY <2>1, <2>2, <2>3 DEF Has
  <2>6. \A f \in stored : f.dev # d => f \in NewList(t)
    BY <2>1, <2>4
  <2> QED BY <1>3, <2>5, <2>6
<1>4. CASE task[t].pc = "deleteSecrets"
  <2>1. task[t].op = "remove"
    BY <1>1, <1>4 DEF Fits
  <2>2. NewList(t) = {e \in stored : e.dev # d}
    BY <2>1 DEF NewList
  <2> QED BY <1>4, <2>1, <2>2
<1> QED BY <1>1, <1>2, <1>3, <1>4 DEF Fits

LEMMA WriteListBacking ==
  ASSUME Typing, Backing, NEW t \in Task, ~task[t].late, WriteList(t, NewList(t)),
         UNCHANGED <<bundle, legacy, remembered, wrapStore, user, owner, wrapKey, stored, locked,
                     abandoned>>,
         NEW w, secretStore' = [secretStore EXCEPT ![task[t].dev] = w],
         \/ task[t].pc = "putSecrets" /\ task[t].op # "refresh" /\ w = task[t].pw
         \/ task[t].pc = "deleteSecrets" /\ w = None
  PROVE  Backing'
<1> DEFINE d == task[t].dev
           op == task[t].op
           list == NewList(t)
<1>1. wrapKey # None /\ owner # None
  BY AtDeviceOpen DEF AtDevice
<1>2. task[t] \in TaskState /\ Fits(task[t])
  BY DEF Typing, Calls
<1>3. Run(t, [task[t] EXCEPT !.pc = "writeList", !.user = owner, !.key = wrapKey, !.list = list],
          About(d, op))
  BY <1>1 DEF WriteList
<1>4. /\ \A e \in stored : e.dev # d => e \in list
      /\ task[t].pc = "putSecrets" => op \in {"add", "reenter"} /\ Has(list, d, task[t].pw)
      /\ task[t].pc = "deleteSecrets" => op = "remove"
  BY NewListHas
<1>5. d \in Device /\ secretStore \in [Device -> Password \cup {None}]
  BY <1>2 DEF Fits, Typing, Storage
<1>6. secretStore'[d] = w /\ \A e \in Device : e # d => secretStore'[e] = secretStore[e]
  BY <1>5
<1> HIDE DEF list
<1>7. PICK n : n = [task[t] EXCEPT !.pc = "writeList", !.user = owner, !.key = wrapKey, !.list = list]
  OBVIOUS
<1>8. Run(t, n, About(d, op))
  BY <1>3, <1>7
<1>9. /\ n.pc = "writeList" /\ n.op = op /\ n.dev = d /\ n.pw = task[t].pw /\ n.list = list
      /\ n.late = task[t].late
  BY <1>2, <1>7 DEF TaskState
<1>10. Relies(n, wrapKey, stored, SealedList, secretStore') /\ Carries(n, stored)
  BY <1>4, <1>6, <1>9 DEF Relies, Carries, AtDevice
<1>11. ASSUME NEW x \in Task \ {t}, x \notin About(d, op), ~task[x].late, task[x].pc = "writeList"
       PROVE  secretStore'[task[x].dev] = secretStore[task[x].dev]
  <2>1. task[x].dev # d /\ task[x].dev \in Device
    BY <1>11, WritersLate DEF Typing, Calls, Fits
  <2> QED BY <1>6, <2>1
<1>12. ASSUME NEW e \in Device, secretStore'[e] \notin {None, secretStore[e]}
       PROVE  PendingIn(task', e, secretStore'[e])
  <2>1. e = d /\ task[t].pc = "putSecrets" /\ secretStore'[e] = task[t].pw
    BY <1>6, <1>12
  <2>2. task'[t] = n
    BY <1>8, RunLeaves
  <2> QED BY <1>4, <1>9, <2>1, <2>2 DEF PendingIn
<1>13. /\ n.pc \notin AtPlace \cup {"unseal", "clearWrap", "clearSecrets", "derive", "putWrap"}
       /\ task[t].pc \notin {"unseal", "writeList", "clearWrap", "clearSecrets"}
  BY <1>9 DEF AtPlace
<1> HIDE DEF d, op
<1> QED BY <1>8, <1>10, <1>11, <1>12, <1>13, CalmBacking

(* The calls about devices, from one await to the next.                    *)
LEMMA WorkingBacking ==
  ASSUME Typing, Backing, NEW t \in Task, ~disturbed',
         \/ LogIn(t) \/ PutSecrets(t) \/ DeleteSecrets(t) \/ GetSecrets(t) \/ Fetch(t)
         \/ RequestToken(t) \/ PutToken(t)
  PROVE  Backing'
<1> DEFINE c == task[t]
<1>1. c \in TaskState /\ Fits(c) /\ Relies(c, wrapKey, stored, SealedList, secretStore)
  BY DEF Typing, Calls, Backing, Relying
<1>2. UNCHANGED <<bundle, legacy, remembered, wrapStore, user, owner, wrapKey, stored, locked,
                  abandoned>>
  BY DEF LogIn, PutSecrets, DeleteSecrets, GetSecrets, Fetch, RequestToken, PutToken, Kept
<1>3. c.pc \in AtDevice /\ c.pc \notin {"unseal", "writeList", "clearWrap", "clearSecrets"}
  BY DEF LogIn, PutSecrets, DeleteSecrets, GetSecrets, Fetch, RequestToken, PutToken, AtDevice
<1>4. ASSUME NEW p \in PC, Wait(t, p), Onward(c, p), p # "fetch", secretStore' = secretStore
      PROVE  Backing'
  BY <1>2, <1>4, OnwardBacking DEF Wait
<1>5. ASSUME Done(t), secretStore' = secretStore  PROVE Backing'
  BY <1>2, <1>3, <1>5, EndBacking DEF Done
<1>6. CASE LogIn(t)
  <2>1. Onward(c, "putSecrets") /\ "putSecrets" \in PC /\ secretStore' = secretStore
    BY <1>6, Names DEF LogIn, Onward
  <2>2. Done(t) \/ Wait(t, "putSecrets")
    BY <1>6 DEF LogIn, Refused
  <2> QED BY <1>4, <1>5, <2>1, <2>2
<1>7. CASE PutSecrets(t)
  <2>1. ~c.late /\ c.pc = "putSecrets" /\ "fetch" \in AtPlace
    BY <1>7 DEF PutSecrets, Disturb, AtPlace
  <2>2. CASE c.op = "refresh"
    BY <1>2, <1>7, <2>1, <2>2, RefreshWrites DEF PutSecrets
  <2>3. CASE c.op # "refresh"
    BY <1>2, <1>7, <2>1, <2>3, WriteListBacking DEF PutSecrets
  <2> QED BY <2>2, <2>3
<1>8. CASE DeleteSecrets(t)
  <2>1. ~c.late /\ c.pc = "deleteSecrets"
    BY <1>8 DEF DeleteSecrets, Disturb
  <2> QED BY <1>2, <1>8, <2>1, WriteListBacking DEF DeleteSecrets
<1>9. CASE GetSecrets(t)
  <2>1. secretStore' = secretStore /\ c.pc = "getSecrets" /\ c.op = "refresh" /\ c.dev \in Device
    BY <1>1, <1>9 DEF GetSecrets, Fits
  <2>2. ASSUME NEW s, s = secretStore[c.dev], s # None, Run(t, [c EXCEPT !.pc = "fetch", !.pw = s], {})
        PROVE  Backing'
    <3>1. PICK n : n = [c EXCEPT !.pc = "fetch", !.pw = s]
      OBVIOUS
    <3>2. Run(t, n, {})
      BY <2>2, <3>1
    <3> HIDE DEF c
    <3>3. n.pc = "fetch" /\ n.op = c.op /\ n.late = c.late /\ n.dev = c.dev /\ n.pw = s
      BY <1>1, <3>1 DEF TaskState
    <3>4. Relies(n, wrapKey, stored, SealedList, secretStore)
      BY <1>1, <2>1, <3>3 DEF Relies, AtDevice
    <3>5. NoClear /\ ~n.late => Has(SealedList, n.dev, n.pw) \/ PendingIn(task, n.dev, n.pw)
      <4>1. SUFFICES ASSUME NoClear, ~c.late
                     PROVE  Has(SealedList, c.dev, s) \/ PendingIn(task, c.dev, s)
        BY <3>3
      <4>2. owner # None
        BY <1>3, <4>1, AtDeviceOpen DEF c
      <4>3. Matched(c.dev, s)
        BY <2>1, <2>2, <4>1 DEF Backing, Matching
      <4> QED BY <4>2, <4>3 DEF Matched, Waiting
    <3> QED BY <1>2, <2>1, <3>2, <3>3, <3>4, <3>5, UnwrittenBacking DEF c
  <2>3. CASE c.pw # NoPassword /\ Wait(t, "logIn")
    <3>1. Onward(c, "logIn") /\ "logIn" \in PC
      BY <2>1, <2>3, Names DEF Onward
    <3> QED BY <1>4, <2>1, <2>3, <3>1
  <2> QED BY <1>5, <1>9, <2>1, <2>2, <2>3 DEF GetSecrets
<1>10. CASE Fetch(t)
  <2>1. secretStore' = secretStore
    BY <1>10 DEF Fetch
  <2>2. CASE c.pc = "fetch" /\ Wait(t, "requestToken")
    <3>1. Onward(c, "requestToken") /\ "requestToken" \in PC
      BY <2>2, Names DEF Onward
    <3> QED BY <1>4, <2>1, <2>2, <3>1
  <2> QED BY <1>5, <1>10, <2>1, <2>2 DEF Fetch
<1>11. CASE RequestToken(t)
  <2>1. Onward(c, "putToken") /\ "putToken" \in PC /\ secretStore' = secretStore
    BY <1>11, Names DEF RequestToken, Onward
  <2>2. Done(t) \/ Wait(t, "putToken")
    BY <1>11 DEF RequestToken, Refused
  <2> QED BY <1>4, <1>5, <2>1, <2>2
<1>12. CASE PutToken(t)
  <2>1. ~c.late /\ c.pc = "putToken" /\ "fetchAgain" \in AtPlace
    BY <1>12 DEF PutToken, Disturb, AtPlace
  <2> QED BY <1>2, <1>12, <2>1, RefreshWrites DEF PutToken
<1> QED BY <1>6, <1>7, <1>8, <1>9, <1>10, <1>11, <1>12


(* A call that begins.                                                     *)
LEMMA ListedOpen ==
  ASSUME Typing, Smooth, NEW e \in stored
  PROVE  wrapKey # None
BY DeviceListAssumption DEF Smooth, Own, Typing, ListOpen

LEMMA StartBacking ==
  ASSUME Typing, Backing, NEW n, Start(n), n.pc \in {"logIn", "deleteSecrets"},
         Relies(n, wrapKey, stored, SealedList, secretStore)
  PROVE  Backing'
<1>1. PICK t \in Task : Free(t) /\ Run(t, n, {})
  BY DEF Start
<1>2. task[t].pc = "idle"
  BY <1>1 DEF Free
<1>3. UNCHANGED <<bundle, legacy, remembered, wrapStore, user, owner, wrapKey, stored, locked,
                  abandoned, secretStore>>
  BY DEF Start, storage, memory
<1> QED BY <1>1, <1>2, <1>3, UnwrittenBacking DEF AtPlace

LEMMA StartsBacking ==
  ASSUME Typing, Smooth, Backing, AddDevice \/ ReenterPassword \/ RemoveDevice
  PROVE  Backing'
<1>1. PICK n :
        /\ Start(n) /\ wrapKey # None
        /\ \/ n.pc = "logIn" /\ n.op = "add"
           \/ n.pc = "logIn" /\ n.op = "reenter" /\ \E e \in stored : e.dev = n.dev
           \/ n.pc = "deleteSecrets"
  <2> DEFINE Begins(n) ==
        /\ Start(n) /\ wrapKey # None
        /\ \/ n.pc = "logIn" /\ n.op = "add"
           \/ n.pc = "logIn" /\ n.op = "reenter" /\ \E e \in stored : e.dev = n.dev
           \/ n.pc = "deleteSecrets"
  <2>1. ASSUME AddDevice  PROVE \E n : Begins(n)
    <3>1. PICK d, p : Start([Idle EXCEPT !.pc = "logIn", !.op = "add", !.user = user, !.dev = d, !.pw = p])
      BY <2>1, Zenon DEF AddDevice
    <3>2. PICK n : n = [Idle EXCEPT !.pc = "logIn", !.op = "add", !.user = user, !.dev = d, !.pw = p]
      OBVIOUS
    <3>3. n.op = "add" /\ n.pc = "logIn"
      BY <3>2 DEF Idle
    <3>4. wrapKey # None
      BY <2>1, Zenon DEF AddDevice
    <3> QED BY <3>1, <3>2, <3>3, <3>4
  <2>2. ASSUME ReenterPassword  PROVE \E n : Begins(n)
    <3>1. PICK d, p : /\ Start([Idle EXCEPT !.pc = "logIn", !.op = "reenter", !.dev = d, !.pw = p])
                      /\ Listed(d) # {}
      BY <2>2, Zenon DEF ReenterPassword
    <3>2. PICK n : n = [Idle EXCEPT !.pc = "logIn", !.op = "reenter", !.dev = d, !.pw = p]
      OBVIOUS
    <3>3. n.op = "reenter" /\ n.pc = "logIn" /\ n.dev = d
      BY <3>2 DEF Idle
    <3>4. PICK e \in stored : e.dev = d
      BY <3>1 DEF Listed
    <3> QED BY <3>1, <3>2, <3>3, <3>4, ListedOpen
  <2>3. ASSUME RemoveDevice  PROVE \E n : Begins(n)
    <3>1. PICK d : /\ Start([Idle EXCEPT !.pc = "deleteSecrets", !.op = "remove", !.dev = d])
                   /\ Listed(d) # {}
      BY <2>3, Zenon DEF RemoveDevice
    <3>2. PICK n : n = [Idle EXCEPT !.pc = "deleteSecrets", !.op = "remove", !.dev = d]
      OBVIOUS
    <3>3. n.pc = "deleteSecrets"
      BY <3>2 DEF Idle
    <3>4. PICK e \in stored : e.dev = d
      BY <3>1 DEF Listed
    <3> QED BY <3>1, <3>2, <3>3, <3>4, ListedOpen
  <2> QED BY <2>1, <2>2, <2>3
<1>2. Relies(n, wrapKey, stored, SealedList, secretStore)
  BY <1>1 DEF Relies
<1> QED BY <1>1, <1>2, StartBacking

LEMMA RefreshBacking ==
  ASSUME Typing, Smooth, Backing, RefreshDevice
  PROVE  Backing'
<1>1. PICK e \in stored, t \in Task : Free(t) /\ Run(t, RefreshOf(e), {})
  BY DEF RefreshDevice
<1>2. UNCHANGED <<bundle, legacy, remembered, wrapStore, user, owner, wrapKey, stored, locked,
                  abandoned, secretStore>>
  BY DEF RefreshDevice, storage, memory
<1>3. task[t].pc = "idle"
  BY <1>1 DEF Free
<1>4. PICK n : n = RefreshOf(e)
  OBVIOUS
<1>5. n.pc = "getSecrets" /\ n.op = "refresh" /\ n.dev = e.dev /\ n.pw = e.password
  BY <1>4 DEF RefreshOf, Idle
<1>6. n.pw # NoPassword => Has(SealedList, n.dev, n.pw)
  BY <1>5 DEF Backing, Agreeing, Has
<1>7. Relies(n, wrapKey, stored, SealedList, secretStore)
  BY <1>5, <1>6, ListedOpen DEF Relies
<1> QED BY <1>1, <1>2, <1>3, <1>4, <1>5, <1>7, UnwrittenBacking DEF AtPlace

(* The list is sealed.                                                     *)
LEMMA ListSealedBacking ==
  ASSUME Typing, Smooth, Backing, NEW t \in Task, ListSealed(t), ~disturbed'
  PROVE  Backing'
<1> DEFINE d == task[t].dev
           list == task[t].list
           new == [key |-> task[t].key, list |-> list]
<1>1. task[t].pc = "writeList" /\ ~task[t].late /\ NoUnseal
  BY DEF ListSealed, NoUnseal
<1>2. /\ owner \in User /\ owner # None /\ wrapKey # None
      /\ task[t].user = owner /\ task[t].key = wrapKey
  BY <1>1, InTime, DeviceListAssumption DEF HoldsList
<1>3. /\ UNCHANGED <<legacy, remembered, wrapStore, user, owner, wrapKey, locked, abandoned,
                     secretStore>>
      /\ stored' = list
      /\ bundle' = [bundle EXCEPT ![task[t].user] = new]
  BY DEF ListSealed, Kept
<1>4. SealedList' = list
  <2>1. new \in Sealed /\ new # None /\ new.key = task[t].key /\ new.list = list
    BY <1>1, SealedTypes, DeviceListAssumption
  <2>2. bundle \in [User -> Sealed \cup {None}]
    BY DEF Typing, Storage
  <2> HIDE DEF new
  <2> QED BY <1>2, <1>3, <2>1, <2>2 DEF SealedList, Content
<1>5. PICK n : Run(t, n, Holding({d})) /\ (n = Idle \/ \E e \in list : n = RefreshOf(e) /\ e.dev = d)
  BY DEF ListSealed
<1>6. /\ n.pc \in {"idle", "getSecrets"}
      /\ n.pc = "getSecrets" => n.dev = d /\ n.op = "refresh" /\ Has(list, d, n.pw)
  <2>1. CASE n = Idle
    BY <2>1 DEF Idle
  <2>2. ASSUME NEW e \in list, n = RefreshOf(e), e.dev = d
        PROVE  n.pc = "getSecrets" /\ n.dev = d /\ n.op = "refresh" /\ n.pw = e.password
    BY <2>2 DEF RefreshOf, Idle
  <2> QED BY <1>5, <2>1, <2>2 DEF Has
<1>7. /\ Relies(task[t], wrapKey, stored, SealedList, secretStore)
      /\ Carries(task[t], stored) /\ SealedList \subseteq stored
  BY <1>1, <1>2 DEF Backing, Relying, Carrying, Agreeing
<1>8. ASSUME NEW e, e # d, NEW p, Has(SealedList, e, p)  PROVE Has(list, e, p)
  BY <1>1, <1>7, <1>8 DEF Has, Carries
<1>9. ASSUME NEW x \in Task \ {t}, x \notin Holding({d}), task[x].pc # "idle"
      PROVE  task[x].dev # d /\ task[x].pc \notin {"unseal", "sealLegacy", "writeList"}
  BY <1>9 DEF Holding, InFlight, Free
<1>10. /\ task'[t] = n
       /\ \A x \in Task \ {t} :
               /\ Same(task[x], task'[x])
               /\ ~task'[x].late => x \notin Holding({d}) /\ task'[x] = task[x]
  BY <1>5, RunLeaves
<1> HIDE DEF list, new
<1>11. Relying'
  <2>1. Relies(n, wrapKey', stored', SealedList', secretStore')
    BY <1>2, <1>3, <1>4, <1>6 DEF Relies, AtDevice
  <2>2. ASSUME NEW x \in Task \ {t}, x \notin Holding({d}), ~task[x].late
        PROVE  Relies(task[x], wrapKey', stored', SealedList', secretStore')
    <3>1. Relies(task[x], wrapKey, stored, SealedList, secretStore)
      BY DEF Backing, Relying
    <3>2. CASE task[x].pc = "idle"
      BY <3>2 DEF Relies
    <3>3. CASE task[x].pc # "idle"
      <4>1. task[x].dev # d /\ task[x].pc \notin {"unseal", "sealLegacy", "writeList"}
        BY <1>9, <2>2, <3>3
      <4>2. (\E e \in stored : e.dev = task[x].dev) => \E e \in list : e.dev = task[x].dev
        BY <1>1, <1>7, <4>1 DEF Carries, list
      <4>3. Has(SealedList, task[x].dev, task[x].pw) => Has(list, task[x].dev, task[x].pw)
        BY <1>8, <4>1
      <4> HIDE DEF d
      <4> QED BY <1>3, <1>4, <3>1, <4>1, <4>2, <4>3 DEF Relies
    <3> QED BY <3>2, <3>3
  <2> QED BY <1>5, <2>1, <2>2, RelyingNext
<1>12. Agreeing'
  BY <1>3, <1>4 DEF Backing, Agreeing
<1>13. Carrying'
  <2>1. ASSUME NEW x \in Task  PROVE Carries(task'[x], stored')
    <3>1. CASE x = t
      BY <1>6, <1>10, <3>1 DEF Carries
    <3>2. CASE x # t
      BY <1>9, <1>10, <3>2 DEF Carries
    <3> QED BY <3>1, <3>2
  <2> QED BY <2>1 DEF Carrying
<1>14. NoClear' => NoClear
  <2>1. \A x \in Task : task[x].pc \in {"clearWrap", "clearSecrets"} => task'[x].pc = task[x].pc
    BY <1>1, <1>10 DEF Same
  <2> QED BY <1>3, <2>1 DEF NoClear
<1>15. \A e, p : e # d /\ PendingIn(task, e, p) => PendingIn(task', e, p)
  BY <1>5, PendingStays
<1>16. Matching'
  <2> SUFFICES ASSUME NoClear  PROVE
        /\ \A e \in Device : secretStore[e] # None => Matched(e, secretStore[e])'
        /\ \A x \in Task : task'[x].pc \in AtPlace /\ ~task'[x].late =>
             Has(list, task'[x].dev, task'[x].pw) \/ PendingIn(task', task'[x].dev, task'[x].pw)
    BY <1>3, <1>4, <1>14 DEF Matching
  <2>1. ASSUME NEW e \in Device, secretStore[e] # None  PROVE Matched(e, secretStore[e])'
    <3>1. CASE e = d
      <4>1. Has(list, e, secretStore[e])
        BY <1>1, <1>7, <2>1, <3>1 DEF Relies, list
      <4> QED BY <1>2, <1>3, <1>4, <4>1 DEF Matched
    <3>2. CASE e # d
      <4>1. Matched(e, secretStore[e])
        BY <2>1 DEF Backing, Matching
      <4>2. PendingIn(task', e, secretStore[e]) \/ Has(list, e, secretStore[e])
        BY <1>2, <1>8, <1>15, <3>2, <4>1 DEF Matched, Waiting
      <4> QED BY <1>2, <1>3, <1>4, <4>2 DEF Matched
    <3> QED BY <3>1, <3>2
  <2>2. ASSUME NEW x \in Task, task'[x].pc \in AtPlace, ~task'[x].late
        PROVE  Has(list, task'[x].dev, task'[x].pw) \/ PendingIn(task', task'[x].dev, task'[x].pw)
    <3>1. x # t
      BY <1>6, <1>10, <2>2 DEF AtPlace
    <3>2. task'[x] = task[x] /\ task[x].dev # d
      <4>1. task'[x] = task[x] /\ x \notin Holding({d})
        BY <1>10, <2>2, <3>1
      <4>2. task[x].pc # "idle"
        BY <2>2, <4>1 DEF AtPlace
      <4> QED BY <1>9, <3>1, <4>1, <4>2
    <3>3. Has(SealedList, task[x].dev, task[x].pw) \/ PendingIn(task, task[x].dev, task[x].pw)
      BY <2>2, <3>2 DEF Backing, Matching
    <3> QED BY <1>8, <1>15, <3>2, <3>3
  <2> QED BY <2>1, <2>2
<1>17. Remembering'
  <2>1. WrapCleared' => WrapCleared
    <3>1. \A x \in Task : task[x].pc = "clearWrap" => task'[x].pc = task[x].pc
      BY <1>1, <1>10 DEF Same
    <3>2. \A x \in Task : task'[x].pc = "clearSecrets" => task[x].pc = "clearSecrets"
      BY <1>6, <1>10 DEF Same
    <3> QED BY <1>3, <3>1, <3>2 DEF WrapCleared
  <2> QED BY <1>2, <1>3, <2>1 DEF Backing, Remembering
<1> QED BY <1>11, <1>12, <1>13, <1>16, <1>17 DEF Backing


(* The list is opened.  While it is not, nobody is at a device.            *)
LEMMA ClosedCalls ==
  ASSUME Typing, Smooth, Backing, owner = None, NEW x \in Task, ~task[x].late
  PROVE  task[x].pc \notin AtDevice \cup {"unseal", "sealLegacy", "writeList"}
<1>1. wrapKey = None
  BY DEF Typing, ListOpen
<1>2. task[x].pc \notin AtDevice
  BY <1>1, AtDeviceOpen
<1>3. ASSUME HoldsList(task[x])  PROVE FALSE
  <2>1. task[x].pc \notin {"idle", "clearWrap", "clearSecrets"}
    BY <1>3 DEF HoldsList
  <2>2. wrapKey # None
    BY <1>3, <2>1, InTime
  <2> QED BY <1>1, <2>2
<1> QED BY <1>2, <1>3 DEF HoldsList

(* What an opening does to the working copies and to the remembered key:   *)
(* nothing, for it opens what was open, or what they wait for.             *)
LEMMA OpensMatching ==
  ASSUME Typing, Smooth, Backing, NEW t \in Task, ~task[t].late,
         task[t].pc \in {"restore", "derive", "putWrap", "unseal"},
         NEW n, NEW over, Run(t, n, over), n.pc \in {"idle", "unlocked", "unseal", "sealLegacy"},
         NEW u \in User, NEW k, user = u, owner' = u, wrapKey' = k,
         owner = None \/ (owner = u /\ wrapKey = k),
         UNCHANGED <<bundle, user, remembered, secretStore, abandoned>>,
         WrapCleared => wrapStore'[u] \in {None, k},
         owner = None => task[t].pc \in {"derive", "putWrap"} \/ k = wrapStore[u],
         owner = None => k # None
  PROVE  Matching' /\ Remembering'
<1>1. u # None
  BY DeviceListAssumption
<1>2. /\ task'[t] = n
      /\ \A x \in Task \ {t} :
              /\ Same(task[x], task'[x])
              /\ ~task'[x].late => x \notin over /\ task'[x] = task[x]
  BY RunLeaves
<1>3. SealedList' = Content(bundle, u, k) /\ (owner # None => SealedList = Content(bundle, u, k))
  BY DEF SealedList
<1>4. NoClear' => NoClear
  <2>1. \A x \in Task : task[x].pc \in {"clearWrap", "clearSecrets"} => task'[x].pc = task[x].pc
    BY <1>2 DEF Same
  <2> QED BY <2>1 DEF NoClear
<1>5. \A d, p : PendingIn(task, d, p) => PendingIn(task', d, p)
  BY PendingStays
<1>6. Matching'
  <2> SUFFICES ASSUME NoClear  PROVE
        /\ \A d \in Device : secretStore[d] # None => Matched(d, secretStore[d])'
        /\ \A x \in Task : task'[x].pc \in AtPlace /\ ~task'[x].late =>
             \/ Has(Content(bundle, u, k), task'[x].dev, task'[x].pw)
             \/ PendingIn(task', task'[x].dev, task'[x].pw)
    BY <1>3, <1>4 DEF Matching
  <2>1. ASSUME NEW d \in Device, secretStore[d] # None  PROVE Matched(d, secretStore[d])'
    <3>1. Matched(d, secretStore[d])
      BY <2>1 DEF Backing, Matching
    <3>2. PendingIn(task', d, secretStore[d]) \/ Has(Content(bundle, u, k), d, secretStore[d])
      <4>1. CASE owner # None
        BY <1>3, <1>5, <3>1, <4>1 DEF Matched, Waiting
      <4>2. CASE owner = None
        <5>1. CASE task[t].pc \in {"derive", "putWrap"}
          <6>1. Deriving
            BY <5>1 DEF Deriving
          <6> QED BY <1>5, <3>1, <4>2, <6>1 DEF Matched, Waiting
        <5>2. CASE k = wrapStore[u]
          BY <1>5, <3>1, <4>2, <5>2 DEF Matched, Waiting
        <5> QED BY <4>2, <5>1, <5>2
      <4> QED BY <4>1, <4>2
    <3> QED BY <1>1, <1>3, <3>2 DEF Matched
  <2>2. ASSUME NEW x \in Task, task'[x].pc \in AtPlace, ~task'[x].late
        PROVE  \/ Has(Content(bundle, u, k), task'[x].dev, task'[x].pw)
               \/ PendingIn(task', task'[x].dev, task'[x].pw)
    <3>1. x # t
      BY <1>2, <2>2 DEF AtPlace
    <3>2. task'[x] = task[x]
      BY <1>2, <2>2, <3>1
    <3>3. owner # None
      BY <2>2, <3>2, AtDeviceOpen DEF AtPlace, AtDevice
    <3> QED BY <1>3, <1>5, <2>2, <3>2, <3>3 DEF Backing, Matching
  <2> QED BY <2>1, <2>2
<1>7. Remembering'
  <2>1. WrapCleared' => WrapCleared
    <3>1. \A x \in Task : task[x].pc = "clearWrap" => task'[x].pc = task[x].pc
      BY <1>2 DEF Same
    <3>2. \A x \in Task : task'[x].pc = "clearSecrets" => task[x].pc = "clearSecrets"
      BY <1>2 DEF Same
    <3> QED BY <3>1, <3>2 DEF WrapCleared
  <2> QED BY <1>1, <2>1 DEF Backing, Remembering
<1> QED BY <1>6, <1>7

LEMMA OpenedBacking ==
  ASSUME Typing, Smooth, Backing, NEW t \in Task, ~task[t].late,
         task[t].pc \in {"restore", "derive", "putWrap", "unseal"},
         NEW c, Opens(c), ~c.late, user = c.user, owner' = c.user, wrapKey' = c.key,
         owner = None \/ (owner = c.user /\ wrapKey = c.key),
         UNCHANGED <<bundle, user, remembered, secretStore, abandoned>>,
         WrapCleared => wrapStore'[c.user] \in {None, c.key},
         owner = None => task[t].pc \in {"derive", "putWrap"} \/ c.key = wrapStore[c.user],
         NEW list, list = Content(bundle, c.user, c.key), Opened(t, c, list)
  PROVE  Backing'
<1> DEFINE joining == {d \in legacy : \A e \in list : e.dev # d}
           all == list \cup {[dev |-> d, password |-> NoPassword, by |-> c.user] : d \in joining}
<1>1. c \in TaskState /\ c.user \in User /\ c.user # None /\ c.key # None
  BY DeviceListAssumption DEF Opens
<1>2. stored' = all /\ SealedList' = list /\ (owner # None => SealedList = list)
  BY DEF Opened, SealedList
<1>3. /\ list \subseteq all
      /\ \A e \in all : e \in list \/ (e.password = NoPassword /\ e.dev \in joining)
      /\ \A d \in legacy : \E e \in all : e.dev = d
  <2>1. list \subseteq all
    OBVIOUS
  <2>2. ASSUME NEW e \in all  PROVE e \in list \/ (e.password = NoPassword /\ e.dev \in joining)
    <3>1. CASE \E d \in joining : e = [dev |-> d, password |-> NoPassword, by |-> c.user]
      BY <3>1
    <3> QED BY <2>2, <3>1
  <2>3. ASSUME NEW d \in legacy  PROVE \E e \in all : e.dev = d
    <3>1. CASE d \in joining
      <4>1. PICK e : e = [dev |-> d, password |-> NoPassword, by |-> c.user]
        OBVIOUS
      <4>2. e \in all /\ e.dev = d
        BY <3>1, <4>1
      <4> QED BY <4>2
    <3>2. CASE d \notin joining
      <4>1. PICK e \in list : e.dev = d
        BY <3>2
      <4> QED BY <4>1
    <3> QED BY <3>1, <3>2
  <2> QED BY <2>1, <2>2, <2>3
<1>4. PICK n :
        /\ Run(t, n, Holding({}))
        /\ \/ /\ n.pc \in {"idle", "unlocked"} /\ joining = {}
              /\ legacy' = {} /\ locked' = FALSE
           \/ /\ n.pc = "sealLegacy" /\ n.list = all /\ joining # {}
              /\ UNCHANGED <<legacy, locked>>
  <2>1. CASE joining = {} /\ Show(t, c)
    <3>1. PICK n : n = IF c.op = "unlock" THEN [Idle EXCEPT !.pc = "unlocked", !.op = "unlock"] ELSE Idle
      OBVIOUS
    <3>2. n.pc \in {"idle", "unlocked"}
      BY <3>1 DEF Idle
    <3> QED BY <2>1, <3>1, <3>2 DEF Show
  <2>2. CASE /\ joining # {}
             /\ Run(t, [c EXCEPT !.pc = "sealLegacy", !.list = all], Holding({}))
             /\ UNCHANGED <<legacy, locked>>
    <3> HIDE DEF joining, all
    <3>1. PICK n : n = [c EXCEPT !.pc = "sealLegacy", !.list = all]
      OBVIOUS
    <3>2. n.pc = "sealLegacy" /\ n.list = all
      BY <1>1, <3>1 DEF TaskState
    <3> QED BY <2>2, <3>1, <3>2
  <2> QED BY <2>1, <2>2 DEF Opened
<1> HIDE DEF joining, all
<1>5. /\ task'[t] = n
      /\ \A x \in Task \ {t} : ~task'[x].late => x \notin Holding({}) /\ task'[x] = task[x]
  BY <1>4, RunLeaves
<1>6. \A x \in Task : x \notin Holding({}) => task[x].pc \notin {"unseal", "sealLegacy", "writeList"}
  BY DEF Holding, InFlight, Free
<1>7. Relying'
  <2>1. Relies(n, wrapKey', stored', SealedList', secretStore')
    BY <1>2, <1>3, <1>4 DEF Relies, AtDevice
  <2>2. ASSUME NEW x \in Task \ {t}, x \notin Holding({}), ~task[x].late
        PROVE  Relies(task[x], wrapKey', stored', SealedList', secretStore')
    <3>1. task[x].pc \notin {"unseal", "sealLegacy", "writeList"}
      BY <1>6, <2>2
    <3>2. CASE owner = None
      <4>1. task[x].pc \notin AtDevice
        BY <2>2, <3>2, ClosedCalls
      <4> QED BY <3>1, <4>1, IdleRelies
    <3>3. CASE owner # None
      <4>1. Relies(task[x], wrapKey, stored, SealedList, secretStore)
        BY DEF Backing, Relying
      <4>2. \A d : (\E e \in stored : e.dev = d) => \E e \in stored' : e.dev = d
        BY <1>2, <1>3, <3>3 DEF Backing, Agreeing
      <4> QED BY <1>2, <3>1, <3>3, <4>1, <4>2 DEF Relies
    <3> QED BY <3>2, <3>3
  <2> QED BY <1>4, <2>1, <2>2, RelyingNext
<1>8. Agreeing'
  <2>1. ~locked' => stored' = SealedList' /\ legacy' = {}
    <3>1. CASE joining = {}
      <4>1. all = list
        BY <1>3, <3>1
      <4> QED BY <1>2, <1>4, <3>1, <4>1
    <3>2. CASE joining # {}
      <4>1. legacy # {} /\ locked' = locked
        BY <1>4, <3>2 DEF joining
      <4> QED BY <4>1 DEF Backing, Agreeing
    <3> QED BY <3>1, <3>2
  <2>2. \A e \in stored' : e \in SealedList' \/ (e.password = NoPassword /\ e.dev \in legacy')
    <3>1. joining \subseteq legacy
      BY DEF joining
    <3> QED BY <1>2, <1>3, <1>4, <3>1
  <2> QED BY <1>2, <1>3, <2>1, <2>2 DEF Agreeing
<1>9. Carrying'
  <2>1. ASSUME NEW x \in Task  PROVE Carries(task'[x], stored')
    <3>1. CASE x = t
      BY <1>4, <1>5, <3>1 DEF Carries
    <3>2. CASE x # t
      BY <1>5, <1>6, <3>2 DEF Carries
    <3> QED BY <3>1, <3>2
  <2> QED BY <2>1 DEF Carrying
<1>10. Matching' /\ Remembering'
  <2>1. n.pc \in {"idle", "unlocked", "unseal", "sealLegacy"}
    BY <1>4
  <2> QED BY <1>1, <1>4, <2>1, OpensMatching
<1> QED BY <1>7, <1>8, <1>9, <1>10 DEF Backing


LEMMA OpenListBacking ==
  ASSUME Typing, Smooth, Backing, NEW t \in Task, task[t].pc \in {"restore", "derive", "putWrap"},
         NEW c, Opens(c), OpenList(t, c), c.user = task[t].user, c.late = task[t].late, ~disturbed',
         UNCHANGED <<bundle, user, remembered, secretStore, abandoned>>,
         WrapCleared /\ ~task[t].late => wrapStore'[c.user] \in {None, c.key},
         owner = None => task[t].pc \in {"derive", "putWrap"} \/ c.key = wrapStore[c.user]
  PROVE  Backing'
<1>1. ~task[t].late /\ ~c.late /\ wrapKey \in {None, c.key}
  BY DEF OpenList
<1>2. user = c.user
  BY <1>1, InTime DEF ForUser
<1>3. /\ c.user \in User /\ c.key \in Key /\ c.user # None /\ c.key # None
      /\ owner' = c.user /\ wrapKey' = c.key
  BY DeviceListAssumption DEF OpenList, Opens
<1>4. owner = None \/ (owner = c.user /\ wrapKey = c.key)
  BY <1>1, <1>2, DeviceListAssumption DEF Smooth, Own, Typing, ListOpen
<1> DEFINE list == Content(bundle, c.user, c.key)
<1>5. CASE bundle[c.user] = None /\ Opened(t, c, {})
  <2>1. {} = list
    BY <1>5 DEF Content
  <2> QED BY <1>1, <1>2, <1>3, <1>4, <1>5, <2>1, OpenedBacking
<1>6. CASE /\ Run(t, [c EXCEPT !.pc = "unseal", !.list = list], {})
           /\ UNCHANGED <<legacy, stored, locked, needsLogin>>
  <2> HIDE DEF list
  <2>1. PICK n : n = [c EXCEPT !.pc = "unseal", !.list = list]
    OBVIOUS
  <2>2. n.pc = "unseal"
    BY <2>1 DEF Opens, TaskState
  <2>3. Run(t, n, {})
    BY <1>6, <2>1
  <2>4. task'[t] = n
    BY <2>3, RunLeaves
  <2>5. owner # None => wrapKey' = wrapKey /\ SealedList' = SealedList
    BY <1>3, <1>4 DEF SealedList
  <2>6. Relying'
    <3>1. Relies(n, wrapKey', stored', SealedList', secretStore')
      BY <2>2 DEF Relies, AtDevice
    <3>2. ASSUME NEW x \in Task \ {t}, ~task[x].late
          PROVE  Relies(task[x], wrapKey', stored', SealedList', secretStore')
      <4>1. CASE owner = None
        <5>1. task[x].pc \notin AtDevice \cup {"unseal", "sealLegacy", "writeList"}
          BY <3>2, <4>1, ClosedCalls
        <5> QED BY <5>1, IdleRelies
      <4>2. CASE owner # None
        BY <1>6, <2>5, <4>2 DEF Backing, Relying
      <4> QED BY <4>1, <4>2
    <3> QED BY <2>3, <3>1, <3>2, RelyingNext
  <2>7. ~NoUnseal'
    BY <2>2, <2>4 DEF NoUnseal
  <2>8. Agreeing'
    <3>1. owner = None => stored = {} /\ locked
      BY DEF Smooth, Own
    <3> QED BY <1>6, <2>5, <2>7, <3>1 DEF Backing, Agreeing
  <2>9. Carrying'
    BY <2>7 DEF Carrying
  <2>10. Matching' /\ Remembering'
    BY <1>1, <1>2, <1>3, <1>4, <2>2, <2>3, OpensMatching
  <2> QED BY <2>6, <2>8, <2>9, <2>10 DEF Backing
<1> QED BY <1>5, <1>6 DEF OpenList, Content

LEMMA OpeningBacking ==
  ASSUME Typing, Smooth, Backing, NEW t \in Task, ~disturbed',
         RestoreFamily(t) \/ UnlockFamily(t) \/ PutWrap(t)
  PROVE  Backing'
<1> DEFINE c == task[t]
<1>1. c \in TaskState /\ Fits(c) /\ c.pc \in {"restore", "derive", "putWrap"} /\ c.user \in User
  BY DEF RestoreFamily, UnlockFamily, PutWrap, Typing, Calls, Fits
<1>2. UNCHANGED <<bundle, user, remembered, secretStore, abandoned>>
  BY DEF RestoreFamily, UnlockFamily, PutWrap
<1>3. ~c.late => c.user = user /\ (owner # None => owner = user)
  BY <1>1, InTime DEF ForUser, Smooth, Own
<1>4. wrapStore \in [User -> Key \cup {None}]
  BY DEF Typing, Storage
<1>5. CASE RestoreFamily(t)
  <2>1. ASSUME NEW key, key = wrapStore[c.user], key # None, OpenList(t, [c EXCEPT !.key = key])
        PROVE  Backing'
    <3>1. PICK n : n = [c EXCEPT !.key = key]
      OBVIOUS
    <3>2. Opens(n) /\ OpenList(t, n) /\ wrapStore' = wrapStore
      BY <1>5, <2>1, <3>1, HasKey DEF RestoreFamily
    <3> HIDE DEF c
    <3>3. n.user = c.user /\ n.late = c.late /\ n.key = key
      BY <1>1, <3>1 DEF TaskState
    <3> QED BY <1>1, <1>2, <2>1, <3>2, <3>3, OpenListBacking DEF c
  <2>2. CASE Done(t) /\ UNCHANGED <<legacy, owner, wrapKey, stored, locked>>
    <3>1. Run(t, Idle, {}) /\ UNCHANGED wrapStore
      BY <1>5, <2>2 DEF Done, RestoreFamily
    <3> QED BY <1>1, <1>2, <2>2, <3>1, EndBacking
  <2> QED BY <1>5, <2>1, <2>2 DEF RestoreFamily
<1>6. CASE UnlockFamily(t)
  <2>1. c.pc = "derive" /\ wrapStore' = wrapStore
    BY <1>6 DEF UnlockFamily
  <2>2. CASE OpenList(t, c)
    <3>1. Opens(c)
      BY <1>6, HasKey DEF UnlockFamily
    <3>2. ~c.late => wrapKey \in {None, c.key}
      BY <2>2 DEF OpenList
    <3>3. ~c.late => Deriving
      BY <2>1 DEF Deriving
    <3>4. WrapCleared /\ ~c.late => wrapStore[c.user] \in {None, c.key}
      <4>1. CASE owner = None
        BY <1>1, <3>3, <4>1 DEF Backing, Remembering
      <4>2. CASE owner # None
        <5>1. wrapKey # None
          BY <4>2, DeviceListAssumption DEF Typing, ListOpen
        <5> QED BY <1>3, <3>2, <4>2, <5>1 DEF Backing, Remembering
      <4> QED BY <4>1, <4>2
    <3> QED BY <1>1, <1>2, <2>1, <2>2, <3>1, <3>4, OpenListBacking
  <2>3. CASE Wait(t, "putWrap") /\ UNCHANGED <<legacy, owner, wrapKey, stored, locked>>
    <3>1. PICK n : n = [c EXCEPT !.pc = "putWrap"]
      OBVIOUS
    <3>2. Run(t, n, {})
      BY <2>3, <3>1 DEF Wait
    <3>3. n.pc = "putWrap" /\ n.late = c.late
      BY <1>1, <3>1, Names, Moved
    <3>4. Relies(n, wrapKey, stored, SealedList, secretStore)
      BY <3>3, IdleRelies DEF AtDevice
    <3> QED BY <1>2, <2>1, <2>3, <3>2, <3>3, <3>4, UnwrittenBacking DEF AtPlace
  <2> QED BY <1>6, <2>2, <2>3 DEF UnlockFamily
<1>7. CASE PutWrap(t)
  <2>1. PICK n : n = [c EXCEPT !.remember = FALSE]
    OBVIOUS
  <2>2. /\ Opens(n) /\ OpenList(t, n) /\ c.pc = "putWrap"
        /\ wrapStore' = [wrapStore EXCEPT ![c.user] = c.key]
    BY <1>7, <2>1, HasKey DEF PutWrap
  <2> HIDE DEF c
  <2>3. n.user = c.user /\ n.late = c.late /\ n.key = c.key
    BY <1>1, <2>1 DEF TaskState
  <2>4. wrapStore'[n.user] = n.key
    BY <1>1, <1>4, <2>2, <2>3
  <2> QED BY <1>1, <1>2, <2>2, <2>3, <2>4, OpenListBacking DEF c
<1> QED BY <1>5, <1>6, <1>7

LEMMA UnsealBacking ==
  ASSUME Typing, Smooth, Backing, NEW t \in Task, Unseal(t), ~disturbed'
  PROVE  Backing'
<1> DEFINE c == task[t]
<1>1. c.pc = "unseal" /\ ~c.late /\ Opens(c)
  BY HasKey DEF Unseal, Disturb
<1>2. owner = user /\ owner # None /\ c.user = owner /\ c.key = wrapKey
  BY <1>1, InTime, DeviceListAssumption DEF HoldsList
<1>3. c.list = Content(bundle, c.user, c.key)
  <2>1. Follows(c, user, owner, wrapKey, stored, bundle)
    BY DEF Smooth, Following
  <2> QED BY <1>1, <1>2, <2>1 DEF Follows
<1>4. /\ UNCHANGED <<owner, wrapKey, bundle, user, remembered, wrapStore, secretStore, abandoned>>
      /\ Opened(t, c, c.list)
  BY DEF Unseal
<1>5. WrapCleared => wrapStore'[c.user] \in {None, c.key}
  BY <1>2, <1>4 DEF Backing, Remembering
<1> HIDE DEF c
<1>6. task[t].pc = "unseal" /\ ~task[t].late
  BY <1>1 DEF c
<1> QED BY <1>1, <1>2, <1>3, <1>4, <1>5, <1>6, OpenedBacking

LEMMA SealLegacyBacking ==
  ASSUME Typing, Smooth, Backing, NEW t \in Task, SealLegacy(t), ~disturbed'
  PROVE  Backing'
<1> DEFINE list == task[t].list
           new == [key |-> task[t].key, list |-> list]
<1>1. task[t].pc = "sealLegacy" /\ ~task[t].late
  BY DEF SealLegacy, Disturb
<1>2. /\ owner \in User /\ owner # None /\ owner = user
      /\ task[t].user = owner /\ task[t].key = wrapKey
  BY <1>1, InTime, DeviceListAssumption DEF HoldsList
<1>3. stored = list /\ SealedList \subseteq list
  <2>1. Follows(task[t], user, owner, wrapKey, stored, bundle)
        /\ Relies(task[t], wrapKey, stored, SealedList, secretStore)
    BY DEF Smooth, Following, Backing, Relying
  <2> QED BY <1>1, <2>1 DEF Follows, Relies
<1>4. PICK n : n = IF task[t].op = "unlock" THEN [Idle EXCEPT !.pc = "unlocked", !.op = "unlock"] ELSE Idle
  OBVIOUS
<1>5. n.pc \in {"idle", "unlocked"}
  BY <1>4 DEF Idle
<1>6. /\ Run(t, n, Holding({})) /\ legacy' = {} /\ locked' = FALSE
      /\ UNCHANGED <<remembered, wrapStore, secretStore, user, owner, wrapKey, stored, abandoned>>
      /\ bundle' = [bundle EXCEPT ![task[t].user] = new]
  BY <1>4 DEF SealLegacy, Show
<1>7. SealedList' = list
  <2>1. new \in Sealed /\ new # None /\ new.key = task[t].key /\ new.list = list
    BY <1>1, SealedTypes, DeviceListAssumption
  <2>2. bundle \in [User -> Sealed \cup {None}]
    BY DEF Typing, Storage
  <2> HIDE DEF new
  <2> QED BY <1>2, <1>6, <2>1, <2>2 DEF SealedList, Content
<1>8. \A d, p : Has(SealedList, d, p) => Has(list, d, p)
  BY <1>3 DEF Has
<1> HIDE DEF list, new
<1>9. /\ task'[t] = n
      /\ \A x \in Task \ {t} :
              /\ Same(task[x], task'[x])
              /\ ~task'[x].late => x \notin Holding({}) /\ task'[x] = task[x]
  BY <1>6, RunLeaves
<1>10. \A x \in Task : x \notin Holding({}) => task[x].pc \notin {"unseal", "sealLegacy", "writeList"}
  BY DEF Holding, InFlight, Free
<1>11. Relying'
  <2>1. Relies(n, wrapKey', stored', SealedList', secretStore')
    BY <1>5 DEF Relies, AtDevice
  <2>2. ASSUME NEW x \in Task \ {t}, x \notin Holding({}), ~task[x].late
        PROVE  Relies(task[x], wrapKey', stored', SealedList', secretStore')
    <3>1. Relies(task[x], wrapKey, stored, SealedList, secretStore)
      BY DEF Backing, Relying
    <3> QED BY <1>6, <1>7, <1>8, <1>10, <2>2, <3>1 DEF Relies
  <2> QED BY <1>6, <2>1, <2>2, RelyingNext
<1>12. Agreeing'
  BY <1>3, <1>6, <1>7 DEF Agreeing
<1>13. Carrying'
  <2>1. ASSUME NEW x \in Task  PROVE Carries(task'[x], stored')
    <3>1. CASE x = t
      BY <1>5, <1>9, <3>1 DEF Carries
    <3>2. CASE x # t
      BY <1>9, <1>10, <3>2 DEF Carries
    <3> QED BY <3>1, <3>2
  <2> QED BY <2>1 DEF Carrying
<1>14. NoClear' => NoClear
  <2>1. \A x \in Task : task[x].pc \in {"clearWrap", "clearSecrets"} => task'[x].pc = task[x].pc
    BY <1>1, <1>9 DEF Same
  <2> QED BY <1>6, <2>1 DEF NoClear
<1>15. \A d, p : PendingIn(task, d, p) => PendingIn(task', d, p)
  BY <1>1, <1>6, PendingStays
<1>16. Matching'
  <2> SUFFICES ASSUME NoClear  PROVE
        /\ \A d \in Device : secretStore[d] # None => Matched(d, secretStore[d])'
        /\ \A x \in Task : task'[x].pc \in AtPlace /\ ~task'[x].late =>
             Has(list, task'[x].dev, task'[x].pw) \/ PendingIn(task', task'[x].dev, task'[x].pw)
    BY <1>6, <1>7, <1>14 DEF Matching
  <2>1. ASSUME NEW d \in Device, secretStore[d] # None  PROVE Matched(d, secretStore[d])'
    <3>1. Matched(d, secretStore[d])
      BY <2>1 DEF Backing, Matching
    <3> QED BY <1>2, <1>6, <1>7, <1>8, <1>15, <3>1 DEF Matched, Waiting
  <2>2. ASSUME NEW x \in Task, task'[x].pc \in AtPlace, ~task'[x].late
        PROVE  Has(list, task'[x].dev, task'[x].pw) \/ PendingIn(task', task'[x].dev, task'[x].pw)
    <3>1. x # t
      BY <1>5, <1>9, <2>2 DEF AtPlace
    <3>2. task'[x] = task[x]
      BY <1>9, <2>2, <3>1
    <3>3. Has(SealedList, task[x].dev, task[x].pw) \/ PendingIn(task, task[x].dev, task[x].pw)
      BY <2>2, <3>2 DEF Backing, Matching
    <3> QED BY <1>8, <1>15, <3>2, <3>3
  <2> QED BY <2>1, <2>2
<1>17. Remembering'
  <2>1. WrapCleared' => WrapCleared
    <3>1. \A x \in Task : task[x].pc = "clearWrap" => task'[x].pc = task[x].pc
      BY <1>1, <1>9 DEF Same
    <3>2. \A x \in Task : task'[x].pc = "clearSecrets" => task[x].pc = "clearSecrets"
      BY <1>5, <1>9 DEF Same
    <3> QED BY <1>6, <3>1, <3>2 DEF WrapCleared
  <2> QED BY <1>2, <1>6, <2>1 DEF Backing, Remembering
<1> QED BY <1>11, <1>12, <1>13, <1>16, <1>17 DEF Backing


(* Logging in and out.                                                     *)
LEMMA LockBacking ==
  ASSUME Typing, Backing, LockFamily, NEW t \in Task, NEW op \in {"lock", "forget"},
         Run(t, [Idle EXCEPT !.pc = "clearWrap", !.op = op], InFlight),
         remembered' \in {None, user'}
  PROVE  Backing'
<1>1. PICK n : n = [Idle EXCEPT !.pc = "clearWrap", !.op = op]
  OBVIOUS
<1>2. n.pc = "clearWrap"
  BY <1>1 DEF Idle
<1>3. Run(t, n, InFlight)
  BY <1>1
<1>4. /\ task'[t] = n
      /\ \A x \in Task \ {t} : ~task'[x].late => x \notin InFlight /\ task'[x] = task[x]
  BY <1>3, RunLeaves
<1>5. \A x \in Task : x \notin InFlight => task[x].pc = "idle"
  BY DEF InFlight, Free
<1>6. Relying'
  <2>1. Relies(n, wrapKey', stored', SealedList', secretStore')
    BY <1>2, IdleRelies DEF AtDevice
  <2>2. \A x \in Task \ {t} : x \notin InFlight /\ ~task[x].late =>
          Relies(task[x], wrapKey', stored', SealedList', secretStore')
    BY <1>5 DEF Relies
  <2> QED BY <1>3, <2>1, <2>2, RelyingNext
<1>7. Agreeing'
  BY DEF LockFamily, Agreeing
<1>8. Carrying'
  <2>1. ASSUME NEW x \in Task  PROVE Carries(task'[x], stored')
    <3>1. CASE x = t
      BY <1>2, <1>4, <3>1 DEF Carries
    <3>2. CASE x # t
      BY <1>4, <1>5, <3>2 DEF Carries
    <3> QED BY <3>1, <3>2
  <2> QED BY <2>1 DEF Carrying
<1>9. ~NoClear' /\ ~WrapCleared'
  BY <1>2, <1>4 DEF NoClear, WrapCleared
<1>10. Matching' /\ Remembering'
  BY <1>9 DEF Matching, Remembering
<1> QED BY <1>6, <1>7, <1>8, <1>10 DEF Backing

LEMMA LogoutBacking ==
  ASSUME Typing, Backing, Logout \/ ForgetAllDevices
  PROVE  Backing'
<1>1. LockFamily
  BY DEF Logout, ForgetAllDevices
<1>2. PICK t \in Task, op \in {"lock", "forget"} :
        Run(t, [Idle EXCEPT !.pc = "clearWrap", !.op = op], InFlight)
  BY DEF Logout, ForgetAllDevices
<1>3. remembered' \in {None, user'}
  BY DEF Logout, ForgetAllDevices, Backing, Remembering
<1> QED BY <1>1, <1>2, <1>3, LockBacking

(* A session that is not remembered is like one that never was.            *)
LEMMA ForgetSessionBacking ==
  ASSUME Typing, Backing, ForgetSession
  PROVE  Backing'
<1>1. UNCHANGED <<bundle, legacy, wrapStore, secretStore, memory, task, abandoned>> /\ remembered' = None
  BY DEF ForgetSession
<1>2. SealedList' = SealedList
  BY <1>1 DEF memory, SealedList
<1>3. Relying' /\ Agreeing' /\ Carrying'
  BY <1>1, <1>2 DEF memory, Backing, Relying, Agreeing, NoUnseal, Carrying
<1>4. Matching'
  <2>1. NoClear' => NoClear
    BY <1>1 DEF NoClear
  <2>2. \A d, p : Matched(d, p) => Matched(d, p)'
    BY <1>1, <1>2 DEF memory, Matched, Waiting, Deriving
  <2>3. UNCHANGED <<secretStore, task>> /\ \A d, p : PendingIn(task, d, p)' = PendingIn(task, d, p)
    BY <1>1 DEF PendingIn
  <2> QED BY <1>2, <2>1, <2>2, <2>3 DEF Backing, Matching
<1>5. Remembering'
  BY <1>1 DEF ForgetSession, memory, Backing, Remembering, WrapCleared, Deriving
<1> QED BY <1>3, <1>4, <1>5 DEF Backing

LEMMA LoginBacking ==
  ASSUME Typing, Smooth, Backing, NEW u \in User, Login(u)
  PROVE  Backing'
<1>1. PICK t1 \in Task, t2 \in Task, k \in OwnPassword, remember \in BOOLEAN :
        /\ Free(t1) /\ Free(t2) /\ (t1 = t2 => wrapStore[u] = None)
        /\ remembered' = IF remember THEN u ELSE remembered
        /\ task' = [task EXCEPT
             ![t1] = Restoring(u),
             ![t2] = [Idle EXCEPT !.pc = "derive", !.op = "unlock", !.user = u,
                        !.key = [user |-> u, password |-> k], !.remember = remember]]
  BY Zenon DEF Login
<1>2. /\ user = None /\ user' = u /\ u # None
      /\ UNCHANGED <<bundle, legacy, wrapStore, secretStore, owner, wrapKey, stored, locked,
                     abandoned>>
  BY DeviceListAssumption DEF Login
<1>3. PICK n : n = [Idle EXCEPT !.pc = "derive", !.op = "unlock", !.user = u,
                      !.key = [user |-> u, password |-> k], !.remember = remember]
  OBVIOUS
<1>4. n.pc = "derive"
  BY <1>3 DEF Idle
<1>5. PICK r : r = Restoring(u)
  OBVIOUS
<1>6. r.pc \in {"idle", "restore"}
  <2>1. PICK q : q = [Idle EXCEPT !.pc = "restore", !.op = "restore", !.user = u]
    OBVIOUS
  <2>2. q.pc = "restore" /\ Idle.pc = "idle"
    BY <2>1 DEF Idle
  <2> QED BY <1>5, <2>1, <2>2 DEF Restoring
<1>7. task' = [task EXCEPT ![t1] = r, ![t2] = n]
  BY <1>1, <1>3, <1>5
<1>8. task[t1].pc = "idle" /\ task[t2].pc = "idle" /\ task \in [Task -> TaskState]
  BY <1>1 DEF Free, Typing, Calls
<1>9. \A x \in Task : task'[x] = task[x] \/ (task[x].pc = "idle" /\ task'[x] \in {r, n})
  BY <1>7, <1>8
<1>10. \A x \in Task : task[x].pc # "idle" => task'[x] = task[x]
  BY <1>7, <1>8
<1>11. SealedList' = SealedList
  BY <1>2 DEF SealedList
<1>12. Relying'
  <2>1. \A x \in Task : Relies(task'[x], wrapKey, stored, SealedList, secretStore)
    <3>1. /\ Relies(r, wrapKey, stored, SealedList, secretStore)
          /\ Relies(n, wrapKey, stored, SealedList, secretStore)
      BY <1>4, <1>6, IdleRelies DEF AtDevice
    <3> QED BY <1>9, <3>1 DEF Backing, Relying
  <2> QED BY <1>2, <1>11, <2>1 DEF Relying
<1>13. Agreeing'
  <2>1. NoUnseal' => NoUnseal
    <3>1. \A x \in Task : task[x].pc = "unseal" => task'[x].pc = "unseal"
      BY <1>10
    <3> QED BY <3>1 DEF NoUnseal
  <2> QED BY <1>2, <1>11, <2>1 DEF Backing, Agreeing
<1>14. Carrying'
  <2>1. owner = None
    BY <1>2 DEF Smooth, Own
  <2>2. ASSUME NEW x \in Task  PROVE Carries(task'[x], stored')
    <3>1. CASE task'[x] \in {r, n}
      BY <1>4, <1>6, <3>1 DEF Carries
    <3>2. CASE task'[x] = task[x]
      BY <2>1, <3>2, ClosedCalls DEF Carries
    <3> QED BY <1>9, <3>1, <3>2
  <2> QED BY <2>2 DEF Carrying
<1>15. /\ NoClear' => NoClear
       /\ WrapCleared' => WrapCleared
  <2>1. \A x \in Task : task[x].pc \in {"clearWrap", "clearSecrets"} => task'[x].pc = task[x].pc
    BY <1>10
  <2>2. \A x \in Task : task'[x].pc = "clearSecrets" => task[x].pc = "clearSecrets"
    BY <1>4, <1>6, <1>9
  <2> QED BY <1>2, <2>1, <2>2 DEF NoClear, WrapCleared
<1>16. Matching'
  <2> SUFFICES ASSUME NoClear  PROVE
        /\ \A d \in Device : secretStore[d] = None
        /\ \A x \in Task : task'[x].pc \in AtPlace => task'[x].late
    BY <1>2, <1>15 DEF Matching
  <2>1. \A d \in Device : secretStore[d] = None
    BY <1>2 DEF NoClear, Smooth, Clearing
  <2>2. ASSUME NEW x \in Task, task'[x].pc \in AtPlace  PROVE task'[x].late
    <3>1. task'[x] = task[x]
      BY <1>4, <1>6, <1>9, <2>2 DEF AtPlace
    <3>2. task[x].pc \notin {"idle", "clearWrap", "clearSecrets"}
      BY <2>2, <3>1 DEF AtPlace
    <3> QED BY <1>2, <3>1, <3>2, InTime
  <2> QED BY <2>1, <2>2
<1>17. Remembering'
  <2>1. remembered' \in {None, user'}
    BY <1>1, <1>2 DEF Backing, Remembering
  <2>2. owner = None
    BY <1>2 DEF Smooth, Own
  <2>3. WrapCleared => \A v \in User : wrapStore[v] = None
    BY <1>2 DEF WrapCleared, Smooth, Clearing
  <2> QED BY <1>2, <1>15, <2>1, <2>2, <2>3 DEF Remembering
<1> QED BY <1>12, <1>13, <1>14, <1>16, <1>17 DEF Backing

LEMMA ClearWrapBacking ==
  ASSUME Typing, Backing, NEW t \in Task, ClearWrap(t)
  PROVE  Backing'
<1>1. PICK n : n = [task[t] EXCEPT !.pc = "clearSecrets"]
  OBVIOUS
<1>2. task[t] \in TaskState /\ task[t].pc = "clearWrap"
  BY DEF ClearWrap, Typing, Calls
<1>3. n.pc = "clearSecrets"
  BY <1>1, <1>2, Names, Moved
<1>4. Run(t, n, {})
  BY <1>1 DEF ClearWrap, Wait
<1>5. /\ UNCHANGED <<bundle, legacy, remembered, secretStore, user, owner, wrapKey, stored, locked>>
      /\ \A u \in User : wrapStore'[u] = None
  BY DEF ClearWrap, memory
<1>6. /\ task'[t] = n
      /\ \A x \in Task \ {t} :
           Same(task[x], task'[x]) /\ (~task'[x].late => task'[x] = task[x])
  BY <1>4, RunLeaves
<1>7. SealedList' = SealedList
  BY <1>5 DEF SealedList
<1>8. Relying'
  <2>1. Relies(n, wrapKey', stored', SealedList', secretStore')
    BY <1>3, IdleRelies DEF AtDevice
  <2>2. \A x \in Task \ {t} : Relies(task[x], wrapKey', stored', SealedList', secretStore')
    BY <1>5, <1>7 DEF Backing, Relying
  <2> QED BY <1>4, <2>1, <2>2, RelyingNext
<1>9. NoUnseal' => NoUnseal
  <2>1. \A x \in Task : task[x].pc = "unseal" => task'[x].pc = "unseal"
    BY <1>2, <1>6 DEF Same
  <2> QED BY <2>1 DEF NoUnseal
<1>10. Agreeing'
  BY <1>5, <1>7, <1>9 DEF Backing, Agreeing
<1>11. Carrying'
  <2>1. ASSUME NoUnseal, NEW x \in Task  PROVE Carries(task'[x], stored)
    <3>1. CASE x = t
      BY <1>3, <1>6, <3>1 DEF Carries
    <3>2. CASE x # t
      <4>1. Carries(task[x], stored)
        BY <2>1 DEF Backing, Carrying
      <4> QED BY <1>6, <3>2, <4>1 DEF Carries
    <3> QED BY <3>1, <3>2
  <2> QED BY <1>5, <1>9, <2>1 DEF Carrying
<1>12. Matching'
  <2>1. ~NoClear'
    BY <1>3, <1>6 DEF NoClear
  <2> QED BY <2>1 DEF Matching
<1>13. Remembering'
  <2>1. owner' # None => owner' \in User
    BY <1>5 DEF Typing, ListOpen
  <2> QED BY <1>5, <2>1 DEF Backing, Remembering
<1> QED BY <1>8, <1>10, <1>11, <1>12, <1>13 DEF Backing

LEMMA ClearSecretsBacking ==
  ASSUME Typing, Backing, NEW t \in Task, ClearSecrets(t)
  PROVE  Backing'
<1>1. CASE /\ LockFamily /\ remembered' = None
           /\ Run(t, [Idle EXCEPT !.pc = "clearWrap", !.op = "lock"], InFlight)
  BY <1>1, LockBacking
<1>2. CASE /\ Run(t, Idle, {x \in InFlight : task[x].dev # None})
           /\ remembered' \in {None, user} /\ user' = user
           /\ UNCHANGED <<owner, wrapKey, stored, locked>>
  <2> DEFINE over == {x \in InFlight : task[x].dev # None}
  <2>1. /\ UNCHANGED <<bundle, legacy, wrapStore>> /\ abandoned' = FALSE
        /\ \A d \in Device : secretStore'[d] = None
        /\ task[t].pc = "clearSecrets"
    BY DEF ClearSecrets
  <2>2. Idle.pc = "idle"
    BY DEF Idle
  <2>3. /\ task'[t] = Idle
        /\ \A x \in Task \ {t} :
             /\ Same(task[x], task'[x])
             /\ ~task'[x].late => x \notin over /\ task'[x] = task[x]
    BY <1>2, RunLeaves
  <2>4. ASSUME NEW x \in Task, x \notin over
        PROVE  task[x].pc \notin AtDevice \cup {"writeList"}
    <3>1. Fits(task[x])
      BY DEF Typing, Calls
    <3>2. task[x].pc \in AtDevice \cup {"writeList"} => x \in InFlight /\ task[x].dev \in Device
      BY <3>1 DEF Fits, AtDevice, InFlight, Free
    <3> QED BY <2>4, <3>2, DeviceListAssumption
  <2>5. SealedList' = SealedList
    BY <1>2, <2>1 DEF SealedList
  <2> HIDE DEF over
  <2>6. Relying'
    <3>1. Relies(Idle, wrapKey', stored', SealedList', secretStore')
      BY <2>2, IdleRelies DEF AtDevice
    <3>2. ASSUME NEW x \in Task \ {t}, x \notin over, ~task[x].late
          PROVE  Relies(task[x], wrapKey', stored', SealedList', secretStore')
      <4>1. Relies(task[x], wrapKey, stored, SealedList, secretStore)
        BY DEF Backing, Relying
      <4>2. task[x].pc \notin AtDevice \cup {"writeList"}
        BY <2>4, <3>2
      <4> QED BY <1>2, <2>5, <4>1, <4>2 DEF Relies, AtDevice
    <3>3. Run(t, Idle, over)
      BY <1>2 DEF over
    <3> QED BY <3>1, <3>2, <3>3, RelyingNext
  <2>7. Agreeing'
    <3>1. NoUnseal' => NoUnseal
      <4>1. \A x \in Task : task[x].pc = "unseal" => task'[x].pc = "unseal"
        BY <2>1, <2>3 DEF Same
      <4> QED BY <4>1 DEF NoUnseal
    <3> QED BY <1>2, <2>1, <2>5, <3>1 DEF Backing, Agreeing
  <2>8. Carrying'
    <3>1. ASSUME NEW x \in Task  PROVE Carries(task'[x], stored')
      <4>1. CASE x = t
        BY <2>2, <2>3, <4>1 DEF Carries
      <4>2. CASE x # t
        BY <2>3, <2>4, <4>2 DEF Carries
      <4> QED BY <4>1, <4>2
    <3> QED BY <3>1 DEF Carrying
  <2>9. Matching'
    <3>1. ASSUME NEW x \in Task, task'[x].pc \in AtPlace  PROVE task'[x].late
      <4>1. x # t
        BY <2>2, <2>3, <3>1 DEF AtPlace
      <4>2. task[x].pc \in AtDevice
        BY <2>3, <3>1, <4>1 DEF Same, AtPlace, AtDevice
      <4> QED BY <2>3, <2>4, <4>1, <4>2
    <3> QED BY <2>1, <3>1 DEF Matching
  <2>10. Remembering'
    <3>1. WrapCleared' => WrapCleared
      <4>1. \A x \in Task : task[x].pc = "clearWrap" => task'[x].pc = "clearWrap"
        BY <2>1, <2>3 DEF Same
      <4> QED BY <2>1, <4>1 DEF WrapCleared
    <3>2. Deriving' => Deriving
      <4>1. ASSUME NEW x \in Task, task'[x].pc \in {"derive", "putWrap"}, ~task'[x].late
            PROVE  Deriving
        BY <2>2, <2>3, <4>1 DEF Deriving
      <4> QED BY <4>1 DEF Deriving
    <3> QED BY <1>2, <2>1, <3>1, <3>2 DEF Backing, Remembering
  <2> QED BY <2>6, <2>7, <2>8, <2>9, <2>10 DEF Backing
<1>3. \/ /\ LockFamily /\ remembered' = None
         /\ Run(t, [Idle EXCEPT !.pc = "clearWrap", !.op = "lock"], InFlight)
      \/ /\ Run(t, Idle, {x \in InFlight : task[x].dev # None})
         /\ remembered' \in {None, user} /\ user' = user
         /\ UNCHANGED <<owner, wrapKey, stored, locked>>
  BY DEF ClearSecrets, memory, Backing, Remembering
<1> QED BY <1>1, <1>2, <1>3

(* The page ends: what the working copies wait for is what the remembered  *)
(* key will open.                                                          *)
LEMMA ReloadBacking ==
  ASSUME Typing, Smooth, Backing, Reload, ~disturbed'
  PROVE  Backing'
<1>1. PICK t \in Task : task' = [x \in Task |->
        IF x = t /\ remembered # None
        THEN [Idle EXCEPT !.pc = "restore", !.op = "restore", !.user = remembered] ELSE Idle]
  BY DEF Reload
<1>2. PICK n : n = [Idle EXCEPT !.pc = "restore", !.op = "restore", !.user = remembered]
  OBVIOUS
<1>3. n.pc = "restore" /\ Idle.pc = "idle"
  BY <1>2 DEF Idle
<1>4. \A x \in Task : task'[x].pc \in {"idle", "restore"}
  BY <1>1, <1>2, <1>3
<1>5. /\ user' = remembered /\ owner' = None /\ wrapKey' = None /\ stored' = {} /\ locked' = TRUE
      /\ UNCHANGED <<bundle, legacy, remembered, wrapStore, secretStore>>
      /\ abandoned' = (abandoned \/ (user # None /\ remembered = None))
  BY DEF Reload, storage
<1>6. Relying'
  <2>1. \A x \in Task : Relies(task'[x], wrapKey', stored', SealedList', secretStore')
    BY <1>4, IdleRelies DEF AtDevice
  <2> QED BY <2>1 DEF Relying
<1>7. Agreeing'
  BY <1>5 DEF Agreeing
<1>8. Carrying'
  BY <1>4 DEF Carrying, Carries
<1>9. ~Deriving'
  BY <1>4 DEF Deriving
<1>10. Matching'
  <2> SUFFICES ASSUME NoClear', NEW d \in Device, secretStore[d] # None
               PROVE  Matched(d, secretStore[d])'
    BY <1>4, <1>5 DEF Matching, AtPlace
  <2>1. ~abandoned /\ (user = None \/ remembered # None)
    BY <1>5 DEF NoClear
  <2>2. \A x \in Task : task[x].op \notin {"add", "reenter", "lock", "forget"} /\ Fits(task[x])
    BY DEF Reload, Typing, Calls
  <2>3. \A x \in Task : task[x].pc \notin {"clearWrap", "clearSecrets"}
    BY <2>2 DEF Fits
  <2>4. NoClear /\ WrapCleared
    BY <2>1, <2>3 DEF NoClear, WrapCleared
  <2>5. user # None /\ remembered = user
    BY <2>1, <2>3 DEF Smooth, Clearing, Backing, Remembering
  <2>6. ~PendingIn(task, d, secretStore[d])
    BY <2>2 DEF PendingIn
  <2>7. (owner # None /\ Has(SealedList, d, secretStore[d])) \/ Waiting(d, secretStore[d])
    BY <2>4, <2>6 DEF Backing, Matching, Matched
  <2>8. wrapStore[user] # None => Has(Content(bundle, user, wrapStore[user]), d, secretStore[d])
    <3>1. CASE owner # None /\ Has(SealedList, d, secretStore[d])
      <4>1. owner = user
        BY <3>1 DEF Smooth, Own
      <4> QED BY <2>4, <3>1, <4>1 DEF Backing, Remembering, SealedList
    <3>2. CASE Waiting(d, secretStore[d])
      BY <3>2 DEF Waiting
    <3> QED BY <2>7, <3>1, <3>2
  <2> QED BY <1>5, <1>9, <2>5, <2>8 DEF Matched, Waiting
<1>11. Remembering'
  BY <1>5, <1>9 DEF Remembering
<1> QED BY <1>6, <1>7, <1>8, <1>10, <1>11 DEF Backing

LEMMA BackedStep == Typing /\ Crossless /\ Backed /\ [Next]_vars => Backed'
<1> SUFFICES ASSUME Typing, Crossless, Backed, [Next]_vars, ~disturbed'  PROVE Backing'
  BY DEF Backed
<1>1. ~disturbed
  BY UndisturbedBefore
<1>2. Smooth /\ Backing
  BY <1>1 DEF Crossless, Backed
<1>3. CASE UNCHANGED vars \/ ChangePassword
  <2>1. UNCHANGED <<storage, memory, task, abandoned>>
    BY <1>3 DEF vars, ChangePassword
  <2>2. SealedList' = SealedList
    BY <2>1 DEF storage, memory, SealedList
  <2>3. Relying' /\ Agreeing' /\ Carrying'
    BY <1>2, <2>1, <2>2 DEF storage, memory, Backing, Relying, Agreeing, NoUnseal, Carrying
  <2>4. Matching'
    <3>1. NoClear' => NoClear
      BY <2>1 DEF NoClear
    <3>2. \A d, p : Matched(d, p) => Matched(d, p)'
      BY <2>1, <2>2 DEF storage, memory, Matched, Waiting, Deriving
    <3> QED BY <1>2, <2>1, <2>2, <3>1, <3>2 DEF storage, Backing, Matching
  <2>5. Remembering'
    BY <1>2, <2>1 DEF storage, memory, Backing, Remembering, WrapCleared, Deriving
  <2> QED BY <2>3, <2>4, <2>5 DEF Backing
<1>4. ASSUME NEW t \in Task, Unlocked(t)  PROVE Backing'
  <2>1. Run(t, Idle, {}) /\ task[t].pc = "unlocked"
    BY <1>4 DEF Unlocked, Done
  <2>2. UNCHANGED <<bundle, legacy, remembered, wrapStore, user, owner, wrapKey, stored,
                    locked, abandoned, secretStore>>
    BY <1>4 DEF Unlocked, storage
  <2> QED BY <1>2, <2>1, <2>2, EndBacking
<1>5. ASSUME NEW t \in Task, Continue(t)  PROVE Backing'
  BY <1>2, <1>4, <1>5, ClearWrapBacking, ClearSecretsBacking, OpeningBacking, UnsealBacking,
     SealLegacyBacking, WorkingBacking, ListSealedBacking DEF Continue
<1> QED BY <1>2, <1>3, <1>5, LoginBacking, ForgetSessionBacking, LogoutBacking, ReloadBacking, StartsBacking,
           RefreshBacking DEF Next
-----------------------------------------------------------------------------
(* Until a call writes what it was overtaken in: a call in flight finds    *)
(* the working copies and the lists as it left them, and each working copy *)
(* is in a list that is open, about to be sealed, or going to be opened.   *)
THEOREM CopiesAreBacked == Spec => []Backed
<1>1. Init => Backed
  <2> SUFFICES ASSUME Init  PROVE Backing
    BY DEF Backed
  <2>1. \A t \in Task : task[t].pc = "idle"
    BY DEF Init, Idle
  <2>2. Relying /\ Carrying /\ Agreeing
    BY <2>1 DEF Init, Relying, Relies, Carrying, Carries, Agreeing
  <2>3. Matching
    <3>1. ~abandoned => \A d \in Device : secretStore[d] = None
      BY DEF Init
    <3> QED BY <2>1, <3>1 DEF Matching, NoClear, AtPlace
  <2>4. Remembering
    BY DEF Init, Remembering
  <2> QED BY <2>2, <2>3, <2>4 DEF Backing
<1>2. Typing /\ Crossless /\ Backed /\ [Next]_vars => Backed'
  BY BackedStep
<1> QED BY <1>1, <1>2, CallsWellFormed, CallsDoNotCross, PTL DEF Spec

(* The list that is shown is the one that is kept.                         *)
THEOREM ShownIsKept == Spec => []KeptAsShown
<1>1. Typing /\ Crossless /\ Backed => KeptAsShown
  <2> SUFFICES ASSUME Typing, Smooth, Backing, ~locked
               PROVE  /\ owner = user /\ wrapKey.user = owner
                      /\ IF bundle[owner] # None /\ bundle[owner].key = wrapKey
                         THEN stored = bundle[owner].list ELSE stored = {}
    BY DEF Crossless, Backed, KeptAsShown
  <2>1. stored = Content(bundle, owner, wrapKey)
    BY DEF Backing, Agreeing, SealedList
  <2>2. owner # None /\ owner = user /\ wrapKey.user = owner
    BY DEF Smooth, Own, Typing, ListOpen
  <2> QED BY <2>1, <2>2 DEF Content
<1> QED BY <1>1, CallsWellFormed, CallsDoNotCross, CopiesAreBacked, PTL

(* The working copies belong to devices of the open list, with the         *)
(* passwords the list has for them.                                        *)
THEOREM SecretsFollow == Spec => []SecretsFollowList
<1>1. Typing /\ Crossless /\ Backed => SecretsFollowList
  <2> SUFFICES ASSUME Typing, Smooth, Backing, ~abandoned, ~locked,
                      \A t \in InFlight : task[t].op \notin {"lock", "forget"},
                      NEW d \in Device, secretStore[d] # None
               PROVE  \/ \E e \in stored : e.dev = d /\ e.password = secretStore[d]
                      \/ \E t \in InFlight : /\ task[t].pc = "writeList" /\ task[t].op \in {"add", "reenter"}
                                             /\ task[t].dev = d
    BY DEF Crossless, Backed, SecretsFollowList
  <2>1. NoClear
    <3>1. \A t \in Task : task[t].pc \in {"clearWrap", "clearSecrets"} =>
            t \in InFlight /\ task[t].op \in {"lock", "forget"}
      BY DEF Typing, Calls, Fits, InFlight, Free
    <3> QED BY <3>1 DEF NoClear
  <2>2. owner # None /\ stored = SealedList
    BY DEF Smooth, Own, Backing, Agreeing
  <2>3. PendingIn(task, d, secretStore[d]) \/ Has(stored, d, secretStore[d])
    BY <2>1, <2>2 DEF Backing, Matching, Matched, Waiting
  <2> QED BY <2>3 DEF PendingIn, Has, InFlight, Free
<1> QED BY <1>1, CallsWellFormed, CallsDoNotCross, CopiesAreBacked, PTL
=============================================================================

----------------------------- MODULE DeviceList -----------------------------
(***************************************************************************)
(* The other devices on the map: web/src/lib/family.ts with the login and  *)
(* logout of web/src/lib/store.ts that drive it.                           *)
(*                                                                         *)
(* Other people's devices, with their passwords, are kept in one browser:  *)
(* sealed in localStorage under a key made from the user's own password,   *)
(* and as working copies (session and keys) in IndexedDB while the list is *)
(* open.  Logging out locks the list.  Every operation is an async         *)
(* function, so that at each of its awaits any other operation, a logout   *)
(* or the end of the page may come in between.  A task is one call of such *)
(* a function; its pc names what it waits for, and an action is what runs  *)
(* from there to the next await.                                           *)
(*                                                                         *)
(* The order of the list is for display, so it is a set.  The secrets of a *)
(* device stand for the password their log-in proof was made from; their   *)
(* session may run out at any time.  IndexedDB and crypto do not fail.     *)
(***************************************************************************)
EXTENDS Naturals, FiniteSets

CONSTANTS
  Task,        \* bound: async calls in flight together
  User,        \* accounts that log in with this browser
  Device,      \* fmdIds of other people's devices
  Password,    \* passwords of the devices
  OwnPassword, \* passwords a user may have had
  None,        \* nothing there
  NoPassword   \* the empty password of a device from the old plain list

(* deriveWrapKey: the key is made from the user's name and password.       *)
Key == [user : User, password : OwnPassword]
(* A StoredDevice; by is history: the user who entered it.                 *)
Entry == [dev : Device, password : Password \cup {NoPassword}, by : User]
Sealed == [key : Key, list : SUBSET Entry]

ASSUME DeviceListAssumption ==
  /\ None \notin User \cup Device \cup Password \cup {NoPassword}
  /\ None \notin Key \cup Sealed
  /\ NoPassword \notin Password

VARIABLES
  bundle,      \* localStorage: user -> sealed list
  legacy,      \* localStorage: the plain list of an earlier version
  remembered,  \* localStorage: the user of a session that is remembered
  wrapStore,   \* IndexedDB: user -> remembered key
  secretStore, \* IndexedDB: device -> secrets
  user,        \* who is logged in
  owner, wrapKey, stored, unlocking,  \* the module variables of family.ts
  locked, needsLogin,                 \* of the state shown by the panel
  needsPassword, \* the devices whose status says so
  password,    \* the server: device -> its present password
  task,        \* the async calls
  guesses,     \* history: automatic log-ins refused since the status was new
  abandoned,   \* history: working copies outlived a page nobody logged out of
  disturbed    \* history: a call wrote something after what it started from
               \* had changed, or a list before the sealed one was opened; an
               \* open list was opened again with another key; or a page
               \* ended in the middle of a call

storage == <<bundle, legacy, remembered, wrapStore, secretStore>>
memory == <<user, owner, wrapKey, stored, unlocking, locked, needsLogin, needsPassword>>
vars == <<storage, memory, password, task, guesses, abandoned, disturbed>>

PC == {"idle", "restore", "derive", "putWrap", "unseal", "sealLegacy", "unlocked",
       "clearWrap", "clearSecrets", "logIn", "putSecrets", "writeList", "deleteSecrets",
       "getSecrets", "fetch", "requestToken", "putToken", "fetchAgain"}
TaskOp == {"none", "restore", "unlock", "lock", "forget", "add", "reenter", "remove", "refresh"}

(* What a call holds across its awaits.  late is history: something it     *)
(* started from has changed since.                                         *)
TaskState == [pc : PC, op : TaskOp, user : User \cup {None}, key : Key \cup {None},
              remember : BOOLEAN, dev : Device \cup {None},
              pw : Password \cup {NoPassword, None}, list : SUBSET Entry, late : BOOLEAN]
Idle == [pc |-> "idle", op |-> "none", user |-> None, key |-> None, remember |-> FALSE,
         dev |-> None, pw |-> None, list |-> {}, late |-> FALSE]

TypeOK ==
  /\ bundle \in [User -> Sealed \cup {None}]
  /\ legacy \subseteq Device
  /\ remembered \in User \cup {None}
  /\ wrapStore \in [User -> Key \cup {None}]
  /\ secretStore \in [Device -> Password \cup {None}]
  /\ user \in User \cup {None} /\ owner \in User \cup {None}
  /\ wrapKey \in Key \cup {None} /\ stored \subseteq Entry
  /\ {unlocking, locked, needsLogin} \subseteq BOOLEAN
  /\ needsPassword \subseteq Device
  /\ password \in [Device -> Password]
  /\ task \in [Task -> TaskState]
  /\ \A t \in Task : task[t].pc = "writeList" => task[t].user # None /\ task[t].key # None
  /\ guesses \in [Device -> Nat]
  /\ {abandoned, disturbed} \subseteq BOOLEAN

(* The devices of an old plain list have their keys in IndexedDB.          *)
Init ==
  /\ bundle = [u \in User |-> None] /\ remembered = None
  /\ legacy \in SUBSET Device
  /\ wrapStore = [u \in User |-> None]
  /\ password \in [Device -> Password]
  /\ secretStore = [d \in Device |-> IF d \in legacy THEN password[d] ELSE None]
  /\ user = None /\ owner = None /\ wrapKey = None /\ stored = {}
  /\ unlocking = FALSE /\ locked = TRUE /\ needsLogin = FALSE /\ needsPassword = {}
  /\ task = [t \in Task |-> Idle]
  /\ guesses = [d \in Device |-> 0]
  /\ abandoned = (legacy # {}) /\ disturbed = FALSE

Free(t) == task[t].pc = "idle"
(* Call t goes on as state, and the calls in overtaken are late from now.  *)
Run(t, state, overtaken) ==
  task' = [x \in Task |->
             IF x = t THEN state
             ELSE IF x \in overtaken THEN [task[x] EXCEPT !.late = TRUE] ELSE task[x]]
Wait(t, pc) == Run(t, [task[t] EXCEPT !.pc = pc], {})
Done(t) == Run(t, Idle, {})

(* Call t writes.                                                          *)
Disturb(t) == disturbed' = (disturbed \/ task[t].late)

InFlight == {t \in Task : ~Free(t)}
Listed(d) == {e \in stored : e.dev = d}
(* Calls that hold a copy of the list, or something about these devices.   *)
Holding(devs) == {t \in InFlight : task[t].pc \in {"unseal", "sealLegacy", "writeList"}
                                     \/ task[t].dev \in devs}
(* Calls that are changed by a write of secrets in a call of this kind.    *)
About(d, op) == {t \in InFlight : task[t].dev = d /\ ~({op, task[t].op} \subseteq {"refresh"})}
-----------------------------------------------------------------------------
(* Logging in and out.                                                     *)

(* lockFamily up to its first await, for a call that then goes on as       *)
(* state: whatever else is in flight is late.                              *)
LockKeepingList ==                                \* mutant: the list stays in memory
  /\ owner' = None /\ wrapKey' = None
  /\ locked' = TRUE /\ needsLogin' = FALSE /\ needsPassword' = {}
  /\ guesses' = [d \in Device |-> 0]
  /\ UNCHANGED <<stored, unlocking>>
LockFamily ==
  /\ owner' = None /\ wrapKey' = None /\ stored' = {}
  /\ locked' = TRUE /\ needsLogin' = FALSE /\ needsPassword' = {}
  /\ guesses' = [d \in Device |-> 0]
  /\ UNCHANGED unlocking

(* restoreFamily: nothing to do when the list is open already.             *)
Restoring(u) == IF owner = u /\ wrapKey # None THEN Idle
                ELSE [Idle EXCEPT !.pc = "restore", !.op = "restore", !.user = u]

(* The login form: the session is set, which starts restoreFamily, and     *)
(* unlockFamily gets the password, which may be another one than at the    *)
(* last login.  A restoreFamily that is answered at once, that there is no *)
(* key, has no effect while unlockFamily is at work.                       *)
Login(u) ==
  /\ user = None
  /\ \E t1, t2 \in Task, k \in OwnPassword, remember \in BOOLEAN :
       /\ Free(t1) /\ Free(t2) /\ (t1 = t2 => wrapStore[u] = None)
       /\ remembered' = IF remember THEN u ELSE remembered
       /\ task' = [task EXCEPT
            ![t1] = Restoring(u),
            ![t2] = [Idle EXCEPT !.pc = "derive", !.op = "unlock", !.user = u,
                       !.key = [user |-> u, password |-> k], !.remember = remember]]
  /\ user' = u /\ unlocking' = TRUE
  /\ UNCHANGED <<bundle, legacy, wrapStore, secretStore, owner, wrapKey, stored, locked,
                 needsLogin, needsPassword, password, guesses, abandoned, disturbed>>

(* The user logs out, or a request of the main session is answered 401.    *)
(* The remembered session goes first; then the keys of the session are     *)
(* cleared, which may take its time, in which the list is still open.      *)
ForgetSession ==
  /\ user # None
  /\ remembered' = None
  /\ UNCHANGED <<bundle, legacy, wrapStore, secretStore, memory, password, task, guesses,
                 abandoned, disturbed>>

Logout ==
  /\ user # None /\ remembered = None
  /\ user' = None
  /\ LockFamily
  /\ \E t \in Task : Free(t) /\ Run(t, [Idle EXCEPT !.pc = "clearWrap", !.op = "lock"], InFlight)
  /\ UNCHANGED <<bundle, legacy, remembered, wrapStore, secretStore, password, abandoned, disturbed>>

(* The account is deleted: forgetAllDevices, and then logout.              *)
ForgetAllDevices ==
  /\ user # None
  /\ bundle' = [bundle EXCEPT ![user] = None]
  /\ LockFamily
  /\ \E t \in Task : Free(t) /\ Run(t, [Idle EXCEPT !.pc = "clearWrap", !.op = "forget"], InFlight)
  /\ UNCHANGED <<legacy, remembered, wrapStore, secretStore, user, password, abandoned, disturbed>>

(* The rest of lockFamily: the remembered keys, then the working copies.   *)
ClearWrap(t) ==
  /\ task[t].pc = "clearWrap"
  /\ wrapStore' = [u \in User |-> None]
  /\ Disturb(t) /\ Wait(t, "clearSecrets")
  /\ UNCHANGED <<bundle, legacy, remembered, secretStore, memory, password, guesses, abandoned>>

ClearSecretsNot(t) ==                             \* mutant: the working copies stay
  /\ task[t].pc = "clearSecrets"
  /\ Done(t)
  /\ UNCHANGED <<storage, memory, password, guesses, abandoned, disturbed>>
ClearSecrets(t) ==
  /\ task[t].pc = "clearSecrets"
  /\ secretStore' = [d \in Device |-> None] /\ abandoned' = FALSE
  /\ Disturb(t)
  /\ \/ /\ task[t].op = "lock" /\ Run(t, Idle, {x \in InFlight : task[x].dev # None})
        /\ UNCHANGED <<remembered, memory, guesses>>
     \/ /\ task[t].op = "forget"
        /\ user' = None /\ remembered' = None
        /\ IF user # None
           THEN LockFamily /\ Run(t, [Idle EXCEPT !.pc = "clearWrap", !.op = "lock"], InFlight)
           ELSE /\ Run(t, Idle, {x \in InFlight : task[x].dev # None})
                /\ UNCHANGED <<owner, wrapKey, stored, unlocking, locked, needsLogin,
                               needsPassword, guesses>>
  /\ UNCHANGED <<bundle, legacy, wrapStore, password>>

(* The page is closed or reloaded: memory and calls are gone, the browser's *)
(* storage stays, and a remembered session is taken up again.              *)
Reload ==
  /\ user' = remembered
  /\ owner' = None /\ wrapKey' = None /\ stored' = {} /\ unlocking' = FALSE
  /\ locked' = TRUE /\ needsLogin' = FALSE /\ needsPassword' = {}
  /\ guesses' = [d \in Device |-> 0]
  /\ \E t \in Task : task' = [x \in Task |->
       IF x = t /\ remembered # None
       THEN [Idle EXCEPT !.pc = "restore", !.op = "restore", !.user = remembered] ELSE Idle]
  /\ abandoned' = (abandoned \/ (user # None /\ remembered = None))
  /\ disturbed' = (disturbed \/ \E t \in Task : task[t].op \in {"add", "reenter", "lock", "forget"})
  /\ UNCHANGED <<storage, password>>
-----------------------------------------------------------------------------
(* openList, once the sealed list has been opened: the devices of the old  *)
(* plain list join it, and then the whole is sealed again.                 *)
Show(t, call) ==
  /\ legacy' = {} /\ locked' = FALSE /\ needsLogin' = FALSE
  /\ Run(t, IF call.op = "unlock" THEN [Idle EXCEPT !.pc = "unlocked", !.op = "unlock"] ELSE Idle,
         Holding({}))

Opened(t, call, list) ==
  LET joining == {d \in legacy : \A e \in list : e.dev # d}
      all == list \cup {[dev |-> d, password |-> NoPassword, by |-> call.user] : d \in joining}
  IN  /\ stored' = all
      /\ \/ joining = {} /\ Show(t, call)
         \/ /\ joining # {}
            /\ Run(t, [call EXCEPT !.pc = "sealLegacy", !.list = all], Holding({}))
            /\ UNCHANGED <<legacy, locked, needsLogin>>

(* openList: a list sealed with another key, from before a change of the   *)
(* password, is not opened, and the list is empty.  A list that was open   *)
(* already, with another key, is gone then.                                *)
OpenList(t, call) ==
  LET sealed == bundle[call.user]
      list == IF sealed # None /\ sealed.key = call.key THEN sealed.list ELSE {}
  IN  /\ owner' = call.user /\ wrapKey' = call.key
      /\ \/ sealed = None /\ Opened(t, call, {})
         \/ /\ sealed # None
            /\ Run(t, [call EXCEPT !.pc = "unseal", !.list = list], {})
            /\ UNCHANGED <<legacy, stored, locked, needsLogin>>
      /\ disturbed' = (disturbed \/ task[t].late \/ wrapKey \notin {None, call.key})

RestoreFamily(t) ==
  /\ task[t].pc = "restore"
  /\ LET key == wrapStore[task[t].user] IN
       \/ key # None /\ OpenList(t, [task[t] EXCEPT !.key = key])
       \/ /\ key = None
          /\ needsLogin' = (needsLogin \/ ~unlocking)
          /\ Done(t)
          /\ UNCHANGED <<legacy, owner, wrapKey, stored, locked, disturbed>>
  /\ UNCHANGED <<bundle, remembered, wrapStore, secretStore, user, unlocking, needsPassword,
                 password, guesses, abandoned>>

(* unlockFamily: the key has been derived, and is kept if that was wished. *)
UnlockFamily(t) ==
  /\ task[t].pc = "derive"
  /\ \/ ~task[t].remember /\ OpenList(t, task[t])
     \/ /\ task[t].remember /\ Wait(t, "putWrap")
        /\ UNCHANGED <<legacy, owner, wrapKey, stored, locked, needsLogin, disturbed>>
  /\ UNCHANGED <<bundle, remembered, wrapStore, secretStore, user, unlocking, needsPassword,
                 password, guesses, abandoned>>

PutWrap(t) ==
  /\ task[t].pc = "putWrap"
  /\ wrapStore' = [wrapStore EXCEPT ![task[t].user] = task[t].key]
  /\ OpenList(t, [task[t] EXCEPT !.remember = FALSE])
  /\ UNCHANGED <<bundle, remembered, secretStore, user, unlocking, needsPassword, password,
                 guesses, abandoned>>

Unseal(t) ==
  /\ task[t].pc = "unseal"
  /\ Opened(t, task[t], task[t].list)
  /\ Disturb(t)
  /\ UNCHANGED <<bundle, remembered, wrapStore, secretStore, user, owner, wrapKey, unlocking,
                 needsPassword, password, guesses, abandoned>>

SealLegacy(t) ==
  /\ task[t].pc = "sealLegacy"
  /\ bundle' = [bundle EXCEPT ![task[t].user] = [key |-> task[t].key, list |-> task[t].list]]
  /\ Show(t, task[t])
  /\ Disturb(t)
  /\ UNCHANGED <<remembered, wrapStore, secretStore, user, owner, wrapKey, stored, unlocking,
                 needsPassword, password, guesses, abandoned>>

(* The end of unlockFamily, after the refreshes that openList started.     *)
Unlocked(t) ==
  /\ task[t].pc = "unlocked"
  /\ unlocking' = FALSE /\ Done(t)
  /\ UNCHANGED <<storage, user, owner, wrapKey, stored, locked, needsLogin, needsPassword,
                 password, guesses, abandoned, disturbed>>
-----------------------------------------------------------------------------
(* Adding, re-entering, removing.  Each ends in writeList, which takes the *)
(* list as it is, seals what becomes of it, and only then puts it back.    *)

Kept == <<legacy, remembered, wrapStore, user, owner, wrapKey, unlocking, locked, needsLogin,
            password, abandoned>>

WriteListAnyway(t, list) ==                        \* mutant: no check
  Run(t, [task[t] EXCEPT !.pc = "writeList", !.user = owner, !.key = wrapKey, !.list = list],
      About(task[t].dev, task[t].op))
(* writeList up to its await: it throws when the list has been locked.     *)
WriteList(t, list) ==
  Run(t, IF owner = None \/ wrapKey = None THEN Idle
         ELSE [task[t] EXCEPT !.pc = "writeList", !.user = owner, !.key = wrapKey, !.list = list],
      About(task[t].dev, task[t].op))

(* The panel, which is shown while someone is logged in, starts a call.    *)
Start(state) ==
  /\ user # None
  /\ \E t \in Task : Free(t) /\ Run(t, state, {})
  /\ UNCHANGED <<storage, memory, password, guesses, abandoned, disturbed>>

AddDevice ==
  /\ wrapKey # None
  /\ \E d \in Device, p \in Password :
       /\ Listed(d) = {}
       /\ Start([Idle EXCEPT !.pc = "logIn", !.op = "add", !.user = user, !.dev = d, !.pw = p])

ReenterPassword ==
  \E d \in needsPassword, p \in Password :
    /\ Listed(d) # {}
    /\ Start([Idle EXCEPT !.pc = "logIn", !.op = "reenter", !.dev = d, !.pw = p])

RemoveDevice ==
  \E d \in Device :
    /\ Listed(d) # {}
    /\ Start([Idle EXCEPT !.pc = "deleteSecrets", !.op = "remove", !.dev = d])

(* refreshDevice up to its first await: a device that needs a password is  *)
(* left alone.  The timer, the panel and openList start it for every       *)
(* device of the list.                                                     *)
RefreshableAnyway(d, needs) == TRUE                \* mutant: it is asked again and again
Refreshable(d, needs) == d \notin needs
RefreshOf(e) == [Idle EXCEPT !.pc = "getSecrets", !.op = "refresh", !.dev = e.dev, !.pw = e.password]
RefreshDevice ==
  /\ \E e \in stored : Refreshable(e.dev, needsPassword)
                         /\ \E t \in Task : Free(t) /\ Run(t, RefreshOf(e), {})
  /\ UNCHANGED <<storage, memory, password, guesses, abandoned, disturbed>>

(* The server refuses the log-in of an automatic call: it asks for the     *)
(* password from now on.                                                   *)
Refused(t) ==
  /\ needsPassword' = needsPassword \cup {task[t].dev}
  /\ guesses' = [guesses EXCEPT ![task[t].dev] = @ + 1]
  /\ Disturb(t) /\ Done(t)

(* logIn, with a password: the server takes it or not, or does not answer. *)
LogIn(t) ==
  /\ task[t].pc = "logIn"
  /\ LET accepted == task[t].pw = password[task[t].dev] IN
       \/ accepted /\ Wait(t, "putSecrets") /\ UNCHANGED <<needsPassword, guesses, disturbed>>
       \/ ~accepted /\ task[t].op = "refresh" /\ Refused(t)
       \/ task[t].op # "refresh" /\ Done(t) /\ UNCHANGED <<needsPassword, guesses, disturbed>>
       \/ Done(t) /\ UNCHANGED <<needsPassword, guesses, disturbed>>
  /\ UNCHANGED <<Kept, bundle, secretStore, stored>>

NewList(t) ==
  LET d == task[t].dev
  IN  CASE task[t].op = "add" ->
             stored \cup {[dev |-> d, password |-> task[t].pw, by |-> task[t].user]}
        [] task[t].op = "reenter" ->
             {IF e.dev = d THEN [e EXCEPT !.password = task[t].pw] ELSE e : e \in stored}
        [] task[t].op = "remove" -> {e \in stored : e.dev # d}

PutSecrets(t) ==
  /\ task[t].pc = "putSecrets"
  /\ secretStore' = [secretStore EXCEPT ![task[t].dev] = task[t].pw]
  /\ IF task[t].op = "refresh"
     THEN Run(t, [task[t] EXCEPT !.pc = "fetch"], About(task[t].dev, "refresh"))
     ELSE WriteList(t, NewList(t))
  /\ Disturb(t)
  /\ UNCHANGED <<Kept, bundle, stored, needsPassword, guesses>>

KeepSecrets(t) ==                                  \* mutant: only taken off the list
  /\ task[t].pc = "deleteSecrets"
  /\ WriteList(t, NewList(t))
  /\ Disturb(t)
  /\ UNCHANGED <<Kept, bundle, secretStore, stored, needsPassword, guesses>>
DeleteSecrets(t) ==
  /\ task[t].pc = "deleteSecrets"
  /\ secretStore' = [secretStore EXCEPT ![task[t].dev] = None]
  /\ WriteList(t, NewList(t))
  /\ Disturb(t)
  /\ UNCHANGED <<Kept, bundle, stored, needsPassword, guesses>>

ListShown(t) ==                                    \* mutant: shown, never stored
  /\ task[t].pc = "writeList"
  /\ stored' = task[t].list
  /\ Run(t, Idle, Holding({task[t].dev}))
  /\ Disturb(t)
  /\ UNCHANGED <<Kept, bundle, secretStore, needsPassword, guesses>>
(* The list is sealed: it is stored and shown.  A device that was added    *)
(* or got a password is refreshed at once.  An addition that ends while    *)
(* the sealed list is still being opened replaces it by the new device.    *)
ListSealed(t) ==
  /\ task[t].pc = "writeList"
  /\ LET d == task[t].dev
         list == task[t].list
         needs == IF task[t].op = "add" THEN needsPassword ELSE needsPassword \ {d}
     IN  /\ bundle' = [bundle EXCEPT ![task[t].user] = [key |-> task[t].key, list |-> list]]
         /\ stored' = list
         /\ needsPassword' = needs
         /\ guesses' = IF task[t].op = "add" THEN guesses ELSE [guesses EXCEPT ![d] = 0]
         /\ \/ /\ task[t].op # "remove"
               /\ \E e \in list : e.dev = d /\ Refreshable(d, needs)
                                    /\ Run(t, RefreshOf(e), Holding({d}))
            \/ /\ task[t].op = "remove" \/ ~\E e \in list : e.dev = d /\ Refreshable(d, needs)
               /\ Run(t, Idle, Holding({d}))
  /\ disturbed' = (disturbed \/ task[t].late \/ \E x \in Task : task[x].pc = "unseal")
  /\ UNCHANGED <<Kept, secretStore>>
-----------------------------------------------------------------------------
(* refreshDevice: the secrets, or else a log-in that makes them; then the  *)
(* place, with one new session when the old one has run out.               *)

GetSecrets(t) ==
  /\ task[t].pc = "getSecrets"
  /\ LET secrets == secretStore[task[t].dev] IN
       \/ /\ secrets # None
          /\ Run(t, [task[t] EXCEPT !.pc = "fetch", !.pw = secrets], {})
          /\ UNCHANGED <<needsPassword, disturbed>>
       \/ /\ secrets = None /\ task[t].pw = NoPassword
          /\ needsPassword' = needsPassword \cup {task[t].dev}
          /\ Done(t) /\ Disturb(t)
       \/ /\ secrets = None /\ task[t].pw # NoPassword
          /\ Wait(t, "logIn")
          /\ UNCHANGED <<needsPassword, disturbed>>
  /\ UNCHANGED <<Kept, bundle, secretStore, stored, guesses>>

(* The place arrives, or something fails, or the session has run out; it   *)
(* has for sure when the password has been changed since.                  *)
Fetch(t) ==
  /\ task[t].pc \in {"fetch", "fetchAgain"}
  /\ Done(t) \/ (task[t].pc = "fetch" /\ Wait(t, "requestToken"))
  /\ UNCHANGED <<Kept, bundle, secretStore, stored, needsPassword, guesses, disturbed>>

RequestToken(t) ==
  /\ task[t].pc = "requestToken"
  /\ LET accepted == task[t].pw = password[task[t].dev] IN
       \/ accepted /\ Wait(t, "putToken") /\ UNCHANGED <<needsPassword, guesses, disturbed>>
       \/ ~accepted /\ Refused(t)
       \/ Done(t) /\ UNCHANGED <<needsPassword, guesses, disturbed>>
  /\ UNCHANGED <<Kept, bundle, secretStore, stored>>

PutToken(t) ==
  /\ task[t].pc = "putToken"
  /\ secretStore' = [secretStore EXCEPT ![task[t].dev] = task[t].pw]
  /\ Run(t, [task[t] EXCEPT !.pc = "fetchAgain"], About(task[t].dev, "refresh"))
  /\ Disturb(t)
  /\ UNCHANGED <<Kept, bundle, stored, needsPassword, guesses>>

(* The owner of a device changes its password.                             *)
ChangePassword ==
  /\ \E d \in Device, p \in Password : password' = [password EXCEPT ![d] = p]
  /\ UNCHANGED <<storage, memory, task, guesses, abandoned, disturbed>>

Continue(t) ==
  \/ ClearWrap(t) \/ ClearSecrets(t) \/ RestoreFamily(t) \/ UnlockFamily(t) \/ PutWrap(t)
  \/ Unseal(t) \/ SealLegacy(t) \/ Unlocked(t)
  \/ LogIn(t) \/ PutSecrets(t) \/ DeleteSecrets(t) \/ ListSealed(t)
  \/ GetSecrets(t) \/ Fetch(t) \/ RequestToken(t) \/ PutToken(t)

Next ==
  \/ \E t \in Task : Continue(t)
  \/ \E u \in User : Login(u)
  \/ ForgetSession \/ Logout \/ ForgetAllDevices \/ Reload
  \/ AddDevice \/ ReenterPassword \/ RemoveDevice \/ RefreshDevice \/ ChangePassword

Spec == Init /\ [][Next]_vars
-----------------------------------------------------------------------------
(* A locked list leaves nothing in the browser that opens it, and no       *)
(* working copies: once someone has logged out and every call has ended,   *)
(* only the sealed lists remain.  This holds until a call that was under   *)
(* way at the logout goes on to write, or the page ends before the         *)
(* browser's storage is cleared.                                           *)
NothingLeft ==
  /\ owner = None /\ wrapKey = None /\ stored = {}
  /\ \A u \in User : wrapStore[u] = None
  /\ \A d \in Device : secretStore[d] = None
Quiet == user = None /\ InFlight = {} /\ ~abandoned
LockLeavesNothing == ~disturbed => (Quiet => NothingLeft)

(* What is shown is what is kept: an open list is the one that is sealed   *)
(* for its owner, as long as no two calls cross.                           *)
KeptAsShown ==
  ~disturbed /\ ~locked =>
    /\ owner = user /\ wrapKey.user = owner
    /\ IF bundle[owner] # None /\ bundle[owner].key = wrapKey
       THEN stored = bundle[owner].list ELSE stored = {}

(* The working copies belong to devices of the open list and to the        *)
(* passwords it has for them, unless the list with a new password is just  *)
(* being written, or the last session's copies are still being cleared.    *)
SecretsFollowList ==
  ~disturbed /\ ~abandoned /\ ~locked /\ (\A t \in InFlight : task[t].op \notin {"lock", "forget"}) =>
    \A d \in Device : secretStore[d] # None =>
      \/ \E e \in stored : e.dev = d /\ e.password = secretStore[d]
      \/ \E t \in InFlight : /\ task[t].pc = "writeList" /\ task[t].op \in {"add", "reenter"}
                             /\ task[t].dev = d

(* Whoever logs in on the same browser neither sees nor keeps a device     *)
(* that somebody else has entered.                                         *)
OwnDevicesOnly ==
  ~disturbed =>
    /\ \A e \in stored : e.by = owner
    /\ \A u \in User : bundle[u] # None => \A e \in bundle[u].list : e.by = u

(* The server locks an account after a handful of refused log-ins.  Until  *)
(* somebody enters a new password, the list is locked or the page is       *)
(* loaded again, only the refreshes that are in flight together can be     *)
(* refused, those that were begun before the last logout included.         *)
AutomaticGuessesBounded == \A d \in Device : guesses[d] <= Cardinality(Task)
=============================================================================

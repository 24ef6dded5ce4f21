------------------------------ MODULE Commands ------------------------------
(***************************************************************************)
(* The command slot and the push: SetCommandToUser, GetCommandToUser,      *)
(* SetPushUrl, PushUser and the pushes of RequestAccess in                 *)
(* user/user_repository.go, behind the handlers of backend/apiv1.go.       *)
(*                                                                         *)
(* An account has room for one pending command, a column of its row.  The  *)
(* web page posts it, the phone is woken through a push service, fetches   *)
(* it and thereby clears it.  As everywhere (module UserRepository), a     *)
(* request works on a copy of the row and writes all of it back, first in  *)
(* CheckAccessTokenAndGetUser and then once more in its own handler; the   *)
(* database may refuse to, and nobody is told (FMDDB.Save).                *)
(*                                                                         *)
(* One account, which is not deleted; deletions of others recount the      *)
(* gauge of pending commands.  The n-th command ever posted is the number  *)
(* n; the push service and the phone are the environment.                  *)
(***************************************************************************)
EXTENDS Integers, FiniteSets

CONSTANTS
  Request,     \* requests that may be in flight together
  Url,         \* push URLs, one for each of the labels that are counted
  MaxCommand,  \* bound: commands ever posted
  MaxRestart,  \* bound: restarts of the server
  MaxRefusal,  \* bound: saves that the database refuses
  None         \* no push URL

ASSUME CommandsAssumption == None \notin Url /\ {MaxCommand, MaxRestart, MaxRefusal} \subseteq Nat

VARIABLES
  row,       \* the account's row
  lastCmd,   \* commands posted so far
  pendingCommands, PushServers,   \* the gauges
  req,       \* what each request is doing
  woken,     \* the push service has a wake-up for the phone
  later,     \* delayed pushes that logins have started
  restarts,  \* restarts so far
  refusals,  \* saves refused so far
  taken,     \* history: the commands that some request has taken
  stale,     \* history: a request has written back, or tried to, a copy of the row
             \* that had changed since it was read
  miscounted, \* history: since the start, what a gauge counted was not stored, an
             \* outdated copy has undone it, or a recount crossed it
  due        \* history: since the command in the table was stored, the phone has
             \* been woken, or is to be, and no push or fetch has failed since

vars == <<row, lastCmd, pendingCommands, PushServers, req, woken,
          later, restarts, refusals, taken, stale, miscounted, due>>
gauges == <<pendingCommands, PushServers>>
push == <<woken, later, due>>
written == <<row, refusals, stale>>

Cmd == 1..MaxCommand
(* The columns CommandToUser, 0 for the empty one, and PushUrl.            *)
Row == [cmd : Cmd \cup {0}, url : Url \cup {None}]

PC == {"idle", "touch", "get", "clear", "post", "url", "save", "set"}
Op == {"none", "get", "post", "url", "other", "recount"}
RequestState == [pc : PC, op : Op, row : Row, cmd : Cmd \cup {0}]
NoRow == [cmd |-> 0, url |-> None]
Idle == [pc |-> "idle", op |-> "none", row |-> NoRow, cmd |-> 0]

TypeOK ==
  /\ row \in Row
  /\ lastCmd \in 0..MaxCommand
  /\ pendingCommands \in Int /\ PushServers \in [Url -> Int]
  /\ req \in [Request -> RequestState]
  /\ woken \in BOOLEAN /\ later \in BOOLEAN
  /\ restarts \in 0..MaxRestart /\ refusals \in 0..MaxRefusal
  /\ taken \subseteq Cmd
  /\ {stale, miscounted, due} \subseteq BOOLEAN

(* initializeUserMetrics, InitializePushServerMetrics: the gauges are set  *)
(* from the table.                                                         *)
Pending(r) == IF r.cmd = 0 THEN 0 ELSE 1
Servers(r) == [u \in Url |-> IF r.url = u THEN 1 ELSE 0]

Init ==
  /\ row \in [cmd : {0}, url : Url \cup {None}]
  /\ lastCmd = 0 /\ taken = {}
  /\ pendingCommands = Pending(row) /\ PushServers = Servers(row)
  /\ req = [r \in Request |-> Idle]
  /\ woken = FALSE /\ later = FALSE
  /\ restarts = 0 /\ refusals = 0
  /\ stale = FALSE /\ miscounted = FALSE /\ due = FALSE

Goto(r, state) == req' = [req EXCEPT ![r] = state]
Done(r) == Goto(r, Idle)

SameGauges(a, b) == Pending(a) = Pending(b) /\ Servers(a) = Servers(b)

(* gorm's Save of the copy of request r, changed to new, or its failure.   *)
(* The gauges have followed the change of the copy.                        *)
Save(r, new) ==
  /\ stale' = (stale \/ row # req[r].row)
  /\ \/ /\ row' = new /\ UNCHANGED refusals
        /\ miscounted' = (miscounted \/ ~SameGauges(row, req[r].row))
     \/ /\ refusals < MaxRefusal /\ refusals' = refusals + 1 /\ UNCHANGED row
        /\ miscounted' = (miscounted \/ ~SameGauges(new, req[r].row))

(* A request in state q has been counted, but its save is still to come.   *)
Ahead(q) ==
  \/ q.pc = "save" /\ q.row.cmd = 0
  \/ q.pc = "clear" /\ q.row.cmd # 0
-----------------------------------------------------------------------------
(* CheckAccessTokenAndGetUser: the row is read, and then written back.     *)

(* A request that brings a command nobody has sent before.  API v1 would   *)
(* take an empty one, too, but no client in the repository sends that.     *)
NewCommand(r, pc) ==
  /\ lastCmd < MaxCommand
  /\ lastCmd' = lastCmd + 1
  /\ Goto(r, [pc |-> pc, op |-> "post", row |-> row, cmd |-> lastCmd + 1])

(* Any client, at any time.  getCommand is what the phone sends, too, when *)
(* nobody has woken it.                                                    *)
GetUser(r) ==
  /\ req[r].pc = "idle"
  /\ \/ /\ \E op \in {"get", "url", "other"} :
             Goto(r, [Idle EXCEPT !.pc = "touch", !.op = op, !.row = row])
        /\ UNCHANGED lastCmd
     \/ NewCommand(r, "touch")
  /\ UNCHANGED <<gauges, push, written, restarts, taken, miscounted>>

(* The phone has been woken and asks for the command.  If the command it   *)
(* was woken for is not stored yet, it finds none.                         *)
Fetch(r) ==
  /\ woken /\ req[r].pc = "idle"
  /\ woken' = FALSE
  /\ Goto(r, [Idle EXCEPT !.pc = "touch", !.op = "get", !.row = row])
  /\ UNCHANGED <<lastCmd, gauges, later, due, written, restarts, taken, miscounted>>

Touch(r) ==
  /\ req[r].pc = "touch"
  /\ Save(r, req[r].row)
  /\ IF req[r].op = "other" THEN Done(r) ELSE Goto(r, [req[r] EXCEPT !.pc = req[r].op])
  /\ UNCHANGED <<lastCmd, gauges, push, restarts, taken>>

(* RequestAccess: a login, which reads the row and writes nothing.  If it  *)
(* finds a command, the phone is pushed 15 seconds later, when the row is  *)
(* read again.  The attempt that locks the account sets a command of the   *)
(* server's own, on the copy that was read before the comparison.          *)
Login ==
  /\ row.cmd # 0
  /\ later' = TRUE /\ due' = TRUE
  /\ UNCHANGED <<lastCmd, gauges, req, woken, written, restarts, taken, miscounted>>

(* A push, over a URL; the push service may fail.                          *)
Push == woken' = TRUE /\ due' = (row.cmd # 0)
PushLaterIfNone ==                                \* mutant: the condition inverted
  /\ later /\ later' = FALSE
  /\ \/ row.cmd = 0 /\ row.url # None /\ Push
     \/ row.cmd = 0 /\ row.url # None /\ UNCHANGED woken /\ due' = (due /\ woken)
     \/ row.cmd # 0 /\ UNCHANGED <<woken, due>>
     \/ row.url = None /\ UNCHANGED woken /\ due' = (due /\ woken)
  /\ UNCHANGED <<lastCmd, gauges, req, written, restarts, taken, miscounted>>
PushLater ==
  /\ later /\ later' = FALSE
  /\ \/ row.cmd # 0 /\ row.url # None /\ Push
     \/ row.cmd # 0 /\ UNCHANGED woken /\ due' = (due /\ woken)
     \/ row.cmd = 0 /\ UNCHANGED <<woken, due>>
  /\ UNCHANGED <<lastCmd, gauges, req, written, restarts, taken, miscounted>>

LockNotice(r) ==
  /\ req[r].pc = "idle"
  /\ NewCommand(r, "post")
  /\ UNCHANGED <<gauges, push, written, restarts, taken, miscounted>>
-----------------------------------------------------------------------------
(* The gauge of pending commands is changed by n for request r.            *)
Adjust(r, n) ==
  /\ pendingCommands' = pendingCommands + n
  /\ miscounted' = (miscounted \/ (n # 0 /\ \E x \in Request : req[x].pc = "set"))

(* SetCommandToUser with a command: the gauge counts it unless it takes    *)
(* the place of another one, and the phone is pushed over the URL in the   *)
(* copy (PushUser); then the row is saved.                                 *)
CountAlways(copy) == 1                            \* mutant: replaced commands counted
Count(copy) == 1 - Pending(copy)

SetCommandToUser(r) ==
  /\ req[r].pc = "post"
  /\ Adjust(r, Count(req[r].row))
  /\ (req[r].row.url # None /\ Push) \/ UNCHANGED <<woken, due>>
  /\ Goto(r, [req[r] EXCEPT !.pc = "save"])
  /\ UNCHANGED <<lastCmd, PushServers, later, written, restarts, taken>>

SaveCommand(r) ==
  /\ req[r].pc = "save"
  /\ Save(r, [req[r].row EXCEPT !.cmd = req[r].cmd])
  /\ due' = (woken \/ later \/ (due /\ row' = row))
  /\ Done(r)
  /\ UNCHANGED <<lastCmd, gauges, woken, later, restarts, taken>>

(* GetCommandToUser: the gauge is taken down if there is a command in the  *)
(* copy.                                                                   *)
GetCommandToUser(r) ==
  /\ req[r].pc = "get"
  /\ Adjust(r, -Pending(req[r].row))
  /\ Goto(r, [req[r] EXCEPT !.pc = "clear"])
  /\ UNCHANGED <<lastCmd, PushServers, push, written, restarts, taken>>

(* Then the copy is saved without it, and the command is the answer.       *)
NotCleared(copy) == copy                          \* mutant: the command stays
Cleared(copy) == [copy EXCEPT !.cmd = 0]
ClearCommand(r) ==
  /\ req[r].pc = "clear"
  /\ Save(r, Cleared(req[r].row))
  /\ taken' = taken \cup ({req[r].row.cmd} \cap Cmd)
  /\ due' = IF refusals' # refusals THEN woken \/ later ELSE due
  /\ Done(r)
  /\ UNCHANGED <<lastCmd, gauges, woken, later, restarts>>

(* SetPushUrl: the gauges follow the copy, then the copy is saved.         *)
WithUrlOnly(copy, url) == [NoRow EXCEPT !.url = url]    \* mutant: the rest is reset
WithUrl(copy, url) == [copy EXCEPT !.url = url]
SetPushUrl(r) ==
  /\ req[r].pc = "url"
  /\ \E url \in Url \cup {None} :
       LET new == WithUrl(req[r].row, url)
       IN  /\ Save(r, new)
           /\ PushServers' = [u \in Url |-> PushServers[u] - Servers(req[r].row)[u] + Servers(new)[u]]
  /\ Done(r)
  /\ UNCHANGED <<lastCmd, pendingCommands, push, restarts, taken>>
-----------------------------------------------------------------------------
(* DeleteUser of another account: all pending commands are counted, and    *)
(* the gauge is set to that number.                                        *)
CountCommands(r) ==
  /\ req[r].pc = "idle"
  /\ Goto(r, [Idle EXCEPT !.pc = "set", !.op = "recount", !.row = [NoRow EXCEPT !.cmd = row.cmd]])
  /\ miscounted' = (miscounted \/ \E x \in Request : Ahead(req[x]))
  /\ UNCHANGED <<lastCmd, gauges, push, written, restarts, taken>>

SetGauge(r) ==
  /\ req[r].pc = "set"
  /\ pendingCommands' = Pending(req[r].row)
  /\ Done(r)
  /\ UNCHANGED <<lastCmd, PushServers, push, written, restarts, taken, miscounted>>

(* The process dies and starts again: requests and delayed pushes are      *)
(* gone, the gauges are set from the table.                                *)
Restart ==
  /\ restarts < MaxRestart /\ restarts' = restarts + 1
  /\ req' = [r \in Request |-> Idle] /\ later' = FALSE
  /\ pendingCommands' = Pending(row) /\ PushServers' = Servers(row)
  /\ miscounted' = FALSE
  /\ due' = (due /\ woken)
  /\ UNCHANGED <<written, lastCmd, woken, taken>>

Continue(r) ==
  \/ Touch(r) \/ SetCommandToUser(r) \/ SaveCommand(r)
  \/ GetCommandToUser(r) \/ ClearCommand(r) \/ SetPushUrl(r) \/ SetGauge(r)

Next ==
  \/ \E r \in Request : GetUser(r) \/ Fetch(r) \/ LockNotice(r) \/ CountCommands(r) \/ Continue(r)
  \/ Login \/ PushLater \/ Restart

Spec == Init /\ [][Next]_vars
-----------------------------------------------------------------------------
(* The gauges say what the table says, whenever no request is under way:   *)
(* after restarts in the middle of a request, commands that replaced       *)
(* others, saves that were refused without being counted, and recounts;    *)
(* until two requests undo each other, or what was counted is refused.     *)
GaugesTrue ==
  ~miscounted /\ (\A r \in Request : req[r].pc = "idle") =>
    pendingCommands = Pending(row) /\ PushServers = Servers(row)

(* The slot is the mailbox of module Mailbox: whatever else requests of    *)
(* the account change, a command waits until a newer one takes its place   *)
(* or one request takes it, and another may take it again only where a     *)
(* save has been refused.  This holds until a copy of the row that had     *)
(* changed is written back.                                                *)
Box == INSTANCE Mailbox WITH
  Message <- Cmd, Nothing <- 0, box <- row.cmd
StepsOfMailbox == [][~stale' => [Box!Next]_(Box!box_vars)]_vars

(* No wake-up is wasted: once the phone has been woken, or a delayed push  *)
(* has been started, for the command in the table, the wake-up is still on *)
(* its way or a request is fetching this command, until it is taken or     *)
(* replaced, or a push or a fetch fails.                                   *)
Fetching(q) == q.op = "get" /\ q.row.cmd = row.cmd
NoWakeUpWasted ==
  ~stale /\ due /\ row.cmd # 0 => woken \/ later \/ \E r \in Request : Fetching(req[r])
=============================================================================

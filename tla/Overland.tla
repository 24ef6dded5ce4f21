------------------------------ MODULE Overland ------------------------------
(***************************************************************************)
(* The Overland bridge for one device: overland/main.go and the session of *)
(* overland/fmd.go and overland/family.go, between the phone, which is not *)
(* in this repository, and the server.                                     *)
(*                                                                         *)
(* The phone records points, numbered by their time, and posts all it      *)
(* holds as one batch.  A handler stores the points one by one, oldest     *)
(* first, each under the session's mutex; then it shares the newest, and   *)
(* answers.  The phone may have given up waiting and sent its points       *)
(* again, so several handlers work on overlapping batches.  Every call to  *)
(* the server may fail, or succeed and lose its answer.  The server also   *)
(* answers ok for a point that its database refused; what the server said  *)
(* (confirmed) and what it has (stored) are told apart.  That a point may  *)
(* be stored twice is left out: stored is a set.                           *)
(***************************************************************************)
EXTENDS FiniteSets, FiniteSetsExt, Integers

CONSTANTS
  Handler,    \* goroutines of handleOverland
  MaxPoint,   \* bound: points the phone records
  Malformed,  \* points without coordinates or with an unparseable timestamp
  ShareWith,  \* whether the device shares with anyone
  None        \* no handler

Point == 1..MaxPoint

ASSUME PointAssumption == MaxPoint \in Nat /\ Malformed \subseteq Point
ASSUME ShareAssumption == ShareWith \in BOOLEAN
ASSUME NoneAssumption == None \notin Handler

VARIABLES
  taken,      \* points recorded so far
  queue,      \* the phone's queue
  awaited,    \* the handler whose answer the phone waits for, or None
  handler,    \* what each handler is doing
  holder,     \* the handler that holds the session's mutex, or None
  token,      \* the session's access token, as the server would see it
  stored,     \* points in the account's history on the server
  lastPoint,  \* deviceState.lastPoint, 0 for none
  shared,     \* time of the sealed copies on the server, 0 for none
  calm,       \* from now on nothing fails, expires or is lost
  confirmed,  \* history: points for which the bridge had an ok from the server
  forsaken    \* history: points that failed in a batch which was answered ok,
              \* since another point of it was stored

vars == <<taken, queue, awaited, handler, holder, token, stored, lastPoint, shared,
          calm, confirmed, forsaken>>
phone == <<taken, queue, awaited>>
server == <<stored, shared>>
history == <<confirmed, forsaken>>

PC == {"idle", "next", "lock", "ensure", "post", "finish", "answer"}

(* A handler: the batch it was sent, the points still to do, the point it  *)
(* is sending to the server and what for, which try it is, whether some    *)
(* point was stored, and which failed (the code counts both).              *)
HandlerState == [pc : PC, batch : SUBSET Point, todo : SUBSET Point,
                 job : {"store", "share"}, point : Point \cup {0}, attempt : 0..1,
                 stored : BOOLEAN, failed : SUBSET Point, newest : Point \cup {0}]

Idle == [pc |-> "idle", batch |-> {}, todo |-> {}, job |-> "store", point |-> 0,
         attempt |-> 0, stored |-> FALSE, failed |-> {}, newest |-> 0]

TypeOK ==
  /\ taken \in Point \cup {0} /\ queue \subseteq 1..taken
  /\ awaited \in Handler \cup {None}
  /\ handler \in [Handler -> HandlerState]
  /\ holder \in Handler \cup {None}
  /\ token \in {"none", "good", "expired"}
  /\ stored \subseteq 1..taken
  /\ {lastPoint, shared} \subseteq 0..taken
  /\ calm \in BOOLEAN
  /\ confirmed \subseteq 1..taken /\ forsaken \subseteq Point

Init ==
  /\ taken = 0 /\ queue = {} /\ awaited = None
  /\ handler = [h \in Handler |-> Idle]
  /\ holder = None /\ token = "none"
  /\ stored = {} /\ lastPoint = 0 /\ shared = 0
  /\ calm = FALSE /\ confirmed = {} /\ forsaken = {}

Goto(h, state) == handler' = [handler EXCEPT ![h] = state]
At(h, pc) == handler[h].pc = pc
-----------------------------------------------------------------------------
(* The phone.                                                              *)
Record ==
  /\ taken < MaxPoint
  /\ taken' = taken + 1
  /\ queue' = queue \cup {taken + 1}
  /\ UNCHANGED <<awaited, handler, holder, token, server, lastPoint, calm, history>>

(* A batch reaches the bridge: its points are sorted, and lastSeen is set. *)
Send(h) ==
  /\ awaited = None /\ queue # {}
  /\ At(h, "idle")
  /\ Goto(h, [Idle EXCEPT !.pc = "next", !.batch = queue, !.todo = queue])
  /\ awaited' = h
  /\ UNCHANGED <<taken, queue, holder, token, server, lastPoint, calm, history>>

(* The phone gives up waiting; the handler does not notice.                *)
GiveUp ==
  /\ awaited # None /\ ~calm
  /\ awaited' = None
  /\ UNCHANGED <<taken, queue, handler, holder, token, server, lastPoint, calm, history>>
-----------------------------------------------------------------------------
(* What toFmdJSON makes of a point: an error, or the app's own format.     *)
Convertible(p) == p \notin Malformed

(* The handler's loop.  A point that cannot be converted fails on its own. *)
StopAtBad(state, p) ==                             \* mutant: the batch ends there
  [state EXCEPT !.pc = "answer", !.failed = @ \cup {p}]
SkipBad(state, p) == [state EXCEPT !.failed = @ \cup {p}]
NextPoint(h) ==
  /\ At(h, "next") /\ handler[h].todo # {}
  /\ LET p    == Min(handler[h].todo)
         rest == [handler[h] EXCEPT !.todo = @ \ {p}]
     IN  Goto(h, IF ~Convertible(p)
                 THEN SkipBad(rest, p)
                 ELSE [rest EXCEPT !.pc = "lock", !.point = p])
  /\ UNCHANGED <<phone, holder, token, server, lastPoint, calm, history>>

(* Past the loop the counters are brought up to date, and the newest point *)
(* that was stored is shared, if there is one.                             *)
Finish(h) ==
  /\ At(h, "next") /\ handler[h].todo = {}
  /\ LET new == handler[h].newest
     IN  /\ lastPoint' = IF new # 0 THEN new ELSE lastPoint
         /\ Goto(h, IF new = 0 \/ ~ShareWith
                    THEN [handler[h] EXCEPT !.pc = "answer", !.newest = 0]
                    ELSE [handler[h] EXCEPT !.pc = "lock", !.job = "share", !.point = new,
                                            !.newest = 0])
  /\ UNCHANGED <<phone, holder, token, server, calm, history>>

(* session.store and session.shareNewest hold the session's mutex from     *)
(* here until they return.                                                 *)
Lock(h) ==
  /\ At(h, "lock") /\ holder = None
  /\ holder' = h
  /\ Goto(h, [handler[h] EXCEPT !.pc = "ensure"])
  /\ UNCHANGED <<phone, token, server, lastPoint, calm, history>>

(* How store returns to the loop, and shareNewest to the end: the outcome  *)
(* of sharing is logged only.                                              *)
Failed(h, ok) == handler[h].failed \cup IF ok THEN {} ELSE {handler[h].point}
AfterStoreHolding(h, ok) ==                        \* mutant: no unlock on error
  /\ holder' = IF ok THEN None ELSE holder
  /\ Goto(h, [handler[h] EXCEPT !.pc = "next", !.point = 0, !.attempt = 0,
                                !.failed = Failed(h, ok), !.stored = @ \/ ok,
                                !.newest = IF ok THEN Max({@, handler[h].point}) ELSE @])
AfterStoreClaiming(h, ok) ==                       \* mutant: newest set on error too
  /\ holder' = None
  /\ Goto(h, [handler[h] EXCEPT !.pc = "next", !.point = 0, !.attempt = 0,
                                !.failed = Failed(h, ok), !.stored = @ \/ ok,
                                !.newest = Max({@, handler[h].point})])
AfterStore(h, ok) ==
  /\ holder' = None
  /\ Goto(h, [handler[h] EXCEPT !.pc = "next", !.point = 0, !.attempt = 0,
                                !.failed = Failed(h, ok), !.stored = @ \/ ok,
                                !.newest = IF ok THEN Max({@, handler[h].point}) ELSE @])
AfterShare(h) ==
  /\ holder' = None
  /\ Goto(h, [handler[h] EXCEPT !.pc = "answer", !.job = "store", !.point = 0, !.attempt = 0])
Return(h, ok) ==
  IF handler[h].job = "store" THEN AfterStore(h, ok) ELSE AfterShare(h)

(* ensure: log in and fetch the public key, unless there is a token.       *)
Ensure(h) ==
  /\ At(h, "ensure")
  /\ \/ /\ token # "none"
        /\ Goto(h, [handler[h] EXCEPT !.pc = "post"])
        /\ UNCHANGED <<holder, token>>
     \/ /\ token = "none"
        /\ token' = "good"
        /\ Goto(h, [handler[h] EXCEPT !.pc = "post"])
        /\ UNCHANGED holder
     \/ /\ token = "none" /\ ~calm
        /\ Return(h, FALSE)
        /\ UNCHANGED token
  /\ UNCHANGED <<phone, server, lastPoint, calm, history>>

(* What the server does with a request it answers ok: a point is added to  *)
(* the history, unless the insert fails, whose error AddLocation never     *)
(* sees; a copy is kept unless a newer one is there (PutSealed).           *)
KeepNewer(p) == shared' = Max({shared, p})
Accept(h) ==
  LET p == handler[h].point
  IN  IF handler[h].job = "store"
      THEN /\ stored' = stored \cup {p} \/ (~calm /\ UNCHANGED stored)
           /\ UNCHANGED shared
      ELSE KeepNewer(p) /\ UNCHANGED stored

PostSucceeds(h) ==
  /\ At(h, "post") /\ token = "good"
  /\ Accept(h)
  /\ Return(h, TRUE)
  /\ confirmed' = confirmed \cup IF handler[h].job = "store" THEN {handler[h].point} ELSE {}
  /\ UNCHANGED <<phone, token, lastPoint, calm, forsaken>>

(* A 401, or an error whose text happens to contain 401 (store looks for   *)
(* it in the message, which may name a port): the token is dropped and the *)
(* request tried once more.                                                *)
TryEver(h) ==                                      \* mutant: no limit
  /\ token' = "none"
  /\ Goto(h, [handler[h] EXCEPT !.pc = "ensure", !.attempt = @ + 1])
  /\ UNCHANGED holder
TryAsBefore(h) ==                                  \* mutant: the token kept
  /\ handler[h].attempt = 0
  /\ Goto(h, [handler[h] EXCEPT !.pc = "ensure", !.attempt = 1])
  /\ UNCHANGED <<holder, token>>
TryAgain(h) ==
  /\ handler[h].attempt = 0
  /\ token' = "none"
  /\ Goto(h, [handler[h] EXCEPT !.pc = "ensure", !.attempt = 1])
  /\ UNCHANGED holder
GiveUpPost(h) ==
  /\ Return(h, FALSE)
  /\ UNCHANGED token

Unauthorized(h) ==
  /\ At(h, "post") /\ token = "expired"
  /\ TryAgain(h) \/ (handler[h].attempt = 1 /\ GiveUpPost(h))
  /\ UNCHANGED <<phone, server, lastPoint, calm, history>>

(* The request, or its answer, is lost, or the server refuses it.          *)
PostFails(h) ==
  /\ At(h, "post") /\ ~calm
  /\ \/ token = "good" /\ Accept(h)
     \/ UNCHANGED server
  /\ GiveUpPost(h) \/ (handler[h].job = "store" /\ TryAgain(h))
  /\ UNCHANGED <<phone, lastPoint, calm, history>>

(* Overland deletes its queue only upon an ok, which a batch gets unless   *)
(* none of its points was stored and some failed.                          *)
AlwaysOk(state) == TRUE                            \* mutant: no 502
Ok(state) == state.failed = {} \/ state.stored

Drop(h) == queue' = IF Ok(handler[h]) THEN queue \ handler[h].batch ELSE queue

Answer(h) ==
  /\ At(h, "answer") /\ awaited = h
  /\ awaited' = None
  /\ Drop(h)
  /\ forsaken' = forsaken \cup IF handler[h].stored THEN handler[h].failed ELSE {}
  /\ Goto(h, Idle)
  /\ UNCHANGED <<taken, holder, token, server, lastPoint, calm, confirmed>>

(* The answer is lost, or the phone no longer waits for it.                *)
AnswerLost(h) ==
  /\ At(h, "answer")
  /\ awaited = h => ~calm
  /\ awaited' = IF awaited = h THEN None ELSE awaited
  /\ Goto(h, Idle)
  /\ UNCHANGED <<taken, queue, holder, token, server, lastPoint, calm, history>>
-----------------------------------------------------------------------------
(* The server forgets the session, after a week or upon its own restart.   *)
ExpireToken ==
  /\ token = "good" /\ ~calm
  /\ token' = "expired"
  /\ UNCHANGED <<phone, handler, holder, server, lastPoint, calm, history>>

(* The bridge is restarted: sessions, handlers and counters are gone.      *)
Restart ==
  /\ ~calm
  /\ awaited' = None
  /\ handler' = [h \in Handler |-> Idle]
  /\ holder' = None /\ token' = "none" /\ lastPoint' = 0
  /\ UNCHANGED <<taken, queue, server, calm, history>>

Settle ==
  /\ ~calm /\ calm' = TRUE
  /\ UNCHANGED <<phone, handler, holder, token, server, lastPoint, history>>

Step(h) ==
  \/ NextPoint(h) \/ Finish(h) \/ Lock(h) \/ Ensure(h)
  \/ PostSucceeds(h) \/ Unauthorized(h) \/ PostFails(h)
  \/ Answer(h) \/ AnswerLost(h)

Next ==
  \/ \E h \in Handler : Send(h) \/ Step(h)
  \/ Record \/ GiveUp \/ ExpireToken \/ Restart \/ Settle

Spec == Init /\ [][Next]_vars

(* The Go scheduler runs every handler that can run; sync.Mutex does not   *)
(* let a waiter starve; and the phone keeps sending.                       *)
FairSpec ==
  /\ Spec
  /\ \A h \in Handler : WF_vars(Step(h)) /\ SF_vars(Lock(h))
  /\ WF_vars(\E h \in Handler : Send(h))
-----------------------------------------------------------------------------
(* The phone drops a point only when the server confirmed it, whatever     *)
(* times out or is sent twice; but for the points that failed beside one   *)
(* that was stored.  Confirmed is all the bridge can know: see Accept.     *)
DroppedIsConfirmed == 1..taken \subseteq queue \cup confirmed \cup forsaken

(* What the bridge shows as the last point, and what it shares with the    *)
(* family, was confirmed by the server, also when the newest point of a    *)
(* batch failed.                                                           *)
ClaimsAreConfirmed == {lastPoint, shared} \subseteq confirmed \cup {0}

(* The session's mutex is held by the one handler that talks to the        *)
(* server, on every path out of store and shareNewest.                     *)
MutexFollowsHandler ==
  \A h \in Handler : handler[h].pc \in {"ensure", "post"} <=> holder = h

(* Every batch is answered in the end, however many handlers share the     *)
(* session and however many times the server refuses.                      *)
EveryBatchAnswered == \A h \in Handler : ~At(h, "idle") ~> At(h, "idle")

(* Once nothing fails any more, every point still in the queue that can be *)
(* converted gets into the history, also behind one that cannot be, unless *)
(* an answer settled before had the phone drop it.                         *)
QueueIsStored ==
  \A p \in Point : (calm /\ p \in queue /\ Convertible(p)) ~>
    (p \in stored \/ p \in (confirmed \cup forsaken) \ queue)
-----------------------------------------------------------------------------
(* overland/main.go, handleOverland: the response that makes Overland      *)
(* delete its queue is not returned when a point failed to store.          *)
NothingLost == 1..taken \subseteq queue \cup confirmed
=============================================================================

--------------------------- MODULE Overland_proofs ---------------------------
(***************************************************************************)
(* Proofs about Overland: for any number of handlers and of points, the    *)
(* phone drops no point that was not confirmed, but those that failed      *)
(* beside a stored one, and the bridge claims none that was not confirmed. *)
(***************************************************************************)
EXTENDS Overland, Extremes

(* What a handler in state s knows, when the phone has recorded last       *)
(* points and the server has confirmed those in got.  What was taken off   *)
(* the batch is confirmed, or in hand, or the handler knows that it failed.*)
Sane(s, last, got) ==
  /\ s.todo \subseteq s.batch /\ s.batch \subseteq 1..last
  /\ s.pc = "answer" \/ s.job = "share" => s.todo = {}
  /\ s.pc \in {"lock", "ensure", "post"} => s.point \in 1..last
  /\ s.pc \in {"idle", "next", "answer"} => s.point = 0 /\ s.job = "store"
  /\ s.job = "share" => s.point \in got
  /\ s.newest \in got \cup {0}
  /\ s.batch \ s.todo \subseteq got \cup s.failed \cup {s.point}

HandlersSane == \A h \in Handler : Sane(handler[h], taken, confirmed)

Consistent ==
  TypeOK /\ MutexFollowsHandler /\ HandlersSane /\ ClaimsAreConfirmed /\ DroppedIsConfirmed
-----------------------------------------------------------------------------
Talking(s) == s.pc \in {"ensure", "post"}

(* The values that the steps below put into a handler's state.             *)
LEMMA HandlerFields ==
  /\ {0, 1} \subseteq 0..1
  /\ {"idle", "next", "lock", "ensure", "post", "finish", "answer"} \subseteq PC
BY DEF PC

(* A handler that moves on sanely leaves the others as sane as they were.  *)
LEMMA HandlerStep ==
  ASSUME TypeOK, HandlersSane, NEW h \in Handler, NEW s \in HandlerState, Goto(h, s),
         Sane(s, taken', confirmed'), 1..taken \subseteq 1..taken', confirmed \subseteq confirmed'
  PROVE  handler' \in [Handler -> HandlerState] /\ HandlersSane'
<1>1. handler' = [handler EXCEPT ![h] = s]
  BY DEF Goto
<1>2. handler' \in [Handler -> HandlerState]
  BY <1>1 DEF TypeOK
<1>3. ASSUME NEW g \in Handler  PROVE Sane(handler'[g], taken', confirmed')
  <2>1. CASE g = h
    BY <1>1, <2>1 DEF TypeOK
  <2>2. CASE g # h
    <3>1. handler'[g] = handler[g] /\ Sane(handler[g], taken, confirmed)
      BY <1>1, <2>2 DEF TypeOK, HandlersSane
    <3> QED BY <3>1 DEF Sane
  <2> QED BY <2>1, <2>2
<1> QED BY <1>2, <1>3 DEF HandlersSane

(* The mutex stays where it is, is taken when free, or is given back.      *)
LEMMA MutexStep ==
  ASSUME TypeOK, MutexFollowsHandler, NEW h \in Handler, NEW s \in HandlerState, Goto(h, s),
         \/ holder' = holder /\ (Talking(s) <=> Talking(handler[h]))
         \/ holder = None /\ holder' = h /\ Talking(s)
         \/ Talking(handler[h]) /\ holder' = None /\ ~Talking(s)
  PROVE  MutexFollowsHandler' /\ holder' \in Handler \cup {None}
<1>1. handler'[h] = s /\ \A g \in Handler \ {h} : handler'[g] = handler[g]
  BY DEF Goto, TypeOK
<1>2. \A g \in Handler : Talking(handler[g]) <=> holder = g
  BY DEF MutexFollowsHandler, Talking
<1>3. holder' \in Handler \cup {None}
  BY DEF TypeOK
<1>4. \A g \in Handler : Talking(handler'[g]) <=> holder' = g
  BY <1>1, <1>2, NoneAssumption
<1> QED BY <1>3, <1>4 DEF MutexFollowsHandler, Talking

(* Returning from store or shareNewest, whether it succeeded or not.       *)
LEMMA ReturnStep ==
  ASSUME TypeOK, HandlersSane, MutexFollowsHandler, NEW h \in Handler, NEW ok \in BOOLEAN,
         Talking(handler[h]), Return(h, ok), taken' = taken, confirmed \subseteq confirmed',
         ok /\ handler[h].job = "store" => handler[h].point \in confirmed'
  PROVE  /\ handler' \in [Handler -> HandlerState] /\ HandlersSane'
         /\ MutexFollowsHandler' /\ holder' \in Handler \cup {None}
<1>1. handler[h] \in HandlerState /\ Sane(handler[h], taken, confirmed)
  BY DEF TypeOK, HandlersSane
<1>2. CASE handler[h].job = "store"
  <2> DEFINE top == IF ok THEN Max({handler[h].newest, handler[h].point}) ELSE handler[h].newest
             s == [handler[h] EXCEPT !.pc = "next", !.point = 0, !.attempt = 0,
                                     !.failed = Failed(h, ok), !.stored = @ \/ ok, !.newest = top]
  <2>1. Goto(h, s) /\ holder' = None
    BY <1>2 DEF Return, AfterStore
  <2>2. handler[h].point \in 1..taken /\ handler[h].newest \in 0..taken /\ taken \in Nat
    <3>1. taken \in Nat
      BY PointAssumption DEF TypeOK, Point
    <3>2. handler[h].newest \in confirmed \cup {0} /\ confirmed \subseteq 1..taken
      BY <1>1 DEF Sane, TypeOK
    <3>3. handler[h].point \in 1..taken
      BY <1>1 DEF Sane, Talking
    <3>4. handler[h].newest \in 1..taken \/ handler[h].newest = 0
      BY <3>2
    <3> QED BY <3>1, <3>3, <3>4
  <2>3. ok => Max({handler[h].newest, handler[h].point}) \in {handler[h].newest, handler[h].point}
    BY <2>2, MaxOfTwo
  <2>4. top \in Point \cup {0} /\ top \in confirmed' \cup {0}
    BY <1>1, <1>2, <2>2, <2>3, PointAssumption DEF Sane, HandlerState, Point, TypeOK
  <2>9. Failed(h, ok) \in SUBSET Point
    BY <1>1, <2>2, PointAssumption DEF Failed, HandlerState, Point, TypeOK
  <2> HIDE DEF top
  <2>5. s \in HandlerState
    BY <1>1, <2>4, <2>9, HandlerFields DEF HandlerState
  <2>6. /\ s.pc = "next" /\ s.point = 0 /\ s.newest = top /\ s.batch = handler[h].batch
        /\ s.todo = handler[h].todo /\ s.job = "store" /\ s.failed = Failed(h, ok)
    BY <1>1, <1>2 DEF HandlerState
  <2> HIDE DEF s
  <2>7. Sane(s, taken', confirmed')
    BY <1>1, <1>2, <2>4, <2>6 DEF Sane, Failed
  <2>8. ~Talking(s)
    BY <2>6 DEF Talking
  <2> QED BY <2>1, <2>5, <2>7, <2>8, HandlerStep, MutexStep
<1>3. CASE handler[h].job # "store"
  <2> DEFINE s == [handler[h] EXCEPT !.pc = "answer", !.job = "store", !.point = 0, !.attempt = 0]
  <2>1. Goto(h, s) /\ holder' = None
    BY <1>3 DEF Return, AfterShare
  <2>2. handler[h].job = "share"
    BY <1>1, <1>3 DEF HandlerState
  <2>3. s \in HandlerState
    BY <1>1, HandlerFields DEF HandlerState
  <2>4. /\ s.pc = "answer" /\ s.point = 0 /\ s.newest = handler[h].newest /\ s.job = "store"
        /\ s.batch = handler[h].batch /\ s.todo = handler[h].todo /\ s.failed = handler[h].failed
    BY <1>1 DEF HandlerState
  <2> HIDE DEF s
  <2>5. Sane(s, taken', confirmed')
    BY <1>1, <2>2, <2>4 DEF Sane
  <2>6. ~Talking(s)
    BY <2>4 DEF Talking
  <2> QED BY <2>1, <2>3, <2>5, <2>6, HandlerStep, MutexStep
<1> QED BY <1>2, <1>3

(* Dropping the token and trying once more.                                *)
LEMMA TryAgainStep ==
  ASSUME TypeOK, HandlersSane, MutexFollowsHandler, NEW h \in Handler, At(h, "post"),
         TryAgain(h), taken' = taken, confirmed \subseteq confirmed'
  PROVE  /\ handler' \in [Handler -> HandlerState] /\ HandlersSane'
         /\ MutexFollowsHandler' /\ holder' \in Handler \cup {None}
<1> DEFINE s == [handler[h] EXCEPT !.pc = "ensure", !.attempt = 1]
<1>1. handler[h] \in HandlerState /\ Sane(handler[h], taken, confirmed)
  BY DEF TypeOK, HandlersSane
<1>2. s \in HandlerState
  BY <1>1, HandlerFields DEF HandlerState
<1>3. /\ s.pc = "ensure" /\ s.point = handler[h].point /\ s.newest = handler[h].newest
      /\ s.job = handler[h].job /\ s.batch = handler[h].batch /\ s.todo = handler[h].todo
      /\ s.failed = handler[h].failed
  BY <1>1 DEF HandlerState
<1>4. Goto(h, s) /\ holder' = holder
  BY DEF TryAgain
<1> HIDE DEF s
<1>5. Sane(s, taken', confirmed')
  BY <1>1, <1>3 DEF Sane, At
<1>6. Talking(s) /\ Talking(handler[h])
  BY <1>3 DEF Talking, At
<1> QED BY <1>2, <1>4, <1>5, <1>6, HandlerStep, MutexStep
-----------------------------------------------------------------------------
(* At the start nothing has been sent.                                     *)
LEMMA ConsistentInit == Init => Consistent
<1> SUFFICES ASSUME Init PROVE Consistent
  OBVIOUS
<1>1. Idle \in HandlerState
  BY HandlerFields DEF Idle, HandlerState
<1>2. TypeOK
  <2>1. taken \in Point \cup {0} /\ queue \subseteq 1..taken /\ {stored, confirmed} \subseteq SUBSET (1..taken)
    BY DEF Init
  <2>2. handler \in [Handler -> HandlerState]
    BY <1>1 DEF Init
  <2>3. {lastPoint, shared} \subseteq 0..taken
    BY DEF Init
  <2>4. calm \in BOOLEAN /\ forsaken \subseteq Point
    BY DEF Init
  <2> QED BY <2>1, <2>2, <2>3, <2>4 DEF Init, TypeOK
<1>3. MutexFollowsHandler
  BY NoneAssumption DEF Init, Idle, MutexFollowsHandler
<1>4. HandlersSane
  BY DEF Init, Idle, HandlersSane, Sane
<1>5. ClaimsAreConfirmed /\ DroppedIsConfirmed
  BY DEF Init, ClaimsAreConfirmed, DroppedIsConfirmed
<1> QED BY <1>2, <1>3, <1>4, <1>5 DEF Consistent

(* A step that keeps the phone's queue, the server's history and the truth *)
(* of what the bridge claims.                                              *)
LEMMA QuietStep ==
  ASSUME Consistent, UNCHANGED <<taken, queue, forsaken>>,
         confirmed \subseteq confirmed', {stored', confirmed'} \subseteq SUBSET (1..taken),
         {lastPoint', shared'} \subseteq confirmed' \cup {0},
         handler' \in [Handler -> HandlerState], holder' \in Handler \cup {None},
         awaited' \in Handler \cup {None}, token' \in {"none", "good", "expired"},
         calm' \in BOOLEAN, MutexFollowsHandler', HandlersSane'
  PROVE  Consistent'
<1>1. taken \in Nat
  BY PointAssumption DEF Consistent, TypeOK, Point
<1>2. {lastPoint', shared'} \subseteq 0..taken
  <2>1. \A t \in confirmed' \cup {0} : t \in 0..taken
    BY <1>1
  <2> QED BY <2>1
<1>3. TypeOK'
  BY <1>2 DEF Consistent, TypeOK
<1>4. ClaimsAreConfirmed'
  BY DEF ClaimsAreConfirmed
<1>5. DroppedIsConfirmed'
  BY DEF Consistent, DroppedIsConfirmed
<1> QED BY <1>3, <1>4, <1>5 DEF Consistent

(* Taking the oldest point off the batch.                                  *)
LEMMA NextPointStep ==
  ASSUME Consistent, NEW h \in Handler, NextPoint(h)
  PROVE  Consistent'
<1> DEFINE p == Min(handler[h].todo)
           rest == [handler[h] EXCEPT !.todo = @ \ {p}]
           bad == SkipBad(rest, p)
           good == [rest EXCEPT !.pc = "lock", !.point = p]
<1>1. handler[h] \in HandlerState /\ Sane(handler[h], taken, confirmed) /\ handler[h].pc = "next"
  BY DEF NextPoint, At, Consistent, TypeOK, HandlersSane
<1>2. p \in handler[h].todo
  <2>1. handler[h].todo \subseteq Nat
    BY <1>1, PointAssumption DEF HandlerState, Point
  <2> QED BY <2>1, MinOfNaturals DEF NextPoint
<1>3. p \in Point /\ p \in 1..taken
  BY <1>1, <1>2 DEF HandlerState, Sane
<1> HIDE DEF p
<1>4. rest \in HandlerState
  BY <1>1 DEF HandlerState
<1>5. /\ rest.pc = "next" /\ rest.point = 0 /\ rest.newest = handler[h].newest
      /\ rest.job = "store" /\ rest.batch = handler[h].batch /\ rest.failed = handler[h].failed
      /\ rest.todo = handler[h].todo \ {p}
  BY <1>1 DEF HandlerState, Sane
<1> HIDE DEF rest
<1>6. bad \in HandlerState /\ good \in HandlerState
  BY <1>3, <1>4, HandlerFields DEF HandlerState, SkipBad
<1>7. Sane(bad, taken, confirmed)
  <2>1. /\ bad.pc = "next" /\ bad.point = 0 /\ bad.newest = handler[h].newest
        /\ bad.job = "store" /\ bad.batch = handler[h].batch /\ bad.failed = handler[h].failed \cup {p}
        /\ bad.todo = handler[h].todo \ {p}
    BY <1>4, <1>5 DEF HandlerState, SkipBad
  <2> HIDE DEF bad
  <2> QED BY <1>1, <2>1 DEF Sane
<1>8. Sane(good, taken, confirmed)
  <2>1. /\ good.pc = "lock" /\ good.point = p /\ good.newest = handler[h].newest
        /\ good.job = "store" /\ good.batch = handler[h].batch
        /\ good.failed = handler[h].failed /\ good.todo = handler[h].todo \ {p}
    BY <1>4, <1>5 DEF HandlerState
  <2> HIDE DEF good
  <2> QED BY <1>1, <1>3, <2>1 DEF Sane
<1>9. PICK s \in {bad, good} : Goto(h, s)
  BY DEF NextPoint, p, rest
<1>10. s \in HandlerState /\ Sane(s, taken', confirmed') /\ ~Talking(s) /\ ~Talking(handler[h])
  <2>1. bad.pc = "next" /\ good.pc = "lock"
    BY <1>4, <1>5 DEF HandlerState, SkipBad
  <2> QED BY <1>1, <1>6, <1>7, <1>8, <1>9, <2>1 DEF NextPoint, phone, server, history, Talking
<1>11. /\ handler' \in [Handler -> HandlerState] /\ HandlersSane'
       /\ MutexFollowsHandler' /\ holder' \in Handler \cup {None}
  BY <1>9, <1>10, HandlerStep, MutexStep DEF NextPoint, phone, server, history, Consistent
<1> QED BY <1>11, QuietStep DEF NextPoint, phone, server, history, Consistent, TypeOK, ClaimsAreConfirmed

(* Past the loop: the newest stored point is claimed, and to be shared.    *)
LEMMA FinishStep ==
  ASSUME Consistent, NEW h \in Handler, Finish(h)
  PROVE  Consistent'
<1> DEFINE new == handler[h].newest
           done == [handler[h] EXCEPT !.pc = "answer", !.newest = 0]
           share == [handler[h] EXCEPT !.pc = "lock", !.job = "share", !.point = new, !.newest = 0]
<1>1. handler[h] \in HandlerState /\ Sane(handler[h], taken, confirmed) /\ handler[h].pc = "next"
  BY DEF Finish, At, Consistent, TypeOK, HandlersSane
<1>2. new \in confirmed \cup {0} /\ new \in Point \cup {0} /\ confirmed \subseteq 1..taken
  BY <1>1 DEF Sane, HandlerState, Consistent, TypeOK
<1>3. done \in HandlerState /\ share \in HandlerState
  BY <1>1, <1>2, HandlerFields DEF HandlerState
<1>4. Sane(done, taken, confirmed)
  <2>1. /\ done.pc = "answer" /\ done.point = 0 /\ done.newest = 0 /\ done.job = "store"
        /\ done.batch = handler[h].batch /\ done.failed = handler[h].failed
        /\ done.todo = handler[h].todo
    BY <1>1 DEF HandlerState, Sane
  <2> HIDE DEF done
  <2> QED BY <1>1, <2>1 DEF Sane, Finish
<1>5. new # 0 => Sane(share, taken, confirmed)
  <2>1. /\ share.pc = "lock" /\ share.point = new /\ share.newest = 0 /\ share.job = "share"
        /\ share.batch = handler[h].batch /\ share.failed = handler[h].failed
        /\ share.todo = handler[h].todo
    BY <1>1 DEF HandlerState
  <2>2. handler[h].point = 0
    BY <1>1 DEF Sane
  <2> HIDE DEF share
  <2> QED BY <1>1, <1>2, <2>1, <2>2 DEF Sane, Finish
<1>6. PICK s \in {done, share} : Goto(h, s) /\ (s = share => new # 0)
  <2>1. done # share
    BY <1>1 DEF HandlerState
  <2> QED BY <2>1 DEF Finish
<1>7. s \in HandlerState /\ Sane(s, taken', confirmed') /\ ~Talking(s) /\ ~Talking(handler[h])
  <2>1. done.pc = "answer" /\ share.pc = "lock"
    BY <1>1 DEF HandlerState
  <2> QED BY <1>1, <1>3, <1>4, <1>5, <1>6, <2>1 DEF Finish, phone, server, history, Talking
<1>8. /\ handler' \in [Handler -> HandlerState] /\ HandlersSane'
      /\ MutexFollowsHandler' /\ holder' \in Handler \cup {None}
  BY <1>6, <1>7, HandlerStep, MutexStep DEF Finish, phone, server, history, Consistent
<1>9. {lastPoint', shared'} \subseteq confirmed' \cup {0}
  BY <1>2 DEF Finish, server, history, Consistent, ClaimsAreConfirmed
<1> QED BY <1>8, <1>9, QuietStep DEF Finish, phone, server, history, Consistent, TypeOK

(* Taking the mutex.                                                       *)
LEMMA LockStep ==
  ASSUME Consistent, NEW h \in Handler, Lock(h)
  PROVE  Consistent'
<1> DEFINE s == [handler[h] EXCEPT !.pc = "ensure"]
<1>1. handler[h] \in HandlerState /\ Sane(handler[h], taken, confirmed) /\ handler[h].pc = "lock"
  BY DEF Lock, At, Consistent, TypeOK, HandlersSane
<1>2. s \in HandlerState
  BY <1>1, HandlerFields DEF HandlerState
<1>3. /\ s.pc = "ensure" /\ s.point = handler[h].point /\ s.newest = handler[h].newest
      /\ s.job = handler[h].job /\ s.batch = handler[h].batch /\ s.todo = handler[h].todo
      /\ s.failed = handler[h].failed
  BY <1>1 DEF HandlerState
<1>4. Goto(h, s)
  BY DEF Lock
<1> HIDE DEF s
<1>5. Sane(s, taken', confirmed') /\ Talking(s)
  BY <1>1, <1>3 DEF Sane, Lock, phone, server, history, Talking
<1>6. /\ handler' \in [Handler -> HandlerState] /\ HandlersSane'
      /\ MutexFollowsHandler' /\ holder' \in Handler \cup {None}
  BY <1>2, <1>4, <1>5, HandlerStep, MutexStep DEF Lock, phone, server, history, Consistent
<1> QED BY <1>6, QuietStep DEF Lock, phone, server, history, Consistent, TypeOK, ClaimsAreConfirmed

(* Logging in, or failing to.                                              *)
LEMMA EnsureStep ==
  ASSUME Consistent, NEW h \in Handler, Ensure(h)
  PROVE  Consistent'
<1> DEFINE s == [handler[h] EXCEPT !.pc = "post"]
<1>1. handler[h] \in HandlerState /\ Sane(handler[h], taken, confirmed) /\ handler[h].pc = "ensure"
  BY DEF Ensure, At, Consistent, TypeOK, HandlersSane
<1>2. UNCHANGED <<taken, queue, awaited, stored, confirmed, forsaken, shared, lastPoint, calm>>
  BY DEF Ensure, phone, server, history
<1>3. token' \in {"none", "good", "expired"}
  BY DEF Ensure, Consistent, TypeOK
<1>4. /\ handler' \in [Handler -> HandlerState] /\ HandlersSane'
      /\ MutexFollowsHandler' /\ holder' \in Handler \cup {None}
  <2>1. CASE Return(h, FALSE)
    <3>1. Talking(handler[h])
      BY <1>1 DEF Talking
    <3> QED BY <1>2, <2>1, <3>1, ReturnStep DEF Consistent
  <2>2. CASE Goto(h, s) /\ holder' = holder
    <3>1. s \in HandlerState
      BY <1>1, HandlerFields DEF HandlerState
    <3>2. /\ s.pc = "post" /\ s.point = handler[h].point /\ s.newest = handler[h].newest
          /\ s.job = handler[h].job /\ s.batch = handler[h].batch /\ s.todo = handler[h].todo
          /\ s.failed = handler[h].failed
      BY <1>1 DEF HandlerState
    <3> HIDE DEF s
    <3>3. Sane(s, taken', confirmed')
      BY <1>1, <1>2, <3>2 DEF Sane
    <3>4. Talking(s) /\ Talking(handler[h])
      BY <1>1, <3>2 DEF Talking
    <3> QED BY <1>2, <2>2, <3>1, <3>3, <3>4, HandlerStep, MutexStep DEF Consistent
  <2> QED BY <2>1, <2>2 DEF Ensure
<1> QED BY <1>2, <1>3, <1>4, QuietStep DEF Consistent, TypeOK, ClaimsAreConfirmed

(* What the server does with a request it answers ok: a point is stored or *)
(* it is not, but only a confirmed one is shared.                          *)
LEMMA AcceptStep ==
  ASSUME Consistent, NEW h \in Handler, At(h, "post"), Accept(h)
  PROVE  stored' \subseteq 1..taken /\ shared' \in confirmed \cup {0}
<1>1. Sane(handler[h], taken, confirmed) /\ handler[h] \in HandlerState
  BY DEF Consistent, HandlersSane, TypeOK
<1>2. /\ handler[h].point \in 1..taken /\ confirmed \subseteq 1..taken /\ stored \subseteq 1..taken
      /\ shared \in confirmed \cup {0}
  BY <1>1 DEF Sane, At, Consistent, TypeOK, ClaimsAreConfirmed
<1>3. CASE handler[h].job = "store"
  BY <1>2, <1>3 DEF Accept
<1>4. CASE handler[h].job # "store"
  <2>1. handler[h].point \in confirmed
    BY <1>1, <1>4 DEF HandlerState, Sane
  <2>2. handler[h].point \in Nat /\ shared \in Nat
    <3>1. \A t \in confirmed \cup {0} : t \in Nat
      BY <1>2
    <3> QED BY <1>2, <3>1
  <2>3. Max({shared, handler[h].point}) \in {shared, handler[h].point}
    BY <2>2, MaxOfTwo
  <2>4. shared' = Max({shared, handler[h].point}) /\ stored' = stored
    BY <1>4 DEF Accept, KeepNewer
  <2> QED BY <1>2, <2>1, <2>3, <2>4
<1> QED BY <1>3, <1>4

(* A request to the server, whether it gets through and is answered, is    *)
(* refused, or is lost on the way there or back.                           *)
LEMMA PostStep ==
  ASSUME Consistent, NEW h \in Handler, PostSucceeds(h) \/ Unauthorized(h) \/ PostFails(h)
  PROVE  Consistent'
<1>1. At(h, "post") /\ Talking(handler[h])
  BY DEF PostSucceeds, Unauthorized, PostFails, At, Talking
<1>2. UNCHANGED <<taken, queue, awaited, lastPoint, calm, forsaken>>
  BY DEF PostSucceeds, Unauthorized, PostFails, phone, history
<1>3. Accept(h) \/ UNCHANGED server
  BY DEF PostSucceeds, Unauthorized, PostFails
<1>4. /\ confirmed \subseteq confirmed' /\ confirmed' \subseteq 1..taken
      /\ PostSucceeds(h) /\ handler[h].job = "store" => handler[h].point \in confirmed'
      /\ ~PostSucceeds(h) => confirmed' = confirmed
  <2>1. handler[h].point \in 1..taken /\ confirmed \subseteq 1..taken
    BY <1>1 DEF Consistent, TypeOK, HandlersSane, Sane, At
  <2> QED BY <2>1 DEF PostSucceeds, Unauthorized, PostFails, history
<1>5. stored' \subseteq 1..taken /\ shared' \in confirmed' \cup {0}
  BY <1>1, <1>3, <1>4, AcceptStep DEF server, history, Consistent, TypeOK, ClaimsAreConfirmed
<1>6. token' \in {"none", "good", "expired"}
  BY DEF PostSucceeds, Unauthorized, PostFails, TryAgain, GiveUpPost, Consistent, TypeOK
<1>7. /\ handler' \in [Handler -> HandlerState] /\ HandlersSane'
      /\ MutexFollowsHandler' /\ holder' \in Handler \cup {None}
  <2>1. CASE PostSucceeds(h)
    <3>1. Return(h, TRUE)
      BY <2>1 DEF PostSucceeds
    <3> QED BY <1>1, <1>2, <1>4, <2>1, <3>1, ReturnStep DEF Consistent
  <2>2. CASE Return(h, FALSE)
    BY <1>1, <1>2, <1>4, <2>2, ReturnStep DEF Consistent
  <2>3. CASE TryAgain(h)
    BY <1>1, <1>2, <1>4, <2>3, TryAgainStep DEF Consistent
  <2> QED BY <2>1, <2>2, <2>3 DEF Unauthorized, PostFails, GiveUpPost
<1>8. {lastPoint', shared'} \subseteq confirmed' \cup {0}
  BY <1>2, <1>4, <1>5 DEF Consistent, ClaimsAreConfirmed
<1> QED BY <1>2, <1>4, <1>5, <1>6, <1>7, <1>8, QuietStep DEF Consistent, TypeOK

(* An idle handler is as it should be.                                     *)
LEMMA IdleSane ==
  /\ Idle \in HandlerState /\ ~Talking(Idle)
  /\ \A last, got : Sane(Idle, last, got)
BY HandlerFields DEF Idle, HandlerState, Talking, Sane

(* The end of a handler, heard by the phone or not.                        *)
LEMMA LeaveStep ==
  ASSUME Consistent, NEW h \in Handler, At(h, "answer"), Goto(h, Idle),
         UNCHANGED <<taken, holder, confirmed>>
  PROVE  /\ handler' \in [Handler -> HandlerState] /\ HandlersSane'
         /\ MutexFollowsHandler' /\ holder' \in Handler \cup {None}
<1>1. ~Talking(handler[h])
  BY DEF At, Talking
<1> QED BY <1>1, IdleSane, HandlerStep, MutexStep DEF Consistent

(* The answer: only points that are confirmed, or that failed beside one   *)
(* that is, leave the phone's queue.                                       *)
LEMMA AnswerStep ==
  ASSUME Consistent, NEW h \in Handler, Answer(h)
  PROVE  Consistent'
<1>1. /\ UNCHANGED <<taken, holder, token, stored, confirmed, shared, lastPoint, calm>>
      /\ awaited' = None
  BY DEF Answer, server, history
<1>2. /\ handler' \in [Handler -> HandlerState] /\ HandlersSane'
      /\ MutexFollowsHandler' /\ holder' \in Handler \cup {None}
  BY <1>1, LeaveStep DEF Answer
<1>3. queue' \subseteq queue /\ (~Ok(handler[h]) => queue' = queue)
  BY DEF Answer, Drop
<1>4. /\ forsaken \subseteq forsaken' /\ forsaken' \subseteq Point
      /\ handler[h].stored => handler[h].failed \subseteq forsaken'
  <2>1. handler[h].failed \subseteq Point /\ forsaken \subseteq Point
    BY DEF Consistent, TypeOK, HandlerState
  <2> QED BY <2>1 DEF Answer
<1>5. TypeOK'
  BY <1>1, <1>2, <1>3, <1>4 DEF Consistent, TypeOK
<1>6. ClaimsAreConfirmed'
  BY <1>1 DEF Consistent, ClaimsAreConfirmed
<1>7. 1..taken \subseteq queue' \cup confirmed \cup forsaken'
  <2>1. 1..taken \subseteq queue \cup confirmed \cup forsaken
    BY DEF Consistent, DroppedIsConfirmed
  <2>2. CASE Ok(handler[h])
    <3>1. Sane(handler[h], taken, confirmed) /\ handler[h].pc = "answer" /\ 0 \notin 1..taken
      BY DEF Answer, At, Consistent, HandlersSane
    <3>2. handler[h].batch \subseteq confirmed \cup handler[h].failed
      BY <3>1 DEF Sane
    <3>3. handler[h].failed \subseteq forsaken'
      BY <1>4, <2>2 DEF Ok
    <3>4. queue' = queue \ handler[h].batch
      BY <2>2 DEF Answer, Drop
    <3> QED BY <1>4, <2>1, <3>2, <3>3, <3>4
  <2>3. CASE ~Ok(handler[h])
    BY <1>3, <1>4, <2>1, <2>3
  <2> QED BY <2>2, <2>3
<1>8. DroppedIsConfirmed'
  BY <1>1, <1>7 DEF DroppedIsConfirmed
<1> QED BY <1>2, <1>5, <1>6, <1>8 DEF Consistent

(* A batch reaches the bridge.                                             *)
LEMMA SendStep ==
  ASSUME Consistent, NEW h \in Handler, Send(h)
  PROVE  Consistent'
<1> DEFINE s == [Idle EXCEPT !.pc = "next", !.batch = queue, !.todo = queue]
<1>1. queue \subseteq 1..taken /\ queue \subseteq Point
  <2>1. taken \in 0..MaxPoint /\ queue \subseteq 1..taken
    BY PointAssumption DEF Consistent, TypeOK, Point
  <2>2. \A q \in 1..taken : q \in Point
    BY <2>1, PointAssumption DEF Point
  <2> QED BY <2>1, <2>2
<1>2. s \in HandlerState
  BY <1>1, HandlerFields, IdleSane DEF HandlerState
<1>3. /\ s.pc = "next" /\ s.point = 0 /\ s.newest = 0 /\ s.job = "store"
      /\ s.batch = queue /\ s.todo = queue
  BY DEF Idle
<1>4. Goto(h, s) /\ ~Talking(handler[h])
  BY DEF Send, At, Talking
<1> HIDE DEF s
<1>5. Sane(s, taken', confirmed') /\ ~Talking(s)
  BY <1>1, <1>3 DEF Sane, Send, server, history, Talking
<1>6. /\ handler' \in [Handler -> HandlerState] /\ HandlersSane'
      /\ MutexFollowsHandler' /\ holder' \in Handler \cup {None}
  BY <1>2, <1>4, <1>5, HandlerStep, MutexStep DEF Send, server, history, Consistent
<1> QED BY <1>6, QuietStep DEF Send, server, history, Consistent, TypeOK, ClaimsAreConfirmed

(* The phone records a point: it is in the queue.                          *)
LEMMA RecordStep ==
  ASSUME Consistent, Record
  PROVE  Consistent'
<1>1. taken \in 0..MaxPoint /\ MaxPoint \in Nat /\ taken < MaxPoint /\ taken' = taken + 1
  BY PointAssumption DEF Record, Consistent, TypeOK, Point
<1>2. taken' \in Point \cup {0} /\ 1..taken' = 1..taken \cup {taken'} /\ 0..taken \subseteq 0..taken'
  BY <1>1 DEF Point
<1>3. UNCHANGED <<awaited, handler, holder, token, stored, confirmed, forsaken, shared, lastPoint, calm>>
  BY DEF Record, server, history
<1>4. queue' = queue \cup {taken'}
  BY DEF Record
<1>5. TypeOK'
  BY <1>2, <1>3, <1>4 DEF Consistent, TypeOK
<1>6. HandlersSane'
  <2> SUFFICES ASSUME NEW h \in Handler  PROVE Sane(handler[h], taken', confirmed)
    BY <1>3 DEF HandlersSane
  <2>1. Sane(handler[h], taken, confirmed)
    BY DEF Consistent, HandlersSane
  <2> QED BY <1>2, <2>1 DEF Sane
<1>7. MutexFollowsHandler' /\ ClaimsAreConfirmed' /\ DroppedIsConfirmed'
  BY <1>2, <1>3, <1>4 DEF Consistent, MutexFollowsHandler, ClaimsAreConfirmed, DroppedIsConfirmed
<1> QED BY <1>5, <1>6, <1>7 DEF Consistent

(* The bridge starts again with nothing.                                   *)
LEMMA RestartStep ==
  ASSUME Consistent, Restart
  PROVE  Consistent'
<1>1. handler' \in [Handler -> HandlerState] /\ HandlersSane'
  BY IdleSane DEF Restart, HandlersSane
<1>2. MutexFollowsHandler' /\ holder' \in Handler \cup {None}
  BY NoneAssumption DEF Restart, Idle, MutexFollowsHandler
<1>3. {lastPoint', shared'} \subseteq confirmed' \cup {0}
  BY DEF Restart, server, history, Consistent, ClaimsAreConfirmed
<1> QED BY <1>1, <1>2, <1>3, QuietStep DEF Restart, server, history, Consistent, TypeOK

(* Every step keeps the invariant.                                         *)
LEMMA ConsistentNext == Consistent /\ [Next]_vars => Consistent'
<1> SUFFICES ASSUME Consistent, [Next]_vars  PROVE Consistent'
  OBVIOUS
<1>1. CASE UNCHANGED vars
  BY <1>1 DEF vars, phone, server, history, Consistent, TypeOK, MutexFollowsHandler, HandlersSane,
              ClaimsAreConfirmed, DroppedIsConfirmed
<1>2. ASSUME NEW h \in Handler, AnswerLost(h)  PROVE Consistent'
  <2>1. awaited' \in Handler \cup {None}
    BY <1>2 DEF AnswerLost, Consistent, TypeOK
  <2> QED BY <1>2, <2>1, LeaveStep, QuietStep
         DEF AnswerLost, server, history, Consistent, TypeOK, ClaimsAreConfirmed
<1>3. CASE GiveUp \/ ExpireToken \/ Settle
  <2>1. UNCHANGED <<taken, queue, handler, holder, stored, confirmed, forsaken, shared, lastPoint>>
    BY <1>3 DEF GiveUp, ExpireToken, Settle, phone, server, history
  <2>2. awaited' \in Handler \cup {None} /\ token' \in {"none", "good", "expired"} /\ calm' \in BOOLEAN
    BY <1>3 DEF GiveUp, ExpireToken, Settle, phone, Consistent, TypeOK
  <2>3. MutexFollowsHandler' /\ HandlersSane'
    BY <2>1 DEF Consistent, MutexFollowsHandler, HandlersSane
  <2> QED BY <2>1, <2>2, <2>3, QuietStep DEF Consistent, TypeOK, ClaimsAreConfirmed
<1> QED BY <1>1, <1>2, <1>3, NextPointStep, FinishStep, LockStep, EnsureStep, PostStep,
           AnswerStep, SendStep, RecordStep, RestartStep DEF Next, Step

(* The invariant, for any number of handlers and points: the types, who    *)
(* holds the mutex, what each handler knows, and the two promises.         *)
THEOREM BridgeConsistent == Spec => []Consistent
BY ConsistentInit, ConsistentNext, PTL DEF Spec

(* The phone drops a point only when the server confirmed it, or when it   *)
(* failed in a batch another point of which was stored                     *)
(* (DroppedIsConfirmed).                                                   *)
THEOREM NothingDroppedUnconfirmed == Spec => []DroppedIsConfirmed
BY BridgeConsistent, PTL DEF Consistent

(* What the bridge shows as the last point, and what it shares, was        *)
(* confirmed by the server (ClaimsAreConfirmed).                           *)
THEOREM ClaimsAlwaysConfirmed == Spec => []ClaimsAreConfirmed
BY BridgeConsistent, PTL DEF Consistent

(* The session's mutex is held by the handler that talks to the server,    *)
(* and given back on every path (MutexFollowsHandler).                     *)
THEOREM MutexAlwaysFollows == Spec => []MutexFollowsHandler
BY BridgeConsistent, PTL DEF Consistent

(* Of two handlers of one device only one talks to the server at a time.   *)
THEOREM OneTalksAtATime ==
  Spec => [](\A g, h \in Handler : Talking(handler[g]) /\ Talking(handler[h]) => g = h)
<1>1. Consistent => \A g, h \in Handler : Talking(handler[g]) /\ Talking(handler[h]) => g = h
  BY DEF Consistent, MutexFollowsHandler, Talking
<1> QED BY <1>1, BridgeConsistent, PTL
=============================================================================

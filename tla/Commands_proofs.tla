--------------------------- MODULE Commands_proofs ---------------------------
(***************************************************************************)
(* Proofs about Commands, for any number of requests, commands, push       *)
(* services, restarts and refused saves: until an outdated copy of the row *)
(* is written back, the command slot is a mailbox and no wake-up is        *)
(* wasted; and until what was counted is not stored, the gauges are true.  *)
(***************************************************************************)
EXTENDS Commands, FiniteSetTheorems, TLAPS

(* A request in state q carries a command that is not in the table yet.    *)
Carries(q) == q.op = "post" /\ q.pc \in {"touch", "post", "save"}

(* What a request may be doing when last commands have been posted.        *)
Fits(q, last) ==
  /\ q.row.cmd \in 0..last
  /\ q.pc = "idle" => q.op = "none"
  /\ q.pc = "touch" => q.op \in {"get", "post", "url", "other"}
  /\ q.pc \in {"get", "clear"} => q.op = "get"
  /\ q.pc \in {"post", "save"} => q.op = "post"
  /\ q.pc = "url" => q.op = "url"
  /\ q.pc = "set" => q.op = "recount"
  /\ Carries(q) => q.cmd \in 1..last

Different ==
  \A r, s \in Request :
    Carries(req[r]) /\ Carries(req[s]) /\ r # s => req[r].cmd # req[s].cmd

Numbered ==
  /\ row.cmd \in 0..lastCmd /\ taken \subseteq 1..lastCmd
  /\ \A r \in Request : Fits(req[r], lastCmd)
  /\ Different

(* A command is in one place: a request carries it, or it is in the table, *)
(* or it has been taken; in the table and taken only where a save has been *)
(* refused.                                                                *)
OnePlace ==
  ~stale => /\ row.cmd \in taken => refusals > 0
            /\ \A r \in Request : Carries(req[r]) => req[r].cmd \notin taken \cup {row.cmd}

Slot == TypeOK /\ Numbered /\ OnePlace
-----------------------------------------------------------------------------
(* The names of the places where a request may be, and of what it may want.*)
LEMMA PCs ==
  /\ {"idle", "touch", "get", "clear", "post", "url", "save", "set"} \subseteq PC
  /\ {"none", "get", "post", "url", "other", "recount"} \subseteq Op
BY DEF PC, Op

(* An idle request may be in a slot.                                       *)
LEMMA IdleFits ==
  /\ Idle \in RequestState /\ ~Carries(Idle) /\ Idle.op = "none"
  /\ \A last \in Nat : Fits(Idle, last)
<1>1. NoRow \in Row
  BY DEF NoRow, Row
<1>2. Idle \in RequestState
  BY <1>1, PCs DEF Idle, RequestState
<1> QED BY <1>2 DEF Idle, NoRow, Fits, Carries

(* The numbers in use, and that they are numbers.                          *)
LEMMA Bounds ==
  ASSUME TypeOK
  PROVE  /\ MaxCommand \in Nat /\ MaxRestart \in Nat /\ MaxRefusal \in Nat
         /\ lastCmd \in Nat /\ lastCmd <= MaxCommand /\ refusals \in Nat
         /\ 0 \notin Cmd /\ 0..lastCmd \subseteq Cmd \cup {0} /\ 1..lastCmd \subseteq Cmd
BY CommandsAssumption DEF TypeOK, Cmd

(* A request that moves on, carrying what it carried, a new command or     *)
(* none, leaves the others as they were.                                   *)
LEMMA Moves ==
  ASSUME Slot, NEW r \in Request, NEW s \in RequestState, Goto(r, s), lastCmd' \in Nat,
         lastCmd <= lastCmd', Fits(s, lastCmd'),
         Carries(s) => (Carries(req[r]) /\ s.cmd = req[r].cmd) \/ s.cmd \notin 0..lastCmd
  PROVE  /\ req' \in [Request -> RequestState]
         /\ \A x \in Request : Fits(req'[x], lastCmd')
         /\ Different'
         /\ \A x \in Request : Carries(req'[x]) =>
              (Carries(req[x]) /\ req'[x].cmd = req[x].cmd) \/ req'[x].cmd \notin 0..lastCmd
<1>1. /\ req' \in [Request -> RequestState]
      /\ req'[r] = s /\ \A x \in Request \ {r} : req'[x] = req[x]
  BY DEF Goto, Slot, TypeOK
<1>2. lastCmd \in Nat /\ 0..lastCmd \subseteq 0..lastCmd' /\ 1..lastCmd \subseteq 1..lastCmd'
  BY CommandsAssumption DEF Slot, TypeOK
<1>3. ASSUME NEW x \in Request  PROVE Fits(req'[x], lastCmd')
  <2>1. CASE x = r
    BY <1>1, <2>1
  <2>2. CASE x # r
    <3>1. Fits(req[x], lastCmd) /\ req'[x] = req[x]
      BY <1>1, <2>2 DEF Slot, Numbered
    <3> QED BY <1>2, <3>1 DEF Fits
  <2> QED BY <2>1, <2>2
<1>4. \A x \in Request : Carries(req[x]) => req[x].cmd \in 0..lastCmd
  <2>1. 1..lastCmd \subseteq 0..lastCmd
    BY <1>2
  <2> QED BY <2>1 DEF Slot, Numbered, Fits
<1>5. \A x \in Request : Carries(req'[x]) =>
        (Carries(req[x]) /\ req'[x].cmd = req[x].cmd) \/ req'[x].cmd \notin 0..lastCmd
  BY <1>1
<1>6. Different'
  <2> SUFFICES ASSUME NEW x \in Request, NEW y \in Request, x # y,
                      Carries(req'[x]), Carries(req'[y])
               PROVE  req'[x].cmd # req'[y].cmd
    BY DEF Different
  <2>1. x # r \/ y # r
    OBVIOUS
  <2>2. \A a, b \in Request : Carries(req[a]) /\ Carries(req[b]) /\ a # b => req[a].cmd # req[b].cmd
    BY DEF Slot, Numbered, Different
  <2> QED BY <1>1, <1>4, <1>5, <2>1, <2>2
<1> QED BY <1>1, <1>3, <1>5, <1>6

(* Such a step, if it leaves the slot alone as long as no outdated copy is *)
(* written back, keeps the invariant.                                      *)
LEMMA QuietSlot ==
  ASSUME Slot, NEW r \in Request, NEW s \in RequestState, Goto(r, s),
         lastCmd' \in 0..MaxCommand, lastCmd <= lastCmd', Fits(s, lastCmd'),
         Carries(s) => (Carries(req[r]) /\ s.cmd = req[r].cmd) \/ s.cmd \notin 0..lastCmd,
         row' \in Row, row'.cmd \in 0..lastCmd, ~stale' => ~stale /\ row'.cmd = row.cmd,
         refusals' \in 0..MaxRefusal, refusals <= refusals', taken' = taken,
         pendingCommands' \in Int, PushServers' \in [Url -> Int], restarts' \in 0..MaxRestart,
         {woken', later', stale', miscounted', due'} \subseteq BOOLEAN
  PROVE  Slot'
<1>1. lastCmd \in Nat /\ lastCmd' \in Nat
  BY CommandsAssumption DEF Slot, TypeOK
<1>2. /\ req' \in [Request -> RequestState]
      /\ \A x \in Request : Fits(req'[x], lastCmd')
      /\ Different'
      /\ \A x \in Request : Carries(req'[x]) =>
           (Carries(req[x]) /\ req'[x].cmd = req[x].cmd) \/ req'[x].cmd \notin 0..lastCmd
  BY <1>1, Moves
<1>3. 0..lastCmd \subseteq 0..lastCmd' /\ 1..lastCmd \subseteq 1..lastCmd'
      /\ 1..lastCmd \subseteq 0..lastCmd
  BY <1>1
<1>4. row.cmd \in 0..lastCmd /\ taken \subseteq 1..lastCmd
  BY DEF Slot, Numbered
<1>5. TypeOK'
  BY <1>2 DEF Slot, TypeOK
<1>6. Numbered'
  BY <1>2, <1>3, <1>4 DEF Numbered
<1>7. OnePlace'
  <2> SUFFICES ASSUME ~stale'
               PROVE  /\ row'.cmd \in taken' => refusals' > 0
                      /\ \A x \in Request :
                           Carries(req'[x]) => req'[x].cmd \notin taken' \cup {row'.cmd}
    BY DEF OnePlace
  <2>1. row'.cmd = row.cmd /\ (row.cmd \in taken => refusals > 0)
    BY DEF Slot, OnePlace
  <2>2. refusals > 0 => refusals' > 0
    BY CommandsAssumption DEF Slot, TypeOK
  <2>3. \A x \in Request : Carries(req[x]) => req[x].cmd \notin taken \cup {row.cmd}
    BY DEF Slot, OnePlace
  <2>4. \A x \in Request : Carries(req'[x]) => req'[x].cmd \notin taken \cup {row.cmd}
    BY <1>2, <1>3, <1>4, <2>3
  <2> QED BY <2>1, <2>2, <2>4
<1> QED BY <1>5, <1>6, <1>7 DEF Slot
-----------------------------------------------------------------------------
(* A save writes the changed copy, or is refused and changes nothing.      *)
LEMMA Saved ==
  ASSUME TypeOK, NEW r \in Request, NEW new \in Row, Save(r, new)
  PROVE  /\ \/ row' = new /\ refusals' = refusals
            \/ row' = row /\ refusals' = refusals + 1
         /\ row' \in Row /\ refusals' \in 0..MaxRefusal /\ refusals <= refusals'
         /\ {stale', miscounted'} \subseteq BOOLEAN
         /\ ~stale' => ~stale /\ req[r].row = row
<1>1. \/ row' = new /\ refusals' = refusals
      \/ row' = row /\ refusals' = refusals + 1 /\ refusals < MaxRefusal
  BY DEF Save
<1>2. row' \in Row /\ refusals' \in 0..MaxRefusal /\ refusals <= refusals'
  BY <1>1, CommandsAssumption DEF TypeOK
<1>3. stale' \in BOOLEAN /\ (~stale' => ~stale /\ req[r].row = row)
  BY DEF Save
<1>4. miscounted' \in BOOLEAN
  BY Zenon DEF Save
<1> QED BY <1>1, <1>2, <1>3, <1>4

(* At the start the slot is empty and so is every request.                 *)
LEMMA SlotInit == Init => Slot
<1> SUFFICES ASSUME Init PROVE Slot
  OBVIOUS
<1>1. row \in Row /\ row.cmd = 0
  BY DEF Init, Row
<1>2. pendingCommands \in Int /\ PushServers \in [Url -> Int]
  BY DEF Init, Pending, Servers
<1>3. /\ lastCmd \in 0..MaxCommand /\ restarts \in 0..MaxRestart /\ refusals \in 0..MaxRefusal
      /\ lastCmd \in Nat /\ lastCmd = 0
  BY CommandsAssumption DEF Init
<1>4. req \in [Request -> RequestState] /\ \A r \in Request : req[r] = Idle
  BY IdleFits DEF Init
<1>5. {woken, later, stale, miscounted, due} \subseteq BOOLEAN /\ taken = {}
  BY DEF Init
<1>6. TypeOK
  BY <1>1, <1>2, <1>3, <1>4, <1>5 DEF TypeOK
<1>7. Numbered
  BY <1>1, <1>3, <1>4, <1>5, IdleFits DEF Numbered, Different
<1>8. OnePlace
  BY <1>1, <1>4, <1>5, IdleFits DEF OnePlace
<1> QED BY <1>6, <1>7, <1>8 DEF Slot

(* A request that brings a new command.                                    *)
LEMMA NewCommandStep ==
  ASSUME Slot, NEW r \in Request, NEW pc \in {"touch", "post"}, NewCommand(r, pc),
         UNCHANGED <<gauges, push, written, restarts, taken, miscounted>>
  PROVE  Slot'
<1> DEFINE s == [pc |-> pc, op |-> "post", row |-> row, cmd |-> lastCmd + 1]
<1>1. lastCmd \in 0..MaxCommand /\ MaxCommand \in Nat /\ lastCmd < MaxCommand /\ row.cmd \in 0..lastCmd
  BY CommandsAssumption DEF NewCommand, Slot, TypeOK, Numbered
<1>2. /\ lastCmd' = lastCmd + 1 /\ lastCmd' \in Cmd /\ lastCmd' \in 0..MaxCommand
      /\ lastCmd <= lastCmd' /\ lastCmd' \notin 0..lastCmd /\ lastCmd' \in 1..lastCmd'
      /\ row.cmd \in 0..lastCmd'
  BY <1>1 DEF NewCommand, Cmd
<1>3. s = [pc |-> pc, op |-> "post", row |-> row, cmd |-> lastCmd'] /\ Goto(r, s)
  BY <1>2 DEF NewCommand
<1> HIDE DEF s
<1>4. s \in RequestState
  <2>1. pc \in PC /\ "post" \in Op /\ row \in Row /\ lastCmd' \in Cmd \cup {0}
    BY <1>2, PCs DEF Slot, TypeOK
  <2> QED BY <1>3, <2>1 DEF RequestState
<1>5. Fits(s, lastCmd') /\ s.cmd \notin 0..lastCmd
  BY <1>2, <1>3 DEF Fits
<1>6. refusals <= refusals
  BY Bounds DEF Slot
<1> QED BY <1>1, <1>2, <1>3, <1>4, <1>5, <1>6, QuietSlot
        DEF Slot, TypeOK, gauges, push, written

(* A request that reads the row, to fetch the command or for something     *)
(* else than a command; or that counts the commands in the table.          *)
LEMMA ReadStep ==
  ASSUME Slot, NEW r \in Request, NEW s \in RequestState, Goto(r, s),
         s.row.cmd = row.cmd,
         \/ s.pc = "touch" /\ s.op \in {"get", "url", "other"}
         \/ s.pc = "set" /\ s.op = "recount",
         {woken', miscounted'} \subseteq BOOLEAN,
         UNCHANGED <<lastCmd, gauges, later, due, written, restarts, taken>>
  PROVE  Slot'
<1>1. lastCmd \in 0..MaxCommand /\ lastCmd <= lastCmd /\ refusals <= refusals
  BY CommandsAssumption DEF Slot, TypeOK
<1>2. Fits(s, lastCmd) /\ ~Carries(s)
  BY DEF Fits, Carries, Slot, Numbered
<1> QED BY <1>1, <1>2, QuietSlot DEF Slot, TypeOK, Numbered, gauges, written

(* What a request reads when it starts.                                    *)
LEMMA Reads ==
  ASSUME TypeOK
  PROVE  /\ \A op \in {"get", "url", "other"} :
              LET s == [Idle EXCEPT !.pc = "touch", !.op = op, !.row = row]
              IN  s \in RequestState /\ s.pc = "touch" /\ s.op = op /\ s.row = row
         /\ LET s == [Idle EXCEPT !.pc = "set", !.op = "recount", !.row = [NoRow EXCEPT !.cmd = row.cmd]]
            IN  s \in RequestState /\ s.pc = "set" /\ s.op = "recount" /\ s.row.cmd = row.cmd
<1>1. ASSUME NEW op \in {"get", "url", "other"}
      PROVE  LET s == [Idle EXCEPT !.pc = "touch", !.op = op, !.row = row]
             IN  s \in RequestState /\ s.pc = "touch" /\ s.op = op /\ s.row = row
  BY IdleFits, PCs DEF TypeOK, RequestState
<1>2. LET s == [Idle EXCEPT !.pc = "set", !.op = "recount", !.row = [NoRow EXCEPT !.cmd = row.cmd]]
      IN  s \in RequestState /\ s.pc = "set" /\ s.op = "recount" /\ s.row.cmd = row.cmd
  <2>1. [NoRow EXCEPT !.cmd = row.cmd] \in Row /\ [NoRow EXCEPT !.cmd = row.cmd].cmd = row.cmd
    BY DEF TypeOK, Row, NoRow
  <2>2. ASSUME NEW n \in Row
        PROVE  LET s == [Idle EXCEPT !.pc = "set", !.op = "recount", !.row = n]
               IN  s \in RequestState /\ s.pc = "set" /\ s.op = "recount" /\ s.row = n
    BY IdleFits, PCs DEF RequestState
  <2> QED BY <2>1, <2>2
<1> QED BY <1>1, <1>2

(* A request that ends: what it carried is lost, or has been stored.       *)
LEMMA EndStep ==
  ASSUME Slot, NEW r \in Request, Done(r), UNCHANGED lastCmd
  PROVE  /\ req' \in [Request -> RequestState] /\ ~Carries(req'[r])
         /\ \A x \in Request : Fits(req'[x], lastCmd')
         /\ Different'
         /\ \A x \in Request : Carries(req'[x]) =>
              Carries(req[x]) /\ req'[x].cmd = req[x].cmd /\ x # r
<1>1. lastCmd \in Nat /\ lastCmd <= lastCmd
  BY CommandsAssumption DEF Slot, TypeOK
<1>2. /\ req' \in [Request -> RequestState]
      /\ \A x \in Request : Fits(req'[x], lastCmd')
      /\ Different'
  BY <1>1, IdleFits, Moves DEF Done
<1>3. req'[r] = Idle /\ \A x \in Request \ {r} : req'[x] = req[x]
  BY DEF Done, Goto, Slot, TypeOK
<1> QED BY <1>2, <1>3, IdleFits

(* A request in a slot: its types and what it carries.                     *)
LEMMA InSlot ==
  ASSUME Slot, NEW r \in Request
  PROVE  /\ req[r] \in RequestState /\ req[r].row \in Row /\ Fits(req[r], lastCmd)
         /\ req[r].row.cmd \in 0..lastCmd /\ row.cmd \in 0..lastCmd
         /\ Carries(req[r]) => req[r].cmd \in 1..lastCmd /\ req[r].cmd \in Cmd /\ req[r].cmd # 0
<1>1. req[r] \in RequestState /\ Fits(req[r], lastCmd) /\ row.cmd \in 0..lastCmd
  BY DEF Slot, TypeOK, Numbered
<1>2. req[r].row \in Row
  BY <1>1 DEF RequestState
<1>3. Carries(req[r]) => req[r].cmd \in 1..lastCmd /\ req[r].cmd \in Cmd /\ req[r].cmd # 0
  BY <1>1, Bounds DEF Fits, Slot
<1> QED BY <1>1, <1>2, <1>3 DEF Fits

(* Writing the row back as it was read.                                    *)
LEMMA TouchStep ==
  ASSUME Slot, NEW r \in Request, Touch(r)
  PROVE  Slot'
<1>1. /\ req[r] \in RequestState /\ req[r].pc = "touch" /\ req[r].row \in Row
      /\ Fits(req[r], lastCmd) /\ req[r].row.cmd \in 0..lastCmd /\ row.cmd \in 0..lastCmd
  BY InSlot DEF Touch
<1>2. UNCHANGED <<lastCmd, gauges, push, restarts, taken>> /\ Save(r, req[r].row)
  BY DEF Touch
<1>3. /\ row' = req[r].row \/ row' = row
      /\ row' \in Row /\ refusals' \in 0..MaxRefusal /\ refusals <= refusals'
      /\ {stale', miscounted'} \subseteq BOOLEAN
      /\ ~stale' => ~stale /\ req[r].row = row
  BY <1>1, <1>2, Saved DEF Slot
<1>4. lastCmd \in Nat /\ lastCmd <= lastCmd /\ lastCmd \in 0..MaxCommand
  BY CommandsAssumption DEF Slot, TypeOK
<1>5. ASSUME NEW s \in RequestState, Goto(r, s), Fits(s, lastCmd),
             Carries(s) => Carries(req[r]) /\ s.cmd = req[r].cmd
      PROVE  Slot'
  BY <1>1, <1>2, <1>3, <1>4, <1>5, QuietSlot DEF Slot, TypeOK, gauges, push
<1>6. CASE req[r].op = "other"
  BY <1>4, <1>5, <1>6, IdleFits DEF Touch, Done
<1>7. CASE req[r].op # "other"
  <2> DEFINE s == [req[r] EXCEPT !.pc = req[r].op]
  <2>1. req[r].op \in {"get", "post", "url"}
    BY <1>1, <1>7 DEF Fits
  <2>2. s \in RequestState
    BY <1>1, <2>1, PCs DEF RequestState
  <2>3. s.pc = req[r].op /\ s.op = req[r].op /\ s.row = req[r].row /\ s.cmd = req[r].cmd
    BY <1>1 DEF RequestState
  <2>4. Goto(r, s)
    BY <1>7 DEF Touch
  <2> HIDE DEF s
  <2>5. Fits(s, lastCmd) /\ (Carries(s) => Carries(req[r]))
    BY <1>1, <2>1, <2>3 DEF Fits, Carries
  <2> QED BY <1>5, <2>2, <2>3, <2>4, <2>5
<1> QED BY <1>6, <1>7

(* Counting a command, or that it goes: the request moves on.              *)
LEMMA CountStep ==
  ASSUME Slot, NEW r \in Request, NEW n \in Int, Adjust(r, n), NEW pc \in {"save", "clear"},
         Goto(r, [req[r] EXCEPT !.pc = pc]),
         req[r].pc = (IF pc = "save" THEN "post" ELSE "get"),
         {woken', due'} \subseteq BOOLEAN,
         UNCHANGED <<lastCmd, PushServers, later, written, restarts, taken>>
  PROVE  Slot'
<1> DEFINE s == [req[r] EXCEPT !.pc = pc]
<1>1. req[r] \in RequestState /\ Fits(req[r], lastCmd) /\ row.cmd \in 0..lastCmd
  BY InSlot
<1>2. s \in RequestState
  BY <1>1, PCs DEF RequestState
<1>3. s.pc = pc /\ s.op = req[r].op /\ s.row = req[r].row /\ s.cmd = req[r].cmd
  BY <1>1 DEF RequestState
<1>4. Goto(r, s)
  OBVIOUS
<1> HIDE DEF s
<1>5. lastCmd \in 0..MaxCommand /\ lastCmd <= lastCmd /\ refusals <= refusals
  BY CommandsAssumption DEF Slot, TypeOK
<1>6. Fits(s, lastCmd) /\ (Carries(s) => Carries(req[r]))
  BY <1>1, <1>3 DEF Fits, Carries
<1>7. pendingCommands' \in Int
  BY DEF Adjust, Slot, TypeOK
<1>8. miscounted' \in BOOLEAN
  BY Zenon DEF Adjust
<1> QED BY <1>1, <1>2, <1>3, <1>4, <1>5, <1>6, <1>7, <1>8, QuietSlot DEF Slot, TypeOK, written

(* The command gets into the table, or the save is refused.                *)
LEMMA SaveStep ==
  ASSUME Slot, NEW r \in Request, SaveCommand(r)
  PROVE  Slot'
<1> DEFINE new == [req[r].row EXCEPT !.cmd = req[r].cmd]
<1>1. UNCHANGED <<lastCmd, gauges, woken, later, restarts, taken>> /\ Save(r, new) /\ Done(r)
  BY DEF SaveCommand
<1>2. /\ req[r] \in RequestState /\ req[r].row \in Row /\ row.cmd \in 0..lastCmd
      /\ Carries(req[r]) /\ req[r].cmd \in 1..lastCmd /\ req[r].cmd \in Cmd
  <2>1. Carries(req[r])
    BY InSlot DEF SaveCommand, Fits, Carries
  <2> QED BY <2>1, InSlot
<1>3. new \in Row /\ new.cmd = req[r].cmd
  BY <1>2 DEF Row
<1> HIDE DEF new
<1>4. /\ (row' = new /\ refusals' = refusals) \/ row' = row
      /\ row' \in Row /\ refusals' \in 0..MaxRefusal /\ refusals <= refusals'
      /\ {stale', miscounted'} \subseteq BOOLEAN
      /\ ~stale' => ~stale /\ req[r].row = row
  BY <1>1, <1>3, Saved DEF Slot
<1>5. /\ req' \in [Request -> RequestState]
      /\ \A x \in Request : Fits(req'[x], lastCmd')
      /\ Different'
      /\ \A x \in Request : Carries(req'[x]) =>
           Carries(req[x]) /\ req'[x].cmd = req[x].cmd /\ x # r
  BY <1>1, EndStep
<1>6. due' \in BOOLEAN
  <2>1. due' = (woken \/ later \/ (due /\ row' = row))
    BY DEF SaveCommand
  <2> QED BY Zenon, <2>1
<1>7. TypeOK'
  BY <1>1, <1>4, <1>5, <1>6 DEF Slot, TypeOK, gauges
<1>8. Numbered'
  <2>1. req[r].cmd \in 0..lastCmd
    BY <1>2, Bounds DEF Slot
  <2> QED BY <1>1, <1>2, <1>3, <1>4, <1>5, <2>1 DEF Slot, Numbered
<1>9. OnePlace'
  <2> SUFFICES ASSUME ~stale'
               PROVE  /\ row'.cmd \in taken' => refusals' > 0
                      /\ \A x \in Request :
                           Carries(req'[x]) => req'[x].cmd \notin taken' \cup {row'.cmd}
    BY DEF OnePlace
  <2>1. \A x \in Request : Carries(req[x]) => req[x].cmd \notin taken \cup {row.cmd}
    BY <1>4 DEF Slot, OnePlace
  <2>2. \A x \in Request : Carries(req[x]) /\ x # r => req[x].cmd # req[r].cmd
    BY <1>2 DEF Slot, Numbered, Different
  <2>3. row'.cmd \in {row.cmd, req[r].cmd}
    BY <1>3, <1>4
  <2>4. row'.cmd \in taken => refusals' > 0
    BY <1>2, <1>3, <1>4, <2>1, Bounds DEF Slot, OnePlace
  <2> QED BY <1>1, <1>5, <2>1, <2>2, <2>3, <2>4
<1> QED BY <1>7, <1>8, <1>9 DEF Slot

(* The command is taken out of the table, or handed out and left there.    *)
LEMMA TakeStep ==
  ASSUME Slot, NEW r \in Request, ClearCommand(r)
  PROVE  Slot'
<1>1. UNCHANGED <<lastCmd, gauges, woken, later, restarts>> /\ Save(r, Cleared(req[r].row)) /\ Done(r)
  BY DEF ClearCommand
<1>2. req[r] \in RequestState /\ req[r].row \in Row /\ req[r].row.cmd \in 0..lastCmd /\ row.cmd \in 0..lastCmd
  BY InSlot
<1>3. Cleared(req[r].row) \in Row /\ Cleared(req[r].row).cmd = 0
  BY <1>2 DEF Cleared, Row
<1>4. /\ \/ row' = Cleared(req[r].row) /\ refusals' = refusals
         \/ row' = row /\ refusals' = refusals + 1
      /\ row' \in Row /\ refusals' \in 0..MaxRefusal /\ refusals <= refusals'
      /\ {stale', miscounted'} \subseteq BOOLEAN
      /\ ~stale' => ~stale /\ req[r].row = row
  BY <1>1, <1>3, Saved DEF Slot
<1>5. /\ req' \in [Request -> RequestState]
      /\ \A x \in Request : Fits(req'[x], lastCmd')
      /\ Different'
      /\ \A x \in Request : Carries(req'[x]) =>
           Carries(req[x]) /\ req'[x].cmd = req[x].cmd /\ x # r
  BY <1>1, EndStep
<1>6. taken' = taken \cup ({req[r].row.cmd} \cap Cmd)
  BY DEF ClearCommand
<1>7. due' \in BOOLEAN
  <2>1. due' = IF refusals' # refusals THEN woken \/ later ELSE due
    BY DEF ClearCommand
  <2>2. due \in BOOLEAN /\ woken \in BOOLEAN /\ later \in BOOLEAN
    BY DEF Slot, TypeOK
  <2> QED BY <2>1, <2>2, Zenon
<1>8. TypeOK'
  BY <1>1, <1>4, <1>5, <1>6, <1>7 DEF Slot, TypeOK, gauges
<1>9. Numbered'
  <2>1. lastCmd \in Nat
    BY Bounds DEF Slot
  <2>2. \A c \in {req[r].row.cmd} \cap Cmd : c \in 1..lastCmd
    BY <1>2, <2>1 DEF Cmd
  <2>3. 0 \in 0..lastCmd
    BY <2>1
  <2> QED BY <1>1, <1>2, <1>3, <1>4, <1>5, <1>6, <2>2, <2>3 DEF Slot, Numbered
<1>10. OnePlace'
  <2> SUFFICES ASSUME ~stale'
               PROVE  /\ row'.cmd \in taken' => refusals' > 0
                      /\ \A x \in Request :
                           Carries(req'[x]) => req'[x].cmd \notin taken' \cup {row'.cmd}
    BY DEF OnePlace
  <2>1. 0 \notin taken' /\ refusals \in Nat
    BY <1>8, Bounds DEF Slot, TypeOK, Cmd
  <2>2. \A x \in Request : Carries(req[x]) => req[x].cmd \notin taken \cup {row.cmd}
    BY <1>4 DEF Slot, OnePlace
  <2>3. \A x \in Request : Carries(req[x]) => req[x].cmd # 0
    BY InSlot
  <2>4. row'.cmd \in taken' => refusals' > 0
    BY <1>3, <1>4, <2>1
  <2>5. row'.cmd \in {0, row.cmd} /\ taken' \subseteq taken \cup {row.cmd}
    BY <1>3, <1>4, <1>6
  <2> QED BY <1>5, <2>2, <2>3, <2>4, <2>5
<1> QED BY <1>8, <1>9, <1>10 DEF Slot

(* What SetPushUrl saves: the copy with another URL.                       *)
LEMMA Urls ==
  ASSUME Slot, NEW r \in Request, NEW url \in Url \cup {None}
  PROVE  WithUrl(req[r].row, url) \in Row /\ WithUrl(req[r].row, url).cmd = req[r].row.cmd
BY InSlot DEF WithUrl, Row

(* The push URL changes, the command does not.                             *)
LEMMA UrlStep ==
  ASSUME Slot, NEW r \in Request, SetPushUrl(r)
  PROVE  Slot' /\ (~stale' => row'.cmd = row.cmd)
<1>1. UNCHANGED <<lastCmd, pendingCommands, push, restarts, taken>> /\ Goto(r, Idle)
  BY DEF SetPushUrl, Done
<1>2. PICK url \in Url \cup {None} :
        /\ Save(r, WithUrl(req[r].row, url))
        /\ PushServers' = [u \in Url |-> PushServers[u] - Servers(req[r].row)[u]
                                           + Servers(WithUrl(req[r].row, url))[u]]
  BY DEF SetPushUrl
<1>3. /\ row' = WithUrl(req[r].row, url) \/ row' = row
      /\ row' \in Row /\ refusals' \in 0..MaxRefusal /\ refusals <= refusals'
      /\ {stale', miscounted'} \subseteq BOOLEAN
      /\ ~stale' => ~stale /\ req[r].row = row
  BY <1>2, Urls, Saved DEF Slot
<1>4. row'.cmd \in 0..lastCmd /\ (~stale' => row'.cmd = row.cmd)
  BY <1>3, InSlot, Urls
<1>5. PushServers' \in [Url -> Int]
  BY <1>2 DEF Servers, Slot, TypeOK
<1>6. lastCmd \in Nat /\ lastCmd <= lastCmd /\ lastCmd \in 0..MaxCommand
  BY Bounds DEF Slot, TypeOK
<1> QED BY <1>1, <1>3, <1>4, <1>5, <1>6, IdleFits, QuietSlot DEF Slot, TypeOK, push

(* The recount is over.                                                    *)
LEMMA GaugeStep ==
  ASSUME Slot, NEW r \in Request, SetGauge(r)
  PROVE  Slot'
<1>1. UNCHANGED <<lastCmd, PushServers, push, written, restarts, taken, miscounted>> /\ Goto(r, Idle)
  BY DEF SetGauge, Done
<1>2. pendingCommands' \in Int
  BY DEF SetGauge, Pending
<1>3. lastCmd \in Nat /\ lastCmd <= lastCmd /\ lastCmd \in 0..MaxCommand /\ refusals <= refusals
  BY Bounds DEF Slot, TypeOK
<1>4. row.cmd \in 0..lastCmd
  BY DEF Slot, Numbered
<1> QED BY <1>1, <1>2, <1>3, <1>4, IdleFits, QuietSlot DEF Slot, TypeOK, push, written

(* The process starts again without requests.                              *)
LEMMA RestartStep ==
  ASSUME Slot, Restart
  PROVE  Slot'
<1>1. UNCHANGED <<row, refusals, lastCmd, woken, taken, stale>> /\ later' = FALSE /\ miscounted' = FALSE
  BY DEF Restart, written
<1>2. restarts' \in 0..MaxRestart
  BY CommandsAssumption DEF Restart, Slot, TypeOK
<1>3. pendingCommands' \in Int /\ PushServers' \in [Url -> Int]
  BY DEF Restart, Pending, Servers
<1>4. req' \in [Request -> RequestState] /\ \A r \in Request : req'[r] = Idle
  BY IdleFits DEF Restart
<1>5. due' \in BOOLEAN
  BY DEF Restart, Slot, TypeOK
<1>6. lastCmd \in Nat
  BY CommandsAssumption DEF Slot, TypeOK
<1>7. TypeOK'
  BY <1>1, <1>2, <1>3, <1>4, <1>5 DEF Slot, TypeOK
<1>8. Numbered'
  BY <1>1, <1>4, <1>6, IdleFits DEF Slot, Numbered, Different
<1>9. OnePlace'
  BY <1>1, <1>4, IdleFits DEF Slot, OnePlace
<1> QED BY <1>7, <1>8, <1>9 DEF Slot

(* Every step keeps the invariant.                                         *)
LEMMA SlotNext == Slot /\ [Next]_vars => Slot'
<1> SUFFICES ASSUME Slot, [Next]_vars  PROVE Slot'
  OBVIOUS
<1>1. CASE UNCHANGED vars
  BY <1>1 DEF vars, Slot, TypeOK, Numbered, Different, OnePlace
<1>2. CASE Login \/ PushLater
  <2>1. UNCHANGED <<row, refusals, stale, lastCmd, pendingCommands, PushServers, req, restarts,
                    taken, miscounted>>
    BY <1>2 DEF Login, PushLater, gauges, written
  <2>2. {woken', later'} \subseteq BOOLEAN
    BY <1>2 DEF Login, PushLater, Push, Slot, TypeOK
  <2>3. due' \in BOOLEAN
    <3>1. due' = TRUE \/ due' = (row.cmd # 0) \/ due' = (due /\ woken) \/ due' = due
      BY <1>2 DEF Login, PushLater, Push
    <3>2. due \in BOOLEAN
      BY DEF Slot, TypeOK
    <3> QED BY Zenon, <3>1, <3>2
  <2>4. TypeOK'
    BY <2>1, <2>2, <2>3 DEF Slot, TypeOK
  <2> QED BY <2>1, <2>4 DEF Slot, Numbered, Different, OnePlace
<1>3. ASSUME NEW r \in Request, GetUser(r) \/ Fetch(r) \/ LockNotice(r) \/ CountCommands(r)
      PROVE  Slot'
  <2>1. ASSUME NEW pc \in {"touch", "post"}, NewCommand(r, pc),
               UNCHANGED <<gauges, push, written, restarts, taken, miscounted>>
        PROVE  Slot'
    BY <2>1, NewCommandStep
  <2>2. ASSUME NEW op \in {"get", "url", "other"}, woken' \in BOOLEAN,
               Goto(r, [Idle EXCEPT !.pc = "touch", !.op = op, !.row = row]),
               UNCHANGED <<lastCmd, gauges, later, due, written, restarts, taken, miscounted>>
        PROVE  Slot'
    <3>1. miscounted' \in BOOLEAN
      BY <2>2 DEF Slot, TypeOK
    <3> QED BY <2>2, <3>1, Reads, ReadStep DEF Slot
  <2>3. CASE CountCommands(r)
    <3>1. miscounted' \in BOOLEAN
      BY <2>3, Zenon DEF CountCommands
    <3>2. woken' \in BOOLEAN
      BY <2>3 DEF CountCommands, push, Slot, TypeOK
    <3> QED BY <2>3, <3>1, <3>2, Reads, ReadStep DEF CountCommands, push, Slot
  <2>4. woken \in BOOLEAN
    BY DEF Slot, TypeOK
  <2> QED BY <1>3, <2>1, <2>2, <2>3, <2>4 DEF GetUser, Fetch, LockNotice, push
<1>4. ASSUME NEW r \in Request, SetCommandToUser(r)  PROVE Slot'
  <2>1. Count(req[r].row) \in Int
    BY DEF Count, Pending
  <2>2. woken' \in BOOLEAN
    BY <1>4 DEF SetCommandToUser, Push, Slot, TypeOK
  <2>3. due' \in BOOLEAN
    <3>1. due' = (row.cmd # 0) \/ due' = due
      BY <1>4 DEF SetCommandToUser, Push
    <3>2. due \in BOOLEAN
      BY DEF Slot, TypeOK
    <3> QED BY Zenon, <3>1, <3>2
  <2> QED BY <1>4, <2>1, <2>2, <2>3, CountStep DEF SetCommandToUser
<1>5. ASSUME NEW r \in Request, GetCommandToUser(r)  PROVE Slot'
  <2>1. -Pending(req[r].row) \in Int
    BY DEF Pending
  <2>2. {woken', due'} \subseteq BOOLEAN
    BY <1>5 DEF GetCommandToUser, push, Slot, TypeOK
  <2> QED BY <1>5, <2>1, <2>2, CountStep DEF GetCommandToUser, push
<1> QED BY <1>1, <1>2, <1>3, <1>4, <1>5, TouchStep, SaveStep, TakeStep, UrlStep, GaugeStep,
           RestartStep DEF Next, Continue

(* The invariant of the command slot: the types, the commands' numbers,    *)
(* and that, until an outdated copy is written back, no command is in two  *)
(* places, unless a save has been refused.                                 *)
THEOREM CommandsInOnePlace == Spec => []Slot
BY SlotInit, SlotNext, PTL DEF Spec

(* Type correctness (TypeOK), for any number of requests and commands.     *)
THEOREM TypesCorrect == Spec => []TypeOK
BY CommandsInOnePlace, PTL DEF Slot
-----------------------------------------------------------------------------
(* Until an outdated copy is written back, a step of the server is a       *)
(* message put into the box, or the message taken out of it, or a change   *)
(* that is refused, or none of these.                                      *)
LEMMA MailboxStep ==
  ASSUME Slot, [Next]_vars, ~stale'
  PROVE  [Box!Next]_(Box!box_vars)
<1>1. ASSUME row'.cmd = row.cmd, taken' = taken, refusals' = refusals
      PROVE  [Box!Next]_(Box!box_vars)
  BY <1>1 DEF Box!box_vars
<1>2. ASSUME row' = row, refusals' = refusals + 1,
             taken' = taken \/ taken' = taken \cup ({row.cmd} \cap Cmd)
      PROVE  Box!Next
  BY <1>2 DEF Box!Next, Box!Refused
<1>3. ASSUME NEW r \in Request, NEW new \in Row, Save(r, new)
      PROVE  /\ ~stale /\ req[r].row = row
             /\ \/ row' = new /\ refusals' = refusals
                \/ row' = row /\ refusals' = refusals + 1
  BY <1>3, Saved DEF Slot
<1>4. ASSUME NEW r \in Request, Touch(r)  PROVE [Box!Next]_(Box!box_vars)
  BY <1>1, <1>2, <1>3, <1>4, InSlot DEF Touch
<1>5. ASSUME NEW r \in Request, SaveCommand(r)  PROVE [Box!Next]_(Box!box_vars)
  <2> DEFINE new == [req[r].row EXCEPT !.cmd = req[r].cmd]
  <2>1. Carries(req[r]) /\ req[r].cmd \in Cmd /\ req[r].row \in Row
    <3>1. Carries(req[r])
      BY <1>5, InSlot DEF SaveCommand, Fits, Carries
    <3> QED BY <3>1, InSlot
  <2>2. new \in Row /\ new.cmd = req[r].cmd /\ Save(r, new) /\ taken' = taken
    BY <1>5, <2>1 DEF SaveCommand, Row
  <2> HIDE DEF new
  <2>3. /\ ~stale /\ req[r].row = row
        /\ \/ row' = new /\ refusals' = refusals
           \/ row' = row /\ refusals' = refusals + 1
    BY <1>3, <2>2
  <2>4. req[r].cmd \notin taken \cup {row.cmd}
    BY <2>1, <2>3 DEF Slot, OnePlace
  <2>5. ASSUME row' = new, refusals' = refusals  PROVE Box!Next
    BY <2>1, <2>2, <2>4, <2>5 DEF Box!Next, Box!Put
  <2> QED BY <1>2, <2>2, <2>3, <2>5
<1>6. ASSUME NEW r \in Request, ClearCommand(r)  PROVE [Box!Next]_(Box!box_vars)
  <2>1. Cleared(req[r].row) \in Row /\ Cleared(req[r].row).cmd = 0
    BY InSlot DEF Cleared, Row
  <2>2. /\ ~stale /\ req[r].row = row
        /\ \/ row' = Cleared(req[r].row) /\ refusals' = refusals
           \/ row' = row /\ refusals' = refusals + 1
    BY <1>3, <1>6, <2>1 DEF ClearCommand
  <2>3. taken' = taken \cup ({row.cmd} \cap Cmd)
    BY <1>6, <2>2 DEF ClearCommand
  <2>4. ASSUME row'.cmd = 0, refusals' = refusals, row.cmd = 0  PROVE [Box!Next]_(Box!box_vars)
    <3>1. taken' = taken
      BY <2>3, <2>4 DEF Cmd
    <3> QED BY <1>1, <2>4, <3>1
  <2>5. ASSUME row'.cmd = 0, refusals' = refusals, row.cmd # 0  PROVE Box!Next
    <3>1. row.cmd \in Cmd /\ (row.cmd \in taken => refusals > 0)
      BY <2>2, <2>5 DEF Row, Slot, TypeOK, OnePlace
    <3> QED BY <2>3, <2>5, <3>1 DEF Box!Next, Box!Take
  <2> QED BY <1>2, <2>1, <2>2, <2>3, <2>4, <2>5
<1>7. ASSUME NEW r \in Request, SetPushUrl(r)  PROVE [Box!Next]_(Box!box_vars)
  <2>1. PICK url \in Url \cup {None} : Save(r, WithUrl(req[r].row, url))
    BY <1>7 DEF SetPushUrl
  <2>2. /\ req[r].row = row
        /\ \/ row' = WithUrl(req[r].row, url) /\ refusals' = refusals
           \/ row' = row /\ refusals' = refusals + 1
    BY <1>3, <2>1, Urls
  <2>3. row'.cmd = row.cmd /\ taken' = taken
    BY <1>7, <2>2, Urls DEF SetPushUrl
  <2> QED BY <1>1, <1>2, <2>2, <2>3
<1>8. CASE UNCHANGED vars \/ Login \/ PushLater \/ Restart
  BY <1>1, <1>8 DEF vars, written, Login, PushLater, Restart
<1>9. ASSUME NEW r \in Request,
             \/ GetUser(r) \/ Fetch(r) \/ LockNotice(r) \/ CountCommands(r)
             \/ SetCommandToUser(r) \/ GetCommandToUser(r) \/ SetGauge(r)
      PROVE  [Box!Next]_(Box!box_vars)
  BY <1>1, <1>9 DEF GetUser, Fetch, LockNotice, CountCommands, SetCommandToUser,
                    GetCommandToUser, SetGauge, written
<1> QED BY <1>4, <1>5, <1>6, <1>7, <1>8, <1>9 DEF Next, Continue

(* The slot is a mailbox: a command waits until a newer one takes its      *)
(* place or one request takes it, and another takes it again only where a  *)
(* save has been refused (StepsOfMailbox, until an outdated copy is        *)
(* written back).                                                          *)
THEOREM SlotIsMailbox == Spec => StepsOfMailbox
<1>1. Slot /\ [Next]_vars => [~stale' => [Box!Next]_(Box!box_vars)]_vars
  BY MailboxStep
<1> QED BY <1>1, CommandsInOnePlace, PTL DEF Spec, StepsOfMailbox
-----------------------------------------------------------------------------
(* A request that is not fetching may go on or end, and one that is may go *)
(* on, without a wake-up being wasted.                                     *)
LEMMA StillFetched ==
  ASSUME Slot, NEW r \in Request, NEW s, Goto(r, s), row' = row,
         Fetching(req[r]) => s.op = "get" /\ s.row = req[r].row
  PROVE  (\E x \in Request : Fetching(req[x])) => (\E x \in Request : Fetching(req[x])')
<1>1. req'[r] = s /\ \A x \in Request \ {r} : req'[x] = req[x]
  BY DEF Goto, Slot, TypeOK
<1> QED BY <1>1 DEF Fetching

(* No step wastes a wake-up.                                               *)
LEMMA WokenNext ==
  ASSUME Slot, NoWakeUpWasted, [Next]_vars
  PROVE  NoWakeUpWasted'
<1> DEFINE Fetched == \E x \in Request : Fetching(req[x])
<1> SUFFICES ASSUME ~stale', due', row'.cmd # 0
             PROVE  woken' \/ later' \/ Fetched'
  BY DEF NoWakeUpWasted
<1>1. ~stale /\ due /\ row.cmd # 0 => woken \/ later \/ Fetched
  BY DEF NoWakeUpWasted
<1>2. ASSUME row' = row, ~stale, due, woken => woken', later => later', Fetched => Fetched'
      PROVE  woken' \/ later' \/ Fetched'
  BY <1>1, <1>2
<1>3. ASSUME NEW r \in Request, NEW s, Goto(r, s), row' = row,
             Fetching(req[r]) => s.op = "get" /\ s.row = req[r].row
      PROVE  Fetched => Fetched'
  BY <1>3, StillFetched
<1>4. \A r \in Request : req[r] \in RequestState /\ Fits(req[r], lastCmd)
  BY InSlot
<1> HIDE DEF Fetched
<1>5. CASE UNCHANGED vars
  BY <1>2, <1>5 DEF vars, Fetched, Fetching
<1>6. ASSUME NEW r \in Request, NEW s, Goto(r, s), req[r].pc \in {"idle", "set"},
             UNCHANGED <<push, row, stale>>
      PROVE  woken' \/ later' \/ Fetched'
  <2>1. ~Fetching(req[r])
    BY <1>4, <1>6 DEF Fits, Fetching
  <2> QED BY <1>2, <1>3, <1>6, <2>1 DEF push
<1>7. ASSUME NEW r \in Request, GetUser(r) \/ LockNotice(r) \/ CountCommands(r) \/ SetGauge(r)
      PROVE  woken' \/ later' \/ Fetched'
  <2>1. \E s : Goto(r, s)
    BY <1>7 DEF GetUser, LockNotice, CountCommands, SetGauge, NewCommand, Done
  <2>2. req[r].pc \in {"idle", "set"} /\ UNCHANGED <<push, row, stale>>
    BY <1>7 DEF GetUser, LockNotice, CountCommands, SetGauge, written
  <2> QED BY <1>6, <2>1, <2>2
<1>8. ASSUME NEW r \in Request, Fetch(r)  PROVE woken' \/ later' \/ Fetched'
  <2> DEFINE s == [Idle EXCEPT !.pc = "touch", !.op = "get", !.row = row]
  <2>1. s.op = "get" /\ s.row = row
    BY Reads DEF Slot
  <2>2. Goto(r, s) /\ row' = row
    BY <1>8 DEF Fetch, written
  <2> HIDE DEF s
  <2>3. req'[r] = s
    BY <2>2 DEF Goto, Slot, TypeOK
  <2> QED BY <2>1, <2>2, <2>3 DEF Fetched, Fetching
<1>9. ASSUME NEW r \in Request, NEW new \in Row, Save(r, new)
      PROVE  ~stale /\ req[r].row = row /\ row' \in {row, new}
  BY <1>9, Saved DEF Slot
<1>10. ASSUME NEW r \in Request, Touch(r)  PROVE woken' \/ later' \/ Fetched'
  <2>1. row' = row /\ ~stale /\ UNCHANGED push
    BY <1>9, <1>10, InSlot DEF Touch
  <2>2. CASE req[r].op = "other"
    BY <1>2, <1>3, <1>10, <2>1, <2>2 DEF Touch, Done, Fetching, push
  <2>3. CASE req[r].op # "other"
    <3> DEFINE s == [req[r] EXCEPT !.pc = req[r].op]
    <3>1. s.op = req[r].op /\ s.row = req[r].row
      BY <1>4 DEF RequestState
    <3>2. Goto(r, s)
      BY <1>10, <2>3 DEF Touch
    <3> HIDE DEF s
    <3> QED BY <1>2, <1>3, <2>1, <3>1, <3>2 DEF Fetching, push
  <2> QED BY <2>2, <2>3
<1>11. CASE Login
  BY <1>11 DEF Login
<1>12. CASE PushLater
  <2>1. row' = row
    BY <1>12 DEF PushLater, written
  <2>2. CASE woken'
    BY <2>2
  <2>3. CASE due' = (due /\ woken) /\ woken' = woken
    BY Zenon, <2>3
  <2> QED BY <1>12, <2>1, <2>2, <2>3 DEF PushLater, Push
<1>13. ASSUME NEW r \in Request, SetCommandToUser(r)  PROVE woken' \/ later' \/ Fetched'
  <2>1. ~Fetching(req[r])
    BY <1>4, <1>13 DEF SetCommandToUser, Fits, Fetching
  <2>2. Fetched => Fetched'
    BY <1>3, <1>13, <2>1 DEF SetCommandToUser, written
  <2>3. row' = row /\ ~stale /\ later' = later
    BY <1>13 DEF SetCommandToUser, written
  <2>4. woken' \/ (woken' = woken /\ due' = due)
    BY <1>13 DEF SetCommandToUser, Push
  <2> QED BY <1>1, <2>2, <2>3, <2>4
<1>14. ASSUME NEW r \in Request, SaveCommand(r)  PROVE woken' \/ later' \/ Fetched'
  <2>1. ~Fetching(req[r]) /\ Goto(r, Idle) /\ UNCHANGED <<woken, later>>
    BY <1>4, <1>14 DEF SaveCommand, Done, Fits, Fetching
  <2>2. due' = (woken \/ later \/ (due /\ row' = row)) /\ ~stale
    BY <1>14 DEF SaveCommand, Save
  <2> QED BY <1>2, <1>3, <2>1, <2>2
<1>15. ASSUME NEW r \in Request, GetCommandToUser(r)  PROVE woken' \/ later' \/ Fetched'
  <2> DEFINE s == [req[r] EXCEPT !.pc = "clear"]
  <2>1. s.op = req[r].op /\ s.row = req[r].row
    BY <1>4 DEF RequestState
  <2>2. Goto(r, s) /\ UNCHANGED <<row, stale, push>>
    BY <1>15 DEF GetCommandToUser, written
  <2> HIDE DEF s
  <2> QED BY <1>2, <1>3, <2>1, <2>2 DEF Fetching, push
<1>16. ASSUME NEW r \in Request, ClearCommand(r)  PROVE woken' \/ later' \/ Fetched'
  <2>1. Cleared(req[r].row) \in Row /\ Cleared(req[r].row).cmd = 0
    BY InSlot DEF Cleared, Row
  <2>2. Save(r, Cleared(req[r].row)) /\ UNCHANGED <<woken, later>>
    BY <1>16 DEF ClearCommand
  <2>3. refusals' = refusals + 1 /\ refusals \in Nat
    BY <2>1, <2>2, Saved, Bounds DEF Slot
  <2>4. refusals' # refusals
    BY <2>3
  <2>5. due' = IF refusals' # refusals THEN woken \/ later ELSE due
    BY <1>16 DEF ClearCommand
  <2> QED BY Zenon, <2>2, <2>4, <2>5
<1>17. ASSUME NEW r \in Request, SetPushUrl(r)  PROVE woken' \/ later' \/ Fetched'
  <2>1. ~Fetching(req[r]) /\ Goto(r, Idle) /\ UNCHANGED push
    BY <1>4, <1>17 DEF SetPushUrl, Done, Fits, Fetching
  <2>2. row'.cmd = row.cmd /\ ~stale
    BY <1>17, UrlStep DEF SetPushUrl, Save
  <2>3. \A x \in Request \ {r} : req'[x] = req[x]
    BY <2>1 DEF Goto, Slot, TypeOK
  <2>4. Fetched => Fetched'
    BY <2>1, <2>2, <2>3 DEF Fetched, Fetching
  <2> QED BY <1>1, <2>1, <2>2, <2>4 DEF push
<1>18. CASE Restart
  BY <1>18 DEF Restart
<1> QED BY <1>5, <1>7, <1>8, <1>10, <1>11, <1>12, <1>13, <1>14, <1>15, <1>16, <1>17, <1>18
        DEF Next, Continue

(* No wake-up is wasted, until an outdated copy is written back            *)
(* (NoWakeUpWasted).                                                       *)
THEOREM WakeUpsAreUsed == Spec => []NoWakeUpWasted
<1>1. Init => NoWakeUpWasted
  BY DEF Init, NoWakeUpWasted
<1>2. Slot /\ NoWakeUpWasted /\ [Next]_vars => NoWakeUpWasted'
  BY WokenNext
<1> QED BY <1>1, <1>2, CommandsInOnePlace, PTL DEF Spec
-----------------------------------------------------------------------------
(* The requests that have counted a command that is not yet in the table,  *)
(* and those that have counted one off that is still there.                *)
Adding(q) == q.pc = "save" /\ q.row.cmd = 0
Removing(q) == q.pc = "clear" /\ q.row.cmd # 0
Added == {r \in Request : Adding(req[r])}
Removed == {r \in Request : Removing(req[r])}

(* The gauges are ahead of the table by what was counted in advance, and   *)
(* what a recount has counted is true while it is under way.               *)
Accounted ==
  ~miscounted =>
    /\ pendingCommands = Pending(row) + Cardinality(Added) - Cardinality(Removed)
    /\ PushServers = Servers(row)
    /\ \A r \in Request : req[r].pc = "set" =>
         /\ Pending(req[r].row) = Pending(row)
         /\ Added = {} /\ Removed = {}

(* A gauge counts to 0 or 1, for the one account.                          *)
LEMMA Counts ==
  ASSUME NEW q
  PROVE  Pending(q) \in {0, 1} /\ (Pending(q) = 0 <=> q.cmd = 0)
BY DEF Pending

(* How the two sets change when a request moves.                           *)
LEMMA Moved ==
  ASSUME IsFiniteSet(Request), TypeOK, NEW r \in Request, NEW s, Goto(r, s)
  PROVE  /\ Cardinality(Added) \in Int /\ Cardinality(Removed) \in Int
         /\ Cardinality(Added') = Cardinality(Added)
              - (IF Adding(req[r]) THEN 1 ELSE 0) + (IF Adding(s) THEN 1 ELSE 0)
         /\ Cardinality(Removed') = Cardinality(Removed)
              - (IF Removing(req[r]) THEN 1 ELSE 0) + (IF Removing(s) THEN 1 ELSE 0)
         /\ r \in Added <=> Adding(req[r])
         /\ r \in Removed <=> Removing(req[r])
         /\ req'[r] = s /\ \A x \in Request \ {r} : req'[x] = req[x]
         /\ ~Adding(s) => Added' \subseteq Added
         /\ ~Removing(s) => Removed' \subseteq Removed
<1>1. req'[r] = s /\ \A x \in Request \ {r} : req'[x] = req[x]
  BY DEF Goto, TypeOK
<1>2. /\ Added' = IF Adding(s) THEN Added \cup {r} ELSE Added \ {r}
      /\ Removed' = IF Removing(s) THEN Removed \cup {r} ELSE Removed \ {r}
      /\ r \in Added <=> Adding(req[r])
      /\ r \in Removed <=> Removing(req[r])
  BY <1>1 DEF Added, Removed
<1>3. \A S \in SUBSET Request :
        /\ Cardinality(S) \in Nat
        /\ Cardinality(S \cup {r}) = Cardinality(S) + (IF r \in S THEN 0 ELSE 1)
        /\ Cardinality(S \ {r}) = Cardinality(S) - (IF r \in S THEN 1 ELSE 0)
  <2> SUFFICES ASSUME NEW S \in SUBSET Request
               PROVE  /\ Cardinality(S) \in Nat
                      /\ Cardinality(S \cup {r}) = Cardinality(S) + (IF r \in S THEN 0 ELSE 1)
                      /\ Cardinality(S \ {r}) = Cardinality(S) - (IF r \in S THEN 1 ELSE 0)
    OBVIOUS
  <2>1. IsFiniteSet(S)
    BY FS_Subset
  <2>2. Cardinality(S) \in Nat
    BY <2>1, FS_CardinalityType
  <2>3. Cardinality(S \cup {r}) = IF r \in S THEN Cardinality(S) ELSE Cardinality(S) + 1
    BY <2>1, FS_AddElement
  <2>4. Cardinality(S \ {r}) = IF r \in S THEN Cardinality(S) - 1 ELSE Cardinality(S)
    BY <2>1, FS_RemoveElement
  <2> QED BY <2>2, <2>3, <2>4
<1>4. Added \in SUBSET Request /\ Removed \in SUBSET Request
  BY DEF Added, Removed
<1>5. ASSUME NEW S \in SUBSET Request, NEW T, NEW a \in BOOLEAN,
             T = IF a THEN S \cup {r} ELSE S \ {r}
      PROVE  /\ Cardinality(S) \in Int
             /\ Cardinality(T) = Cardinality(S) - (IF r \in S THEN 1 ELSE 0) + (IF a THEN 1 ELSE 0)
  <2>1. /\ Cardinality(S) \in Nat
        /\ Cardinality(S \cup {r}) = Cardinality(S) + (IF r \in S THEN 0 ELSE 1)
        /\ Cardinality(S \ {r}) = Cardinality(S) - (IF r \in S THEN 1 ELSE 0)
    BY <1>3
  <2>2. Cardinality(T) = IF a THEN Cardinality(S \cup {r}) ELSE Cardinality(S \ {r})
    BY <1>5
  <2> DEFINE c == Cardinality(S)
             p == Cardinality(S \cup {r})
             m == Cardinality(S \ {r})
  <2>3. c \in Nat /\ p = c + (IF r \in S THEN 0 ELSE 1) /\ m = c - (IF r \in S THEN 1 ELSE 0)
    BY <2>1
  <2>4. Cardinality(T) = IF a THEN p ELSE m
    BY <2>2
  <2> HIDE DEF p, m
  <2> QED BY <2>3, <2>4
<1>6. Adding(s) \in BOOLEAN /\ Removing(s) \in BOOLEAN
  BY Zenon DEF Adding, Removing
<1>7. /\ Cardinality(Added) \in Int
      /\ Cardinality(Added') = Cardinality(Added)
           - (IF r \in Added THEN 1 ELSE 0) + (IF Adding(s) THEN 1 ELSE 0)
  BY <1>2, <1>4, <1>5, <1>6
<1>8. /\ Cardinality(Removed) \in Int
      /\ Cardinality(Removed') = Cardinality(Removed)
           - (IF r \in Removed THEN 1 ELSE 0) + (IF Removing(s) THEN 1 ELSE 0)
  BY <1>2, <1>4, <1>5, <1>6
<1>9. /\ (IF r \in Added THEN 1 ELSE 0) = (IF Adding(req[r]) THEN 1 ELSE 0)
      /\ (IF r \in Removed THEN 1 ELSE 0) = (IF Removing(req[r]) THEN 1 ELSE 0)
  BY <1>2
<1> QED BY <1>1, <1>2, <1>7, <1>8, <1>9

(* A request that is idle, or ends: nothing of it is counted in advance.   *)
LEMMA NotAhead ==
  ASSUME NEW s, s.pc \notin {"save", "clear"}
  PROVE  ~Adding(s) /\ ~Removing(s) /\ ~Ahead(s)
BY DEF Adding, Removing, Ahead

(* At the start there is nothing to account for.                           *)
LEMMA AccountedInit == Init => Accounted
<1> SUFFICES ASSUME Init PROVE Accounted
  OBVIOUS
<1>1. Added = {} /\ Removed = {} /\ \A r \in Request : req[r].pc = "idle"
  BY DEF Init, Idle, Added, Adding, Removed, Removing
<1>2. Cardinality(Added) = 0 /\ Cardinality(Removed) = 0
  BY <1>1, FS_EmptySet
<1>3. pendingCommands = Pending(row) /\ Pending(row) \in Int
  BY DEF Init, Pending
<1> QED BY <1>1, <1>2, <1>3 DEF Init, Accounted

(* A request moves on without counting anything, and neither the table nor *)
(* a gauge changes.                                                        *)
LEMMA StillAccounted ==
  ASSUME IsFiniteSet(Request), TypeOK, Accounted, NEW r \in Request, NEW s, Goto(r, s),
         req[r].pc \notin {"save", "clear"}, s.pc \notin {"save", "clear"},
         Pending(row') = Pending(row), PushServers' = Servers(row') \/ miscounted',
         pendingCommands' = pendingCommands, miscounted => miscounted',
         s.pc = "set" => Pending(s.row) = Pending(row) /\ (miscounted' \/ \A x \in Request : ~Ahead(req[x]))
  PROVE  Accounted'
<1> SUFFICES ASSUME ~miscounted'
             PROVE  /\ pendingCommands' = Pending(row') + Cardinality(Added') - Cardinality(Removed')
                    /\ PushServers' = Servers(row')
                    /\ \A x \in Request : req'[x].pc = "set" =>
                         /\ Pending(req'[x].row) = Pending(row')
                         /\ Added' = {} /\ Removed' = {}
  BY DEF Accounted
<1>1. /\ pendingCommands = Pending(row) + Cardinality(Added) - Cardinality(Removed)
      /\ \A x \in Request : req[x].pc = "set" =>
           /\ Pending(req[x].row) = Pending(row)
           /\ Added = {} /\ Removed = {}
  BY DEF Accounted
<1>2. ~Adding(s) /\ ~Removing(s) /\ ~Adding(req[r]) /\ ~Removing(req[r])
  BY NotAhead
<1>3. /\ Cardinality(Added') = Cardinality(Added) /\ Cardinality(Removed') = Cardinality(Removed)
      /\ Added' \subseteq Added /\ Removed' \subseteq Removed
      /\ req'[r] = s /\ \A x \in Request \ {r} : req'[x] = req[x]
  BY <1>2, Moved
<1>4. s.pc = "set" => Added = {} /\ Removed = {}
  BY DEF Added, Removed, Adding, Removing, Ahead
<1> QED BY <1>1, <1>3, <1>4

(* What a save does to the accounts: the request that ends was ahead of    *)
(* the table by as much as the table changes, or the step miscounts.       *)
LEMMA SaveAccounted ==
  ASSUME IsFiniteSet(Request), Slot, Accounted, NEW r \in Request, NEW s, Goto(r, s),
         s.pc \notin {"save", "clear", "set"}, NEW new \in Row, Save(r, new),
         Pending(new) = Pending(req[r].row)
            + (IF Adding(req[r]) THEN 1 ELSE 0) - (IF Removing(req[r]) THEN 1 ELSE 0),
         pendingCommands' = pendingCommands,
         PushServers' = [u \in Url |-> PushServers[u] - Servers(req[r].row)[u] + Servers(new)[u]]
  PROVE  Accounted'
<1> SUFFICES ASSUME ~miscounted'
             PROVE  /\ pendingCommands' = Pending(row') + Cardinality(Added') - Cardinality(Removed')
                    /\ PushServers' = Servers(row')
                    /\ \A x \in Request : req'[x].pc = "set" =>
                         /\ Pending(req'[x].row) = Pending(row')
                         /\ Added' = {} /\ Removed' = {}
  BY DEF Accounted
<1>1. /\ ~miscounted
      /\ \/ row' = new /\ SameGauges(row, req[r].row)
         \/ row' = row /\ SameGauges(new, req[r].row)
  BY DEF Save
<1>2. /\ pendingCommands = Pending(row) + Cardinality(Added) - Cardinality(Removed)
      /\ PushServers = Servers(row)
      /\ \A x \in Request : req[x].pc = "set" =>
           /\ Pending(req[x].row) = Pending(row)
           /\ Added = {} /\ Removed = {}
  BY <1>1 DEF Accounted
<1>3. ~Adding(s) /\ ~Removing(s)
  BY NotAhead
<1>4. /\ Cardinality(Added) \in Int /\ Cardinality(Removed) \in Int
      /\ Cardinality(Added') = Cardinality(Added) - (IF Adding(req[r]) THEN 1 ELSE 0)
      /\ Cardinality(Removed') = Cardinality(Removed) - (IF Removing(req[r]) THEN 1 ELSE 0)
      /\ Added' \subseteq Added /\ Removed' \subseteq Removed
      /\ r \in Added <=> Adding(req[r])
      /\ r \in Removed <=> Removing(req[r])
      /\ req'[r] = s /\ \A x \in Request \ {r} : req'[x] = req[x]
  <2>1. TypeOK
    BY DEF Slot
  <2> QED BY <1>3, <2>1, Moved
<1>5. Pending(row') = Pending(row)
        + (IF Adding(req[r]) THEN 1 ELSE 0) - (IF Removing(req[r]) THEN 1 ELSE 0)
  <2>1. Pending(row) \in Int /\ Pending(new) \in Int /\ Pending(req[r].row) \in Int
    BY Counts
  <2>2. ~(Adding(req[r]) /\ Removing(req[r]))
    BY DEF Adding, Removing
  <2> QED BY <1>1, <2>1, <2>2 DEF SameGauges
<1>6. pendingCommands' = Pending(row') + Cardinality(Added') - Cardinality(Removed')
  <2>1. Pending(row) \in Int
    BY Counts
  <2> QED BY <1>2, <1>4, <1>5, <2>1
<1>7. PushServers' = Servers(row')
  <2>1. \A c \in {row, new, req[r].row} : \A u \in Url : Servers(c)[u] \in Int
    BY DEF Servers
  <2>2. \A u \in Url : PushServers'[u] = Servers(row')[u]
    BY <1>1, <1>2, <2>1 DEF SameGauges
  <2>3. PushServers' = [u \in Url |-> PushServers'[u]]
    OBVIOUS
  <2>4. PushServers' = [u \in Url |-> Servers(row')[u]]
    BY <2>2, <2>3
  <2> QED BY <2>4 DEF Servers
<1>8. ASSUME NEW x \in Request, req'[x].pc = "set"
      PROVE  Pending(req'[x].row) = Pending(row') /\ Added' = {} /\ Removed' = {}
  <2>1. x # r /\ req'[x] = req[x]
    BY <1>4, <1>8
  <2>2. Pending(req[x].row) = Pending(row) /\ Added = {} /\ Removed = {}
    BY <1>2, <1>8, <2>1
  <2>3. ~Adding(req[r]) /\ ~Removing(req[r])
    BY <1>4, <2>2
  <2>4. Pending(row) \in Int
    BY Counts
  <2> QED BY <1>4, <1>5, <2>1, <2>2, <2>3, <2>4
<1> QED BY <1>6, <1>7, <1>8

(* Counting in advance: the gauge and the requests that are ahead of the   *)
(* table change by the same, or a recount is crossed.                      *)
LEMMA CountAccounted ==
  ASSUME IsFiniteSet(Request), Slot, Accounted, NEW r \in Request, NEW s, Goto(r, s),
         NEW n \in Int, Adjust(r, n), req[r].pc \notin {"save", "clear"}, s.pc # "set",
         n = (IF Adding(s) THEN 1 ELSE 0) - (IF Removing(s) THEN 1 ELSE 0),
         UNCHANGED <<row, PushServers>>
  PROVE  Accounted'
<1> SUFFICES ASSUME ~miscounted'
             PROVE  /\ pendingCommands' = Pending(row') + Cardinality(Added') - Cardinality(Removed')
                    /\ PushServers' = Servers(row')
                    /\ \A x \in Request : req'[x].pc = "set" =>
                         /\ Pending(req'[x].row) = Pending(row')
                         /\ Added' = {} /\ Removed' = {}
  BY DEF Accounted
<1>1. /\ ~miscounted /\ pendingCommands' = pendingCommands + n
      /\ n # 0 => \A x \in Request : req[x].pc # "set"
  BY DEF Adjust
<1>2. /\ pendingCommands = Pending(row) + Cardinality(Added) - Cardinality(Removed)
      /\ PushServers = Servers(row)
      /\ \A x \in Request : req[x].pc = "set" =>
           /\ Pending(req[x].row) = Pending(row)
           /\ Added = {} /\ Removed = {}
  BY <1>1 DEF Accounted
<1>3. ~Adding(req[r]) /\ ~Removing(req[r]) /\ ~(Adding(s) /\ Removing(s))
  BY DEF Adding, Removing
<1>4. /\ Cardinality(Added) \in Int /\ Cardinality(Removed) \in Int
      /\ Cardinality(Added') = Cardinality(Added) + (IF Adding(s) THEN 1 ELSE 0)
      /\ Cardinality(Removed') = Cardinality(Removed) + (IF Removing(s) THEN 1 ELSE 0)
      /\ ~Adding(s) => Added' \subseteq Added
      /\ ~Removing(s) => Removed' \subseteq Removed
      /\ req'[r] = s /\ \A x \in Request \ {r} : req'[x] = req[x]
  <2>1. TypeOK
    BY DEF Slot
  <2> QED BY <1>3, <2>1, Moved
<1>5. pendingCommands' = Pending(row') + Cardinality(Added') - Cardinality(Removed')
  <2>1. Pending(row) \in Int
    BY Counts
  <2> QED BY <1>1, <1>2, <1>4, <2>1
<1>6. ASSUME NEW x \in Request, req'[x].pc = "set"
      PROVE  Pending(req'[x].row) = Pending(row') /\ Added' = {} /\ Removed' = {}
  <2>1. x # r /\ req'[x] = req[x]
    BY <1>4, <1>6
  <2>2. n = 0 /\ Pending(req[x].row) = Pending(row) /\ Added = {} /\ Removed = {}
    BY <1>1, <1>2, <1>6, <2>1
  <2>3. ~Adding(s) /\ ~Removing(s)
    BY <1>3, <2>2
  <2> QED BY <1>4, <2>1, <2>2, <2>3
<1> QED BY <1>2, <1>5, <1>6

(* Every step accounts for what it did.                                    *)
LEMMA AccountedNext ==
  ASSUME IsFiniteSet(Request), Slot, Accounted, [Next]_vars
  PROVE  Accounted'
<1>1. TypeOK
  BY DEF Slot
<1>2. CASE UNCHANGED vars \/ Login \/ PushLater
  <2>1. UNCHANGED <<row, pendingCommands, PushServers, req, miscounted>>
    BY <1>2 DEF vars, gauges, written, Login, PushLater
  <2>2. Added' = Added /\ Removed' = Removed
    BY <2>1 DEF Added, Removed
  <2> QED BY <2>1, <2>2 DEF Accounted
<1>3. PushServers = Servers(row) \/ miscounted
  BY DEF Accounted
<1>4. ASSUME NEW r \in Request, GetUser(r) \/ Fetch(r) \/ LockNotice(r)  PROVE Accounted'
  <2>1. UNCHANGED <<row, pendingCommands, PushServers, miscounted>> /\ req[r].pc = "idle"
    BY <1>4 DEF GetUser, Fetch, LockNotice, gauges, written
  <2>2. ASSUME NEW s, Goto(r, s), s.pc \in {"touch", "post"}  PROVE Accounted'
    BY <1>1, <1>3, <2>1, <2>2, StillAccounted
  <2>3. ASSUME NEW op \in {"get", "url", "other"},
               Goto(r, [Idle EXCEPT !.pc = "touch", !.op = op, !.row = row])
        PROVE  Accounted'
    <3>1. [Idle EXCEPT !.pc = "touch", !.op = op, !.row = row].pc = "touch"
      BY <1>1, Reads
    <3> QED BY <2>2, <2>3, <3>1
  <2>4. ASSUME NEW pc \in {"touch", "post"}, NewCommand(r, pc)  PROVE Accounted'
    <3>1. Goto(r, [pc |-> pc, op |-> "post", row |-> row, cmd |-> lastCmd + 1])
      BY <2>4 DEF NewCommand
    <3> QED BY <2>2, <3>1
  <2> QED BY <1>4, <2>3, <2>4 DEF GetUser, Fetch, LockNotice
<1>5. ASSUME NEW r \in Request, CountCommands(r)  PROVE Accounted'
  <2> DEFINE s == [Idle EXCEPT !.pc = "set", !.op = "recount", !.row = [NoRow EXCEPT !.cmd = row.cmd]]
  <2>1. s.pc = "set" /\ s.row.cmd = row.cmd
    BY <1>1, Reads
  <2>2. /\ Goto(r, s) /\ UNCHANGED <<row, pendingCommands, PushServers>> /\ req[r].pc = "idle"
        /\ miscounted => miscounted'
        /\ miscounted' \/ \A x \in Request : ~Ahead(req[x])
    BY <1>5 DEF CountCommands, gauges, written
  <2> HIDE DEF s
  <2>3. Pending(s.row) = Pending(row)
    BY <2>1 DEF Pending
  <2>4. PushServers' = Servers(row') \/ miscounted'
    BY <1>3, <2>2
  <2> QED BY <1>1, <2>1, <2>2, <2>3, <2>4, StillAccounted
<1>6. ASSUME NEW r \in Request, Touch(r)  PROVE Accounted'
  <2>1. /\ req[r] \in RequestState /\ req[r].row \in Row
        /\ req[r].op \in {"get", "post", "url", "other"}
    BY <1>6, InSlot DEF Touch, Fits
  <2>2. PICK s : Goto(r, s) /\ s.pc \notin {"save", "clear", "set"}
    <3>1. CASE req[r].op = "other"
      BY <1>6, <3>1 DEF Touch, Done, Idle
    <3>2. CASE req[r].op # "other"
      <4>1. Goto(r, [req[r] EXCEPT !.pc = req[r].op])
        BY <1>6, <3>2 DEF Touch
      <4>2. [req[r] EXCEPT !.pc = req[r].op].pc = req[r].op
        BY <2>1 DEF RequestState
      <4> QED BY <2>1, <4>1, <4>2
    <3> QED BY <3>1, <3>2
  <2>3. ~Adding(req[r]) /\ ~Removing(req[r])
    BY <1>6 DEF Touch, Adding, Removing
  <2>4. /\ Save(r, req[r].row) /\ UNCHANGED <<pendingCommands, PushServers>>
    BY <1>6 DEF Touch, gauges
  <2>5. Pending(req[r].row) = Pending(req[r].row)
          + (IF Adding(req[r]) THEN 1 ELSE 0) - (IF Removing(req[r]) THEN 1 ELSE 0)
    BY <2>3, Counts
  <2>6. PushServers' = [u \in Url |-> PushServers[u] - Servers(req[r].row)[u] + Servers(req[r].row)[u]]
    <3>1. PushServers \in [Url -> Int] /\ \A u \in Url : Servers(req[r].row)[u] \in Int
      BY <1>1 DEF TypeOK, Servers
    <3>2. \A u \in Url : PushServers[u] - Servers(req[r].row)[u] + Servers(req[r].row)[u] = PushServers[u]
      BY <3>1
    <3>3. PushServers = [u \in Url |-> PushServers[u]]
      BY <3>1
    <3> QED BY <2>4, <3>2, <3>3
  <2> QED BY <2>1, <2>2, <2>4, <2>5, <2>6, SaveAccounted
<1>7. ASSUME NEW r \in Request, SetCommandToUser(r)  PROVE Accounted'
  <2> DEFINE s == [req[r] EXCEPT !.pc = "save"]
  <2>1. s.pc = "save" /\ s.row = req[r].row
    BY InSlot DEF RequestState
  <2>2. /\ Goto(r, s) /\ Adjust(r, Count(req[r].row)) /\ req[r].pc = "post"
        /\ UNCHANGED <<row, PushServers>>
    BY <1>7 DEF SetCommandToUser, written
  <2> HIDE DEF s
  <2>3. Count(req[r].row) \in Int
    BY DEF Count, Pending
  <2>4. Count(req[r].row) = (IF Adding(s) THEN 1 ELSE 0) - (IF Removing(s) THEN 1 ELSE 0)
    BY <2>1 DEF Count, Pending, Adding, Removing
  <2> QED BY <2>1, <2>2, <2>3, <2>4, CountAccounted
<1>8. ASSUME NEW r \in Request, GetCommandToUser(r)  PROVE Accounted'
  <2> DEFINE s == [req[r] EXCEPT !.pc = "clear"]
  <2>1. s.pc = "clear" /\ s.row = req[r].row
    BY InSlot DEF RequestState
  <2>2. /\ Goto(r, s) /\ Adjust(r, -Pending(req[r].row)) /\ req[r].pc = "get"
        /\ UNCHANGED <<row, PushServers>>
    BY <1>8 DEF GetCommandToUser, written
  <2> HIDE DEF s
  <2>3. -Pending(req[r].row) \in Int
    BY DEF Pending
  <2>4. -Pending(req[r].row) = (IF Adding(s) THEN 1 ELSE 0) - (IF Removing(s) THEN 1 ELSE 0)
    BY <2>1 DEF Pending, Adding, Removing
  <2> QED BY <2>1, <2>2, <2>3, <2>4, CountAccounted
<1>9. ASSUME NEW r \in Request, NEW new \in Row, Save(r, new), new.url = req[r].row.url,
             Done(r), UNCHANGED gauges,
             Pending(new) = Pending(req[r].row)
               + (IF Adding(req[r]) THEN 1 ELSE 0) - (IF Removing(req[r]) THEN 1 ELSE 0)
      PROVE  Accounted'
  <2>1. PushServers' = [u \in Url |-> PushServers[u] - Servers(req[r].row)[u] + Servers(new)[u]]
    <3>1. /\ PushServers \in [Url -> Int] /\ \A u \in Url : Servers(req[r].row)[u] \in Int
          /\ Servers(new) = Servers(req[r].row) /\ PushServers' = PushServers
      BY <1>1, <1>9 DEF TypeOK, Servers, gauges
    <3>2. \A u \in Url : PushServers[u] - Servers(req[r].row)[u] + Servers(new)[u] = PushServers[u]
      BY <3>1
    <3>3. PushServers = [u \in Url |-> PushServers[u]]
      BY <3>1
    <3> QED BY <3>1, <3>2, <3>3
  <2>2. Goto(r, Idle) /\ Idle.pc = "idle" /\ pendingCommands' = pendingCommands
    BY <1>9 DEF Done, Idle, gauges
  <2> QED BY <1>9, <2>1, <2>2, SaveAccounted
<1>10. ASSUME NEW r \in Request, SaveCommand(r)  PROVE Accounted'
  <2> DEFINE new == [req[r].row EXCEPT !.cmd = req[r].cmd]
  <2>1. Carries(req[r]) /\ req[r].cmd \in Cmd /\ req[r].cmd # 0 /\ req[r].row \in Row
    <3>1. Carries(req[r])
      BY <1>10, InSlot DEF SaveCommand, Fits, Carries
    <3> QED BY <3>1, InSlot
  <2>2. /\ new \in Row /\ new.cmd = req[r].cmd /\ new.url = req[r].row.url
        /\ Save(r, new) /\ Done(r) /\ UNCHANGED gauges
    BY <1>10, <2>1 DEF SaveCommand, Row
  <2> HIDE DEF new
  <2>3. Pending(new) = Pending(req[r].row)
          + (IF Adding(req[r]) THEN 1 ELSE 0) - (IF Removing(req[r]) THEN 1 ELSE 0)
    BY <1>10, <2>1, <2>2 DEF SaveCommand, Pending, Adding, Removing
  <2> QED BY <1>9, <2>2, <2>3
<1>11. ASSUME NEW r \in Request, ClearCommand(r)  PROVE Accounted'
  <2> DEFINE new == Cleared(req[r].row)
  <2>1. /\ new \in Row /\ new.cmd = 0 /\ new.url = req[r].row.url
        /\ Save(r, new) /\ Done(r) /\ UNCHANGED gauges
    BY <1>11, InSlot DEF ClearCommand, Cleared, Row
  <2> HIDE DEF new
  <2>2. Pending(new) = Pending(req[r].row)
          + (IF Adding(req[r]) THEN 1 ELSE 0) - (IF Removing(req[r]) THEN 1 ELSE 0)
    BY <1>11, <2>1 DEF ClearCommand, Pending, Adding, Removing
  <2> QED BY <1>9, <2>1, <2>2
<1>12. ASSUME NEW r \in Request, SetPushUrl(r)  PROVE Accounted'
  <2>1. PICK url \in Url \cup {None} :
          /\ Save(r, WithUrl(req[r].row, url))
          /\ PushServers' = [u \in Url |-> PushServers[u] - Servers(req[r].row)[u]
                                             + Servers(WithUrl(req[r].row, url))[u]]
    BY <1>12 DEF SetPushUrl
  <2> DEFINE new == WithUrl(req[r].row, url)
  <2>2. new \in Row /\ new.cmd = req[r].row.cmd
    BY Urls
  <2>3. /\ Goto(r, Idle) /\ Idle.pc = "idle" /\ pendingCommands' = pendingCommands
        /\ ~Adding(req[r]) /\ ~Removing(req[r])
    BY <1>12 DEF SetPushUrl, Done, Idle, Adding, Removing
  <2>4. Pending(new) = Pending(req[r].row)
          + (IF Adding(req[r]) THEN 1 ELSE 0) - (IF Removing(req[r]) THEN 1 ELSE 0)
    BY <2>2, <2>3 DEF Pending
  <2> HIDE DEF new
  <2>5. Save(r, new) /\ PushServers' = [u \in Url |-> PushServers[u] - Servers(req[r].row)[u] + Servers(new)[u]]
    BY <2>1 DEF new
  <2> QED BY <2>2, <2>3, <2>4, <2>5, SaveAccounted
<1>13. ASSUME NEW r \in Request, SetGauge(r)  PROVE Accounted'
  <2>1. /\ Goto(r, Idle) /\ Idle.pc = "idle" /\ req[r].pc = "set"
        /\ pendingCommands' = Pending(req[r].row) /\ UNCHANGED <<row, PushServers, miscounted>>
    BY <1>13 DEF SetGauge, Done, Idle, written
  <2>2. CASE miscounted
    BY <2>1, <2>2 DEF Accounted
  <2>3. CASE ~miscounted
    <3>1. /\ Pending(req[r].row) = Pending(row) /\ Added = {} /\ Removed = {}
          /\ pendingCommands = Pending(row) + Cardinality(Added) - Cardinality(Removed)
      BY <2>1, <2>3 DEF Accounted
    <3>2. Cardinality(Added) = 0 /\ Cardinality(Removed) = 0
      BY <3>1, FS_EmptySet
    <3>3. pendingCommands' = pendingCommands
      BY <2>1, <3>1, <3>2, Counts
    <3> QED BY <1>1, <1>3, <2>1, <2>3, <3>3, StillAccounted
  <2> QED BY <2>2, <2>3
<1>14. CASE Restart
  <2>1. \A r \in Request : req'[r] = Idle
    BY <1>14 DEF Restart
  <2>2. Added' = {} /\ Removed' = {} /\ \A r \in Request : req'[r].pc = "idle"
    BY <2>1 DEF Added, Adding, Removed, Removing, Idle
  <2>3. Cardinality(Added') = 0 /\ Cardinality(Removed') = 0
    BY <2>2, FS_EmptySet
  <2>4. pendingCommands' = Pending(row) /\ row' = row /\ PushServers' = Servers(row) /\ Pending(row) \in Int
    BY <1>14, Counts DEF Restart, written
  <2> QED BY <2>2, <2>3, <2>4 DEF Accounted
<1> QED BY <1>2, <1>4, <1>5, <1>6, <1>7, <1>8, <1>10, <1>11, <1>12, <1>13, <1>14 DEF Next, Continue

(* The gauges tell the truth whenever no request is under way, unless,     *)
(* since the start, what a gauge counted was not stored, an outdated copy  *)
(* has undone it, or a recount crossed it (GaugesTrue).                    *)
THEOREM GaugesTellTheTruth ==
  ASSUME IsFiniteSet(Request)
  PROVE  Spec => []GaugesTrue
<1>1. Slot /\ Accounted /\ [Next]_vars => Accounted'
  BY AccountedNext
<1>2. Accounted => GaugesTrue
  <2> SUFFICES ASSUME Accounted, ~miscounted, \A r \in Request : req[r].pc = "idle"
               PROVE  pendingCommands = Pending(row) /\ PushServers = Servers(row)
    BY DEF GaugesTrue
  <2>1. Added = {} /\ Removed = {}
    BY DEF Added, Adding, Removed, Removing
  <2>2. Cardinality(Added) = 0 /\ Cardinality(Removed) = 0 /\ Pending(row) \in Int
    BY <2>1, FS_EmptySet DEF Pending
  <2> QED BY <2>2 DEF Accounted
<1> QED BY <1>1, <1>2, AccountedInit, CommandsInOnePlace, PTL DEF Spec
=============================================================================

-------------------------- MODULE DataStore_proofs --------------------------
(***************************************************************************)
(* Proofs about DataStore: what the stores of an account hold and lose,    *)
(* and what the gauges say of them, for any number of requests, uploads    *)
(* and rows, and any limit.                                                *)
(***************************************************************************)
EXTENDS DataStore, FiniteSetTheorems, Extremes

V1 == <<"v1", "location">>

(* What a request may be doing: only API v1 deletes rows by a list.        *)
Fits(q) ==
  /\ q \in RequestState
  /\ q.pc \in {"preload", "drop", "dropped"} => q.store = V1

Typing == TypeOK /\ \A r \in Request : Fits(req[r])

(* The limit of a store is kept, or a request of v1 is about to delete     *)
(* enough of its rows.                                                     *)
Kept(rows, s) == Cardinality(rows) <= NumToKeep(s[2])
Pruning(r, s) == req[r].pc \in {"drop", "dropped"} /\ req[r].store = s
Within ==
  \A s \in Store \ unpruned : NumToKeep(s[2]) # KEEP_ALL =>
    Kept(In(s), s) \/ \E r \in Request : Pruning(r, s) /\ Kept(In(s) \ req[r].list, s)

(* As many newer rows of its own store as the limit says have been stored. *)
Newer(i) == {j \in DOMAIN items : j > i /\ items[j] = items[i]}
Outnumbered(i) ==
  /\ i \in DOMAIN items /\ items[i][2] = "location"
  /\ Cardinality(Newer(i)) >= maxSavedLoc

(* The rows that a request is about to delete may be deleted.              *)
ListsOld == \A r \in Request : \A i \in req[r].list : Outnumbered(i)

Losses == NoOrphans /\ ListsOld /\ NewestKept
-----------------------------------------------------------------------------
(* Request r, and no other, becomes q.                                     *)
Becomes(r, q) == req' = [x \in Request |-> IF x = r THEN q ELSE req[x]]

(* The names of the places where a request may be.                         *)
LEMMA PCs ==
  {"idle", "create", "added", "prune", "preload", "drop", "dropped", "delete", "deleted",
   "deleteUser", "count", "set", "countV2", "add"} \subseteq PC
BY DEF PC

(* An idle request may be in a slot.                                       *)
LEMMA IdleFits == Fits(Idle)
<1>1. Zero \in [DataType -> Nat]
  BY DEF Zero
<1>2. <<"v2", "command">> \in Store
  BY DEF Store, DataType
<1> QED BY <1>1, <1>2, PCs DEF Idle, RequestState, Fits

(* A request that becomes what it may be leaves the others alone.          *)
LEMMA Becoming ==
  ASSUME Typing, NEW r \in Request, NEW q, Fits(q), Becomes(r, q)
  PROVE  /\ req' \in [Request -> RequestState] /\ \A x \in Request : Fits(req'[x])
         /\ req'[r] = q /\ \A x \in Request \ {r} : req'[x] = req[x]
BY DEF Typing, Becomes, Fits

(* The ways in which the steps change the state of their request.          *)
LEMMA Changes ==
  ASSUME Typing, NEW r \in Request
  PROVE  /\ \A pc : Goto(r, pc) => Becomes(r, [req[r] EXCEPT !.pc = pc])
         /\ \A pc, n : Affected(r, pc, n) => Becomes(r, [req[r] EXCEPT !.pc = pc, !.n = n])
         /\ Done(r) => Becomes(r, Idle)
<1>1. req = [x \in Request |-> req[x]]
  BY DEF Typing, TypeOK
<1>2. ASSUME NEW pc, Goto(r, pc)  PROVE Becomes(r, [req[r] EXCEPT !.pc = pc])
  BY <1>1, <1>2 DEF Goto, Becomes
<1>3. ASSUME NEW pc, NEW n, Affected(r, pc, n)
      PROVE  Becomes(r, [req[r] EXCEPT !.pc = pc, !.n = n])
  BY <1>1, <1>3 DEF Affected, Becomes
<1>4. ASSUME Done(r)  PROVE Becomes(r, Idle)
  BY <1>1, <1>4 DEF Done, Becomes
<1> QED BY <1>2, <1>3, <1>4

(* The next row on its list goes, or is refused to.                        *)
LEMMA Drops ==
  ASSUME NEW r \in Request, Drop(r), req[r].list # {}
  PROVE  \E out \in {alive \cap {Min(req[r].list)}, {}} :
           /\ alive' = alive \ out
           /\ unpruned' = unpruned \cup {s \in {req[r].store} : Min(req[r].list) \in alive'}
           /\ req' = [req EXCEPT ![r].pc = "dropped", ![r].list = @ \ {Min(req[r].list)},
                                 ![r].n = Cardinality(out)]
           /\ UNCHANGED <<items, gone, gauge, erased, miscounted>>
BY DEF Drop

(* The rows ever inserted are numbered, and the last number is their count.*)
LEMMA Numbering ==
  ASSUME TypeOK
  PROVE  \E last \in 0..MaxId : /\ last \in Nat /\ DOMAIN items = 1..last
                                /\ Cardinality(DOMAIN items) = last
                                /\ IsFiniteSet(DOMAIN items)
<1>1. PICK last \in 0..MaxId : DOMAIN items = 1..last
  BY DEF TypeOK
<1>2. last \in Nat
  BY DataStoreAssumption
<1>3. IsFiniteSet(1..last) /\ Cardinality(1..last) = last
  BY <1>2, FS_Interval
<1> QED BY <1>1, <1>2, <1>3

(* Sets of numbers up to a last one are finite.                            *)
LEMMA NumberedFinite ==
  ASSUME NEW last \in Nat, NEW S \in SUBSET (1..last)
  PROVE  IsFiniteSet(S) /\ Cardinality(S) \in Nat
<1>1. IsFiniteSet(1..last)
  BY FS_Interval
<1> QED BY <1>1, FS_Subset, FS_CardinalityType

(* So are the sets of rows.                                                *)
LEMMA RowsFinite ==
  ASSUME TypeOK, NEW S \in SUBSET DOMAIN items
  PROVE  IsFiniteSet(S) /\ Cardinality(S) \in Nat
BY Numbering, NumberedFinite

(* Of the rows that are not surplus there are no more than the limit.      *)
LEMMA SurplusBound ==
  ASSUME TypeOK, NEW rows \in SUBSET DOMAIN items, NEW keep \in Nat
  PROVE  Cardinality(rows \ Surplus(rows, keep)) <= keep
<1> DEFINE rest == rows \ Surplus(rows, keep)
           above(m) == {j \in rows : j > m}
<1>1. IsFiniteSet(rest) /\ rest \subseteq Nat
  <2>1. DOMAIN items \subseteq Nat
    BY Numbering
  <2> QED BY <2>1, RowsFinite
<1>2. CASE rest = {}
  BY <1>2, FS_EmptySet
<1>3. CASE rest # {}
  <2>1. PICK m \in rest : \A i \in rest : m <= i
    BY <1>1, <1>3, MinOfNaturals
  <2>2. IsFiniteSet(above(m)) /\ Cardinality(above(m)) \in Nat /\ m \notin above(m)
    BY <1>1, <2>1, RowsFinite
  <2>3. Cardinality(above(m)) < keep
    BY <2>1, <2>2 DEF Surplus
  <2>4. rest \subseteq above(m) \cup {m}
    BY <1>1, <2>1
  <2>5. IsFiniteSet(above(m) \cup {m}) /\ Cardinality(above(m) \cup {m}) = Cardinality(above(m)) + 1
    BY <2>2, FS_AddElement
  <2>6. Cardinality(rest) \in Nat /\ Cardinality(rest) <= Cardinality(above(m)) + 1
    BY <1>1, <2>4, <2>5, FS_Subset, FS_CardinalityType
  <2> QED BY <2>2, <2>3, <2>6
<1> QED BY <1>2, <1>3
-----------------------------------------------------------------------------
(* At the start everything has its type.                                   *)
LEMMA TypingInit == Init => Typing
<1> SUFFICES ASSUME Init PROVE Typing
  OBVIOUS
<1>1. DOMAIN items \in {1..n : n \in 0..MaxId} /\ items \in [DOMAIN items -> Store]
  <2>1. DOMAIN items = 1..0 /\ 0 \in 0..MaxId
    BY DataStoreAssumption DEF Init
  <2> QED BY <2>1 DEF Init
<1>2. req \in [Request -> RequestState] /\ \A r \in Request : Fits(req[r])
  BY IdleFits DEF Init, Fits
<1>3. gauge \in [DataType -> Int]
  BY DEF Init, Zero
<1> QED BY <1>1, <1>2, <1>3 DEF Init, Typing, TypeOK

(* A request may go to the next place when that fits its store.            *)
LEMMA FitsChanged ==
  ASSUME NEW q, Fits(q), NEW pc \in PC, NEW n \in Nat,
         pc \in {"preload", "drop", "dropped"} => q.store = V1
  PROVE  Fits([q EXCEPT !.pc = pc]) /\ Fits([q EXCEPT !.pc = pc, !.n = n])
BY DEF Fits, RequestState

(* Every step leaves each request what it may be.                          *)
LEMMA RequestsNext ==
  ASSUME Typing, [Next]_vars
  PROVE  req' \in [Request -> RequestState] /\ \A r \in Request : Fits(req'[r])
<1> DEFINE Well == req' \in [Request -> RequestState] /\ \A r \in Request : Fits(req'[r])
<1>1. ASSUME NEW r \in Request, NEW pc \in PC \ {"preload", "drop", "dropped"},
             Goto(r, pc) \/ \E n \in Nat : Affected(r, pc, n)
      PROVE  Well
  <2>1. CASE Goto(r, pc)
    <3>1. Fits([req[r] EXCEPT !.pc = pc])
      BY FitsChanged DEF Typing
    <3> QED BY <2>1, <3>1, Changes, Becoming
  <2>2. ASSUME NEW n \in Nat, Affected(r, pc, n)  PROVE Well
    <3>1. Fits([req[r] EXCEPT !.pc = pc, !.n = n])
      BY FitsChanged DEF Typing
    <3> QED BY <2>2, <3>1, Changes, Becoming
  <2> QED BY <1>1, <2>1, <2>2
<1>2. ASSUME NEW r \in Request, Done(r)  PROVE Well
  BY <1>2, Changes, IdleFits, Becoming
<1>3. \A r \in Request : Fits(req[r]) /\ req[r] \in RequestState
  BY DEF Typing, Fits
<1>4. req = [x \in Request |-> req[x]]
  BY DEF Typing, TypeOK
<1>5. CASE UNCHANGED vars
  BY <1>5 DEF vars, Typing, TypeOK
<1>6. ASSUME NEW r \in Request, Begin(r)  PROVE Well
  <2>1. ASSUME NEW s \in Store, NEW pc \in {"create", "delete"},
               req' = [req EXCEPT ![r].pc = pc, ![r].store = s]
        PROVE  Well
    <3> DEFINE q == [req[r] EXCEPT !.pc = pc, !.store = s]
    <3>1. Becomes(r, q)
      BY <1>4, <2>1 DEF Becomes
    <3>2. Fits(q)
      <4>1. q \in RequestState
        BY <1>3, PCs DEF RequestState
      <4>2. q.pc = pc
        BY <1>3 DEF RequestState
      <4> QED BY <4>1, <4>2 DEF Fits
    <3> QED BY <3>1, <3>2, Becoming
  <2>2. CASE Goto(r, "deleteUser")
    BY <1>1, <2>2, PCs
  <2> QED BY <1>6, <2>1, <2>2 DEF Begin
<1>7. ASSUME NEW r \in Request, Create(r) \/ CreateFails(r)  PROVE Well
  <2>1. MaxBatch \in Nat /\ 0 \in Nat
    BY DataStoreAssumption
  <2>2. BatchSize(req[r].store) \subseteq Nat
    BY <2>1 DEF BatchSize
  <2>3. "added" \in PC \ {"preload", "drop", "dropped"}
    BY PCs
  <2>4. Done(r) \/ \E n \in Nat : Affected(r, "added", n)
    BY <1>7, <2>1, <2>2 DEF Create, CreateFails
  <2> QED BY <1>1, <1>2, <2>3, <2>4
<1>8. ASSUME NEW r \in Request, CountAdded(r)  PROVE Well
  <2>1. CASE req[r].store[1] = "v1"
    <3>1. req[r].store = V1
      BY <1>3, <2>1 DEF RequestState, Store, V1
    <3>2. Fits([req[r] EXCEPT !.pc = "preload", !.n = 0])
      BY <1>3, <3>1, PCs, FitsChanged
    <3> QED BY <1>8, <2>1, <3>2, Changes, Becoming DEF CountAdded
  <2>2. CASE req[r].store[1] # "v1"
    <3>1. Affected(r, "prune", 0)
      BY <1>8, <2>2 DEF CountAdded
    <3> QED BY <1>1, <3>1, PCs
  <2> QED BY <2>1, <2>2
<1>9. ASSUME NEW r \in Request, Prune(r) \/ PruneFails(r) \/ DeleteItems(r)  PROVE Well
  <2>1. \A S \in SUBSET alive : Cardinality(S) \in Nat
    BY RowsFinite DEF Typing, TypeOK
  <2>2. CASE PruneFails(r)
    BY <1>1, <2>2, PCs DEF PruneFails
  <2>3. CASE Prune(r)
    <3>1. PICK out \in SUBSET alive : Affected(r, "deleted", Cardinality(out))
      BY <2>3 DEF Prune, Surplus, Scope, In
    <3> QED BY <1>1, <2>1, <3>1, PCs
  <2>4. CASE DeleteItems(r)
    <3>1. PICK out \in SUBSET alive : Affected(r, "deleted", Cardinality(out))
      BY <2>4 DEF DeleteItems, Targets, In
    <3> QED BY <1>1, <2>1, <3>1, PCs
  <2> QED BY <1>9, <2>2, <2>3, <2>4
<1>10. ASSUME NEW r \in Request, PreloadLocations(r)  PROVE Well
  <2> DEFINE q == [req[r] EXCEPT !.pc = "drop", !.list = Surplus(In(req[r].store), maxSavedLoc)]
  <2>1. Surplus(In(req[r].store), maxSavedLoc) \in SUBSET Id
    <3>1. PICK last \in 0..MaxId : DOMAIN items = 1..last
      BY Numbering DEF Typing
    <3>2. 1..last \subseteq Id
      BY <3>1, DataStoreAssumption DEF Id
    <3> QED BY <3>1, <3>2 DEF Typing, TypeOK, Surplus, In
  <2>2. req[r].store = V1
    BY <1>3, <1>10 DEF PreloadLocations, At, Fits
  <2>3. q \in RequestState
    BY <1>3, <2>1, PCs DEF RequestState
  <2>4. q.store = V1
    BY <1>3, <2>2 DEF RequestState
  <2>5. Becomes(r, q) \/ Done(r)
    BY <1>4, <1>10 DEF PreloadLocations, Becomes
  <2> HIDE DEF q
  <2>6. Fits(q)
    BY <2>3, <2>4 DEF Fits
  <2> QED BY <1>2, <2>5, <2>6, Becoming
<1>11. ASSUME NEW r \in Request, Drop(r)  PROVE Well
  <2>1. CASE req[r].list = {}
    BY <1>2, <1>11, <2>1 DEF Drop
  <2>2. CASE req[r].list # {}
    <3> DEFINE i == Min(req[r].list)
    <3>1. PICK out \in {alive \cap {i}, {}} :
            req' = [req EXCEPT ![r].pc = "dropped", ![r].list = @ \ {i}, ![r].n = Cardinality(out)]
      BY <1>11, <2>2, Drops
    <3> DEFINE n == Cardinality(out)
               q == [req[r] EXCEPT !.pc = "dropped", !.list = @ \ {i}, !.n = n]
    <3>2. n \in Nat
      BY RowsFinite DEF Typing, TypeOK
    <3>3. req[r].store = V1
      BY <1>3, <1>11 DEF Drop, At, Fits
    <3>4. req[r].list \ {i} \in SUBSET Id
      BY <1>3 DEF RequestState
    <3>5. Becomes(r, q)
      BY <1>4, <3>1 DEF Becomes
    <3> HIDE DEF n, i
    <3>6. q \in RequestState
      BY <1>3, <3>2, <3>4, PCs DEF RequestState
    <3>7. q.store = V1
      BY <1>3, <3>3 DEF RequestState
    <3> HIDE DEF q
    <3>8. Fits(q)
      BY <3>6, <3>7 DEF Fits
    <3> QED BY <3>5, <3>8, Becoming
  <2> QED BY <2>1, <2>2
<1>12. ASSUME NEW r \in Request, CountDropped(r)  PROVE Well
  <2>1. req[r].store = V1
    BY <1>3, <1>12 DEF CountDropped, At, Fits
  <2>2. Fits([req[r] EXCEPT !.pc = "drop", !.n = 0])
    BY <1>3, <2>1, PCs, FitsChanged
  <2> QED BY <1>12, <2>2, Changes, Becoming DEF CountDropped
<1>13. ASSUME NEW r \in Request, CountDeleted(r) \/ DeleteUser(r)  PROVE Well
  <2>1. Done(r) \/ Goto(r, "count")
    BY <1>13 DEF CountDeleted, DeleteUser
  <2> QED BY <1>1, <1>2, <2>1, PCs
<1>14. ASSUME NEW r \in Request, InitializeUserMetrics(r)  PROVE Well
  <2>1. ASSUME NEW pc \in {"set", "add", "countV2"}, NEW c \in [DataType -> Nat],
               req' = [req EXCEPT ![r].pc = pc, ![r].count = c]
        PROVE  Well
    <3> DEFINE q == [req[r] EXCEPT !.pc = pc, !.count = c]
    <3>1. Becomes(r, q)
      BY <1>4, <2>1 DEF Becomes
    <3>2. q \in RequestState
      BY <1>3, PCs DEF RequestState
    <3>3. q.pc = pc
      BY <1>3 DEF RequestState
    <3> HIDE DEF q
    <3>4. Fits(q)
      BY <3>2, <3>3 DEF Fits
    <3> QED BY <3>1, <3>4, Becoming
  <2>2. \A v : Counted(v) \in [DataType -> Nat]
    BY RowsFinite DEF Counted, Typing, TypeOK
  <2>3. Zero \in [DataType -> Nat]
    BY DEF Zero
  <2>4. CASE Done(r)
    BY <1>2, <2>4
  <2>5. CASE ~Done(r)
    <3>1. \/ req' = [req EXCEPT ![r].pc = "set", ![r].count = Counted("v1")]
          \/ req' = [req EXCEPT ![r].pc = "countV2", ![r].count = Zero]
          \/ req' = [req EXCEPT ![r].pc = "add", ![r].count = Counted("v2")]
      BY <1>14, <2>5 DEF InitializeUserMetrics, Recount
    <3> QED BY <2>1, <2>2, <2>3, <3>1
  <2> QED BY <2>4, <2>5
<1>15. CASE Restart
  BY <1>15, IdleFits DEF Restart, Fits
<1> QED BY <1>5, <1>6, <1>7, <1>8, <1>9, <1>10, <1>11, <1>12, <1>13, <1>14, <1>15
       DEF Next, Step
-----------------------------------------------------------------------------
(* What a step does to the rows: nothing, add some of one store, or delete *)
(* some, each of which somebody asked for or was outnumbered.              *)
Quiet == UNCHANGED <<items, alive, gone, erased>>

Adding(s, new) ==
  /\ ~gone /\ DOMAIN items \cap new = {} /\ DOMAIN items' = DOMAIN items \cup new
  /\ \A i \in DOMAIN items : items'[i] = items[i]
  /\ \A i \in new : items'[i] = s
  /\ alive' = alive \cup new /\ UNCHANGED <<gone, erased>>

Removing(out) ==
  /\ out \subseteq alive /\ alive' = alive \ out /\ UNCHANGED items
  /\ \/ erased' = erased \cup out /\ (gone' = gone \/ out = alive)
     \/ UNCHANGED <<erased, gone>> /\ \A i \in out : Outnumbered(i)

(* A store's surplus is outnumbered.                                       *)
LEMMA SurplusOutnumbered ==
  ASSUME Typing, NEW s \in Store, s[2] = "location", NEW i \in Surplus(In(s), maxSavedLoc)
  PROVE  Outnumbered(i)
<1>1. i \in DOMAIN items /\ items[i] = s
  BY DEF Typing, TypeOK, Surplus, In
<1>2. {j \in In(s) : j > i} \subseteq Newer(i) /\ Newer(i) \in SUBSET DOMAIN items
  BY <1>1 DEF Typing, TypeOK, In, Newer
<1>3. IsFiniteSet(Newer(i)) /\ Cardinality(Newer(i)) \in Nat
  BY <1>2, RowsFinite DEF Typing
<1>4. /\ Cardinality({j \in In(s) : j > i}) <= Cardinality(Newer(i))
      /\ Cardinality({j \in In(s) : j > i}) \in Nat
  BY <1>2, <1>3, FS_Subset, FS_CardinalityType
<1>5. Cardinality({j \in In(s) : j > i}) >= maxSavedLoc
  BY DEF Surplus
<1> QED BY <1>1, <1>3, <1>4, <1>5, DataStoreAssumption DEF Outnumbered

(* Every step has one of these effects on the rows.                        *)
LEMMA RowEffects ==
  ASSUME Typing, ListsOld, [Next]_vars
  PROVE  \/ Quiet
         \/ \E s \in Store, new \in SUBSET Id : Adding(s, new)
         \/ \E out \in SUBSET alive : Removing(out)
<1> DEFINE Effect == \/ Quiet
                     \/ \E s \in Store, new \in SUBSET Id : Adding(s, new)
                     \/ \E out \in SUBSET alive : Removing(out)
<1>1. CASE UNCHANGED vars \/ Restart
  BY <1>1 DEF vars, Restart, Quiet
<1>2. ASSUME NEW r \in Request,
             \/ Begin(r) \/ CreateFails(r) \/ CountAdded(r) \/ PruneFails(r)
             \/ PreloadLocations(r) \/ CountDropped(r) \/ CountDeleted(r)
             \/ InitializeUserMetrics(r)
      PROVE  Quiet
  BY <1>2 DEF Begin, CreateFails, CountAdded, PruneFails, PreloadLocations, CountDropped,
              CountDeleted, InitializeUserMetrics, Quiet
<1>3. ASSUME NEW r \in Request, Create(r)  PROVE Effect
  <2> DEFINE s == req[r].store
             last == Cardinality(DOMAIN items)
  <2>1. s \in Store
    BY DEF Typing, TypeOK, RequestState
  <2>2. PICK n \in BatchSize(s) :
          /\ last + n <= MaxId
          /\ items' = [i \in 1..last + n |-> IF i <= last THEN items[i] ELSE s]
          /\ alive' = alive \cup (last + 1..last + n)
    BY <1>3 DEF Create
  <2>3. last \in Nat /\ DOMAIN items = 1..last /\ n \in Nat
    <3>1. n \in Nat
      BY DataStoreAssumption DEF BatchSize
    <3> QED BY <3>1, Numbering DEF Typing
  <2> HIDE DEF last, s
  <2>4. (last + 1..last + n) \subseteq Id /\ 1..last + n = (1..last) \cup (last + 1..last + n)
    BY <2>2, <2>3, DataStoreAssumption DEF Id
  <2>5. /\ (1..last) \cap (last + 1..last + n) = {}
        /\ \A i \in 1..last : i <= last
        /\ \A i \in last + 1..last + n : ~(i <= last)
    BY <2>3
  <2>6. Adding(s, last + 1..last + n)
    BY <1>3, <2>2, <2>3, <2>4, <2>5 DEF Adding, Create, ForeignKey
  <2> QED BY <2>1, <2>4, <2>6
<1>4. ASSUME NEW r \in Request, Prune(r)  PROVE Effect
  <2> DEFINE s == req[r].store
             keep == NumToKeep(s[2])
             out == IF keep = KEEP_ALL THEN {} ELSE Surplus(Scope(s), keep)
  <2>1. s \in Store
    BY DEF Typing, TypeOK, RequestState
  <2>2. out \in SUBSET alive
    BY DEF Surplus, Scope, In
  <2>3. \A i \in out : Outnumbered(i)
    BY <2>1, SurplusOutnumbered DEF NumToKeep, Scope, KEEP_ALL
  <2>4. Removing(out)
    BY <1>4, <2>2, <2>3 DEF Prune, Removing
  <2> QED BY <2>2, <2>4
<1>5. ASSUME NEW r \in Request, Drop(r)  PROVE Effect
  <2> DEFINE i == Min(req[r].list)
  <2>1. CASE req[r].list = {}
    BY <1>5, <2>1 DEF Drop, Quiet
  <2>2. CASE req[r].list # {}
    <3>1. req[r].list \subseteq Nat
      BY DEF Typing, TypeOK, RequestState, Id
    <3>2. i \in req[r].list
      BY <2>2, <3>1, MinOfNaturals
    <3>3. PICK out \in {alive \cap {i}, {}} :
            alive' = alive \ out /\ UNCHANGED <<items, gone, erased>>
      BY <1>5, <2>2, Drops
    <3> HIDE DEF i
    <3>4. Removing(out)
      BY <3>2, <3>3 DEF Removing, ListsOld
    <3> QED BY <3>3, <3>4
  <2> QED BY <2>1, <2>2
<1>6. ASSUME NEW r \in Request, DeleteItems(r)  PROVE Effect
  <2>1. PICK out \in SUBSET alive : alive' = alive \ out /\ erased' = erased \cup out
    BY <1>6 DEF DeleteItems, Targets, In
  <2>2. Removing(out)
    BY <1>6, <2>1 DEF DeleteItems, Removing
  <2> QED BY <2>2
<1>7. ASSUME NEW r \in Request, DeleteUser(r)  PROVE Effect
  <2>1. Quiet \/ Removing(alive)
    BY <1>7 DEF DeleteUser, Quiet, Removing
  <2> QED BY <2>1
<1> QED BY <1>1, <1>2, <1>3, <1>4, <1>5, <1>6, <1>7 DEF Next, Step

(* Every step keeps the types.                                             *)
LEMMA TypingNext ==
  ASSUME Typing, ListsOld, [Next]_vars
  PROVE  Typing'
<1>1. req' \in [Request -> RequestState] /\ \A r \in Request : Fits(req'[r])
  BY RequestsNext
<1>2. /\ DOMAIN items' \in {1..n : n \in 0..MaxId} /\ items' \in [DOMAIN items' -> Store]
  <2>1. CASE items' = items
    BY <2>1 DEF Typing, TypeOK
  <2>2. ASSUME NEW r \in Request, Create(r)
        PROVE  DOMAIN items' \in {1..n : n \in 0..MaxId} /\ items' \in [DOMAIN items' -> Store]
    <3> DEFINE s == req[r].store
               last == Cardinality(DOMAIN items)
    <3>1. s \in Store
      BY DEF Typing, TypeOK, RequestState
    <3>2. PICK n \in BatchSize(s) :
            /\ last + n <= MaxId
            /\ items' = [i \in 1..last + n |-> IF i <= last THEN items[i] ELSE s]
      BY <2>2 DEF Create
    <3>3. last \in Nat /\ DOMAIN items = 1..last /\ n \in Nat
      <4>1. n \in Nat
        BY DataStoreAssumption DEF BatchSize
      <4> QED BY <4>1, Numbering DEF Typing
    <3> HIDE DEF last, s
    <3>4. last + n \in 0..MaxId /\ DOMAIN items' = 1..last + n
      BY <3>2, <3>3, DataStoreAssumption
    <3>5. \A i \in 1..last + n : i <= last => i \in DOMAIN items
      BY <3>3
    <3>6. \A i \in DOMAIN items : items[i] \in Store
      BY DEF Typing, TypeOK
    <3>7. items' \in [DOMAIN items' -> Store]
      BY <3>1, <3>2, <3>4, <3>5, <3>6
    <3> QED BY <3>4, <3>7
  <2> QED BY <2>1, <2>2 DEF Next, Step, vars, Begin, CreateFails, CountAdded, Prune, PruneFails,
             PreloadLocations, Drop, CountDropped, DeleteItems, CountDeleted, DeleteUser,
             InitializeUserMetrics, Restart
<1>3. alive' \subseteq DOMAIN items' /\ erased' \subseteq DOMAIN items' \ alive'
  BY RowEffects DEF Quiet, Adding, Removing, Typing, TypeOK
<1>4. gone' \in BOOLEAN
  BY DEF Next, Step, vars, Begin, Create, CreateFails, CountAdded, Prune, PruneFails,
         PreloadLocations, Drop, CountDropped, DeleteItems, CountDeleted, DeleteUser,
         InitializeUserMetrics, Restart, Typing, TypeOK
<1>5. unpruned' \subseteq Store
  <2>1. unpruned \subseteq Store /\ \A r \in Request : req[r].store \in Store
    BY DEF Typing, TypeOK, RequestState
  <2>2. ASSUME NEW r \in Request, Create(r) \/ Prune(r) \/ PreloadLocations(r)
        PROVE  unpruned' \subseteq Store
    BY <2>1, <2>2 DEF Create, Prune, PreloadLocations
  <2>3. CASE Restart
    BY <2>1, <2>3 DEF Restart
  <2> QED BY <2>1, <2>2, <2>3 DEF Next, Step, vars, Begin, CreateFails, CountAdded, PruneFails,
         Drop, CountDropped, DeleteItems, CountDeleted, DeleteUser, InitializeUserMetrics
<1>6. miscounted' \in BOOLEAN
  <2>1. miscounted \in BOOLEAN
    BY DEF Typing, TypeOK
  <2>2. ASSUME NEW r \in Request, CountAdded(r) \/ CountDropped(r) \/ CountDeleted(r)
        PROVE  miscounted' \in BOOLEAN
    BY Zenon, <2>2 DEF CountAdded, CountDropped, CountDeleted, Adjust
  <2>3. ASSUME NEW r \in Request, InitializeUserMetrics(r)  PROVE miscounted' \in BOOLEAN
    BY Zenon, <2>3 DEF InitializeUserMetrics
  <2>4. CASE Restart
    BY <2>4 DEF Restart
  <2>5. ASSUME NEW r \in Request,
               \/ Begin(r) \/ Create(r) \/ CreateFails(r) \/ Prune(r) \/ PruneFails(r)
               \/ PreloadLocations(r) \/ Drop(r) \/ DeleteItems(r) \/ DeleteUser(r)
        PROVE  miscounted' = miscounted
    BY <2>5 DEF Begin, Create, CreateFails, Prune, PruneFails, PreloadLocations, Drop,
                DeleteItems, DeleteUser
  <2>6. CASE UNCHANGED vars
    BY <2>1, <2>6 DEF vars
  <2> QED BY <2>1, <2>2, <2>3, <2>4, <2>5, <2>6 DEF Next, Step
<1>7. gauge' \in [DataType -> Int]
  <2>1. gauge \in [DataType -> Int] /\ "location" \in DataType
    BY DEF Typing, TypeOK, DataType
  <2>2. \A r \in Request : /\ req[r].count \in [DataType -> Int] /\ req[r].n \in Int
                           /\ req[r].store[2] \in DataType
    BY DEF Typing, TypeOK, RequestState, Store, DataType
  <2>3. ASSUME NEW r \in Request, NEW n \in Int, Adjust(r, n)  PROVE gauge' \in [DataType -> Int]
    BY <2>1, <2>2, <2>3 DEF Adjust
  <2>4. ASSUME NEW r \in Request, CountAdded(r)  PROVE gauge' \in [DataType -> Int]
    BY <2>1, <2>2, <2>3, <2>4 DEF CountAdded
  <2>5. ASSUME NEW r \in Request, CountDropped(r)  PROVE gauge' \in [DataType -> Int]
    BY <2>1, <2>5 DEF CountDropped
  <2>6. ASSUME NEW r \in Request, CountDeleted(r)  PROVE gauge' \in [DataType -> Int]
    BY <2>2, <2>3, <2>6 DEF CountDeleted
  <2>7. ASSUME NEW r \in Request, InitializeUserMetrics(r)  PROVE gauge' \in [DataType -> Int]
    BY <2>1, <2>2, <2>7 DEF InitializeUserMetrics, Recount
  <2>8. CASE Restart
    BY <2>8, RowsFinite DEF Restart, Rows, Typing, TypeOK
  <2> QED BY <2>1, <2>4, <2>5, <2>6, <2>7, <2>8 DEF Next, Step, vars, Begin, Create, CreateFails,
         Prune, PruneFails, PreloadLocations, Drop, DeleteItems, DeleteUser
<1> QED BY <1>1, <1>2, <1>3, <1>4, <1>5, <1>6, <1>7 DEF Typing, TypeOK
-----------------------------------------------------------------------------
(* At the start nothing is lost.                                           *)
LEMMA LossesInit == Init => Losses
BY DEF Init, Idle, Losses, NoOrphans, ListsOld, NewestKept

(* A row that was outnumbered stays so: rows are only added to a store.    *)
LEMMA OutnumberedStays ==
  ASSUME Typing, ListsOld, [Next]_vars, NEW i, Outnumbered(i)
  PROVE  Outnumbered(i)'
<1>1. DOMAIN items \subseteq DOMAIN items' /\ \A j \in DOMAIN items : items'[j] = items[j]
  BY RowEffects DEF Quiet, Adding, Removing
<1>2. Newer(i) \subseteq Newer(i)' /\ Newer(i)' \in SUBSET DOMAIN items'
  BY <1>1 DEF Outnumbered, Newer
<1>3. PICK last \in 0..MaxId : DOMAIN items' = 1..last
  BY TypingNext DEF Typing, TypeOK
<1>4. IsFiniteSet(Newer(i)') /\ Cardinality(Newer(i)') \in Nat
  <2>1. last \in Nat /\ Newer(i)' \in SUBSET (1..last)
    BY <1>2, <1>3, DataStoreAssumption
  <2> QED BY <2>1, NumberedFinite
<1>5. Cardinality(Newer(i)) \in Nat /\ Cardinality(Newer(i)) <= Cardinality(Newer(i)')
  BY <1>2, <1>4, FS_Subset, FS_CardinalityType
<1>6. maxSavedLoc \in Nat /\ Cardinality(Newer(i)) >= maxSavedLoc
  BY DataStoreAssumption DEF Outnumbered
<1>7. Cardinality(Newer(i)') >= maxSavedLoc
  BY <1>4, <1>5, <1>6
<1> QED BY <1>1, <1>7 DEF Outnumbered

(* Every step keeps what must not be lost.                                 *)
LEMMA LossesNext ==
  ASSUME Typing, Losses, [Next]_vars
  PROVE  Losses'
<1>1. ListsOld
  BY DEF Losses
<1>2. NoOrphans'
  BY <1>1, RowEffects DEF Quiet, Adding, Removing, Losses, NoOrphans
<1>3. NewestKept'
  <2> SUFFICES ASSUME NEW i \in DOMAIN items', i \notin alive', i \notin erased'
               PROVE  Outnumbered(i)'
    BY DEF NewestKept, Outnumbered, Newer
  <2>1. i \in DOMAIN items /\ Outnumbered(i)
    <3>1. i \in DOMAIN items
      BY <1>1, RowEffects DEF Quiet, Adding, Removing
    <3>2. i \notin alive /\ i \notin erased => Outnumbered(i)
      BY <3>1 DEF Losses, NewestKept, Outnumbered, Newer
    <3> QED BY <1>1, <3>1, <3>2, RowEffects DEF Quiet, Adding, Removing
  <2> QED BY <1>1, <2>1, OutnumberedStays
<1>4. ListsOld'
  <2> SUFFICES ASSUME NEW r \in Request, NEW i \in req'[r].list  PROVE Outnumbered(i)
    BY <1>1, OutnumberedStays DEF ListsOld
  <2>1. req = [x \in Request |-> req[x]] /\ req[r] \in RequestState
    BY DEF Typing, TypeOK
  <2>2. CASE i \in req[r].list
    BY <1>1, <2>2 DEF ListsOld
  <2>3. CASE i \notin req[r].list
    <3>1. PreloadLocations(r) /\ i \in Surplus(In(req[r].store), maxSavedLoc)
      <4>1. ASSUME NEW x \in Request, NEW q, Becomes(x, q), q.list \subseteq req[x].list  PROVE FALSE
        BY <2>3, <4>1 DEF Becomes
      <4>2. Idle.list = {}
        BY DEF Idle
      <4>3. \A x \in Request : ~Done(x)
        BY <4>1, <4>2, Changes
      <4>4. \A x \in Request : req[x] \in RequestState
        BY DEF Typing, TypeOK
      <4>5. \A x \in Request : \A pc, n : ~Goto(x, pc) /\ ~Affected(x, pc, n)
        <5>1. \A x \in Request : \A pc, n :
                /\ [req[x] EXCEPT !.pc = pc].list = req[x].list
                /\ [req[x] EXCEPT !.pc = pc, !.n = n].list = req[x].list
          BY <4>4 DEF RequestState
        <5>2. ASSUME NEW x \in Request, NEW pc, Goto(x, pc)  PROVE FALSE
          <6>1. Becomes(x, [req[x] EXCEPT !.pc = pc])
            BY <5>2, Changes
          <6>2. [req[x] EXCEPT !.pc = pc].list \subseteq req[x].list
            BY <5>1
          <6> QED BY <4>1, <6>1, <6>2
        <5>3. ASSUME NEW x \in Request, NEW pc, NEW n, Affected(x, pc, n)  PROVE FALSE
          <6>1. Becomes(x, [req[x] EXCEPT !.pc = pc, !.n = n])
            BY <5>3, Changes
          <6>2. [req[x] EXCEPT !.pc = pc, !.n = n].list \subseteq req[x].list
            BY <5>1
          <6> QED BY <4>1, <6>1, <6>2
        <5> QED BY <5>2, <5>3
      <4>6. CASE UNCHANGED vars \/ Restart
        BY <2>3, <4>2, <4>6 DEF vars, Restart
      <4>7. ASSUME NEW x \in Request, Begin(x)  PROVE FALSE
        <5>1. PICK st \in Store, pc \in {"create", "delete"} :
                req' = [req EXCEPT ![x].pc = pc, ![x].store = st]
          BY <4>5, <4>7 DEF Begin
        <5>2. Becomes(x, [req[x] EXCEPT !.pc = pc, !.store = st])
          BY <2>1, <5>1 DEF Becomes
        <5>3. [req[x] EXCEPT !.pc = pc, !.store = st].list = req[x].list
          BY <4>4 DEF RequestState
        <5> QED BY <4>1, <5>2, <5>3
      <4>8. ASSUME NEW x \in Request,
                   \/ Create(x) \/ CreateFails(x) \/ CountAdded(x) \/ Prune(x) \/ PruneFails(x)
                   \/ CountDropped(x) \/ DeleteItems(x) \/ CountDeleted(x) \/ DeleteUser(x)
            PROVE  FALSE
        BY <4>3, <4>5, <4>8 DEF Create, CreateFails, CountAdded, Prune, PruneFails,
                                CountDropped, DeleteItems, CountDeleted, DeleteUser
      <4>9. ASSUME NEW x \in Request, InitializeUserMetrics(x)  PROVE FALSE
        <5>1. PICK pc, c : req' = [req EXCEPT ![x].pc = pc, ![x].count = c]
          BY <4>3, <4>9 DEF InitializeUserMetrics, Recount
        <5>2. Becomes(x, [req[x] EXCEPT !.pc = pc, !.count = c])
          BY <2>1, <5>1 DEF Becomes
        <5>3. [req[x] EXCEPT !.pc = pc, !.count = c].list = req[x].list
          BY <4>4 DEF RequestState
        <5> QED BY <4>1, <5>2, <5>3
      <4>10. ASSUME NEW x \in Request, Drop(x)  PROVE FALSE
        <5>1. PICK j, n : req' = [req EXCEPT ![x].pc = "dropped", ![x].list = @ \ {j}, ![x].n = n]
          BY <4>3, <4>10 DEF Drop
        <5>2. Becomes(x, [req[x] EXCEPT !.pc = "dropped", !.list = @ \ {j}, !.n = n])
          BY <2>1, <5>1 DEF Becomes
        <5>3. [req[x] EXCEPT !.pc = "dropped", !.list = @ \ {j}, !.n = n].list \subseteq req[x].list
          BY <4>4 DEF RequestState
        <5> QED BY <4>1, <5>2, <5>3
      <4>11. PICK x \in Request : PreloadLocations(x)
        BY <4>6, <4>7, <4>8, <4>9, <4>10 DEF Next, Step
      <4> DEFINE q == [req[x] EXCEPT !.pc = "drop", !.list = Surplus(In(req[x].store), maxSavedLoc)]
      <4>12. Becomes(x, q)
        BY <2>1, <4>3, <4>11 DEF PreloadLocations, Becomes
      <4>13. x = r /\ q.list = Surplus(In(req[x].store), maxSavedLoc)
        BY <2>3, <4>4, <4>12 DEF Becomes, RequestState
      <4>14. req'[r] = q
        BY <4>12, <4>13 DEF Becomes
      <4> HIDE DEF q
      <4> QED BY <4>11, <4>13, <4>14
    <3>2. req[r].store \in Store /\ req[r].store[2] = "location"
      <4>1. req[r].store = V1
        BY <3>1 DEF PreloadLocations, At, Typing, Fits
      <4>2. V1 \in Store /\ V1[2] = "location"
        BY DEF V1, Store, DataType
      <4> QED BY <4>1, <4>2
    <3> QED BY <3>1, <3>2, SurplusOutnumbered
  <2> QED BY <2>2, <2>3
<1> QED BY <1>2, <1>3, <1>4 DEF Losses
-----------------------------------------------------------------------------
(* A store of which rows go away keeps its limit.                          *)
LEMMA FewerKept ==
  ASSUME TypeOK, NEW rows \in SUBSET DOMAIN items, NEW s \in Store,
         NEW fewer \in SUBSET rows, Kept(rows, s)
  PROVE  Kept(fewer, s)
<1>1. IsFiniteSet(rows) /\ Cardinality(rows) \in Nat
  BY RowsFinite
<1>2. Cardinality(fewer) <= Cardinality(rows) /\ Cardinality(fewer) \in Nat
  BY <1>1, FS_Subset, FS_CardinalityType
<1>3. NumToKeep(s[2]) \in Nat
  BY DataStoreAssumption DEF NumToKeep, KEEP_ALL
<1> QED BY <1>1, <1>2, <1>3 DEF Kept

(* Only the request that takes a step changes.                             *)
LEMMA OthersStay ==
  ASSUME Typing, NEW r \in Request, Step(r), NEW x \in Request \ {r}
  PROVE  req'[x] = req[x]
BY DEF Typing, TypeOK, Step, Begin, Create, CreateFails, CountAdded, Prune, PruneFails,
       PreloadLocations, Drop, CountDropped, DeleteItems, CountDeleted, DeleteUser,
       InitializeUserMetrics, Recount, Goto, Affected, Done

(* At the start no store holds anything.                                   *)
LEMMA WithinInit == Init => Within
<1> SUFFICES ASSUME Init, NEW s \in Store  PROVE Kept(In(s), s)
  BY DEF Within
<1>1. In(s) = {}
  BY DEF Init, In
<1>2. NumToKeep(s[2]) \in Nat
  BY DataStoreAssumption DEF NumToKeep, KEEP_ALL
<1> QED BY <1>1, <1>2, FS_EmptySet DEF Kept

(* A step that takes rows away, at most, and prunes nothing for the first  *)
(* time leaves a store within its limit.                                   *)
LEMMA WithinStays ==
  ASSUME Typing, Within, [Next]_vars, NEW s \in Store \ unpruned, s \notin unpruned',
         NumToKeep(s[2]) # KEEP_ALL, In(s)' \subseteq In(s)
  PROVE  Kept(In(s)', s) \/ \E r \in Request : Pruning(r, s)' /\ Kept(In(s)' \ req'[r].list, s)
<1> DEFINE Goal == \/ Kept(In(s)', s)
                   \/ \E r \in Request : Pruning(r, s)' /\ Kept(In(s)' \ req'[r].list, s)
<1>1. In(s) \in SUBSET DOMAIN items
  BY DEF Typing, TypeOK, In
<1>2. CASE Kept(In(s), s)
  BY <1>1, <1>2, FewerKept DEF Typing
<1>3. ASSUME NEW r \in Request, Pruning(r, s), Kept(In(s) \ req[r].list, s)  PROVE Goal
  <2>1. ASSUME NEW rows, rows \subseteq In(s) \ req[r].list  PROVE Kept(rows, s)
    BY <1>1, <1>3, <2>1, FewerKept DEF Typing
  <2>2. CASE req'[r] = req[r]
    <3>1. Pruning(r, s)' /\ In(s)' \ req'[r].list \subseteq In(s) \ req[r].list
      BY <1>3, <2>2 DEF Pruning
    <3> QED BY <2>1, <3>1
  <2>3. CASE Restart
    BY <1>3, <2>3 DEF Restart, Pruning
  <2>4. CASE Drop(r)
    <3>1. CASE req[r].list = {}
      <4>1. In(s)' \subseteq In(s) \ req[r].list
        BY <3>1
      <4> QED BY <2>1, <4>1
    <3>2. CASE req[r].list # {}
      <4>1. PICK i, n :
              /\ unpruned' = unpruned \cup {x \in {req[r].store} : i \in alive'}
              /\ req' = [req EXCEPT ![r].pc = "dropped", ![r].list = @ \ {i}, ![r].n = n]
        BY <2>4, <3>2, Drops
      <4>2. req'[r].pc = "dropped" /\ req'[r].store = req[r].store /\ req'[r].list = req[r].list \ {i}
        BY <4>1 DEF Typing, TypeOK, RequestState
      <4>3. i \notin In(s)'
        BY <1>3, <4>1 DEF Pruning, In
      <4>4. In(s)' \ req'[r].list \subseteq In(s) \ req[r].list
        BY <4>2, <4>3
      <4>5. Pruning(r, s)'
        BY <1>3, <4>2 DEF Pruning
      <4> QED BY <2>1, <4>5, <4>4
    <3> QED BY <3>1, <3>2
  <2>5. CASE CountDropped(r)
    <3>1. req'[r].pc = "drop" /\ req'[r].store = req[r].store /\ req'[r].list = req[r].list
      BY <2>5 DEF CountDropped, Affected, Typing, TypeOK, RequestState
    <3>2. Pruning(r, s)' /\ In(s)' \ req'[r].list \subseteq In(s) \ req[r].list
      BY <1>3, <3>1 DEF Pruning
    <3> QED BY <2>1, <3>2
  <2>6. CASE UNCHANGED vars
    BY <2>2, <2>6 DEF vars
  <2>7. ASSUME Step(r)  PROVE Drop(r) \/ CountDropped(r)
    BY <1>3, <2>7 DEF Pruning, Step, Begin, Create, CreateFails, CountAdded, Prune, PruneFails,
          PreloadLocations, DeleteItems, CountDeleted, DeleteUser, InitializeUserMetrics, At
  <2>8. ASSUME NEW x \in Request \ {r}, Step(x)  PROVE req'[r] = req[r]
    BY <2>8, OthersStay
  <2> QED BY <2>2, <2>3, <2>4, <2>5, <2>6, <2>7, <2>8 DEF Next
<1> QED BY <1>2, <1>3 DEF Within

(* Every step keeps the stores within their limits.                        *)
LEMMA WithinNext ==
  ASSUME Typing, Losses, Within, [Next]_vars
  PROVE  Within'
<1> SUFFICES ASSUME NEW s \in Store, s \notin unpruned', NumToKeep(s[2]) # KEEP_ALL
             PROVE  \/ Kept(In(s)', s)
                    \/ \E r \in Request : Pruning(r, s)' /\ Kept(In(s)' \ req'[r].list, s)
  BY DEF Within, Kept, Pruning
<1>1. CASE \E r \in Request : Create(r)
  <2>1. PICK r \in Request : Create(r)
    BY <1>1
  <2>2. req[r].store # s /\ s \notin unpruned
    BY <2>1 DEF Create
  <2>3. PICK n : /\ items' = [i \in 1..Cardinality(DOMAIN items) + n |->
                                IF i <= Cardinality(DOMAIN items) THEN items[i] ELSE req[r].store]
                 /\ alive' = alive \cup (Cardinality(DOMAIN items) + 1..Cardinality(DOMAIN items) + n)
                 /\ n \in Nat
    <3>1. BatchSize(req[r].store) \subseteq Nat
      BY DataStoreAssumption DEF BatchSize
    <3> QED BY <2>1, <3>1 DEF Create
  <2>4. Cardinality(DOMAIN items) \in Nat /\ DOMAIN items = 1..Cardinality(DOMAIN items)
    BY Numbering DEF Typing
  <2>5. alive \subseteq DOMAIN items
    BY DEF Typing, TypeOK
  <2>6. In(s)' \subseteq In(s)
    BY <2>2, <2>3, <2>4, <2>5 DEF In
  <2> QED BY <2>2, <2>6, WithinStays
<1>2. CASE \A r \in Request : ~Create(r)
  <2>1. alive' \subseteq alive /\ UNCHANGED items
    BY <1>2 DEF Next, Step, vars, Begin, CreateFails, CountAdded, Prune, PruneFails,
          PreloadLocations, Drop, CountDropped, DeleteItems, CountDeleted, DeleteUser,
          InitializeUserMetrics, Restart
  <2>2. In(s)' \subseteq In(s)
    BY <2>1 DEF In
  <2>3. CASE s \notin unpruned
    BY <2>2, <2>3, WithinStays
  <2>4. CASE s \in unpruned
    <3>1. PICK r \in Request : (Prune(r) \/ PreloadLocations(r)) /\ req[r].store = s
      BY <1>2, <2>4 DEF Next, Step, vars, Begin, CreateFails, CountAdded, Prune, PruneFails,
            PreloadLocations, Drop, CountDropped, DeleteItems, CountDeleted, DeleteUser,
            InitializeUserMetrics, Restart
    <3>2. In(s) \in SUBSET DOMAIN items /\ maxSavedLoc \in Nat
      BY DataStoreAssumption DEF Typing, TypeOK, In
    <3>3. CASE Prune(r)
      <4>1. s[2] = "location" /\ NumToKeep(s[2]) = maxSavedLoc
        BY DEF NumToKeep
      <4>2. alive' = alive \ Surplus(In(s), maxSavedLoc)
        BY <3>1, <3>3, <4>1 DEF Prune, Scope
      <4>3. In(s)' = In(s) \ Surplus(In(s), maxSavedLoc)
        BY <2>1, <4>2 DEF In
      <4> QED BY <3>2, <4>1, <4>3, SurplusBound DEF Kept, Typing
    <3>4. CASE PreloadLocations(r)
      <4>1. s = V1
        BY <3>1, <3>4 DEF PreloadLocations, At, Typing, Fits
      <4>2. NumToKeep(s[2]) = maxSavedLoc
        BY <4>1 DEF V1, NumToKeep
      <4>3. req' = [req EXCEPT ![r].pc = "drop", ![r].list = Surplus(In(s), maxSavedLoc)]
        BY <2>4, <3>1, <3>4 DEF PreloadLocations
      <4>4. /\ req'[r].pc = "drop" /\ req'[r].store = s
            /\ req'[r].list = Surplus(In(s), maxSavedLoc)
        BY <3>1, <4>3 DEF Typing, TypeOK, RequestState
      <4>5. In(s)' = In(s)
        BY <3>4 DEF PreloadLocations, In
      <4>6. Cardinality(In(s) \ Surplus(In(s), maxSavedLoc)) <= maxSavedLoc
        BY <3>2, SurplusBound DEF Typing
      <4> QED BY <4>2, <4>4, <4>5, <4>6 DEF Kept, Pruning
    <3> QED BY <3>1, <3>3, <3>4
  <2> QED BY <2>3, <2>4
<1> QED BY <1>1, <1>2
-----------------------------------------------------------------------------
(* The inductive invariant, of every behaviour of the specification.       *)
THEOREM StoresInOrder == Spec => [](Typing /\ Losses /\ Within)
<1>1. Init => Typing /\ Losses /\ Within
  BY TypingInit, LossesInit, WithinInit
<1>2. Typing /\ Losses /\ Within /\ [Next]_vars => (Typing /\ Losses /\ Within)'
  BY TypingNext, LossesNext, WithinNext DEF Losses
<1> QED BY <1>1, <1>2, PTL DEF Spec

(* Every state is well typed: a row has one store for good, and is alive   *)
(* or erased, never both.                                                  *)
THEOREM TypesCorrect == Spec => []TypeOK
BY StoresInOrder, PTL DEF Typing

(* An upload that was let in before the account was deleted leaves no row  *)
(* behind that belongs to nobody, whatever requests are in flight.         *)
THEOREM NobodysRowsAreGone == Spec => []NoOrphans
BY StoresInOrder, PTL DEF Losses

(* A row that nobody asked to delete goes only after as many newer ones of *)
(* its store as the limit says, however prunings cross uploads and each    *)
(* other.                                                                  *)
THEOREM NewestAreKept == Spec => []NewestKept
BY StoresInOrder, PTL DEF Losses

(* Once its uploads are through, a store holds no more than its limit.     *)
THEOREM LimitIsKept == Spec => []LimitKept
<1>1. Within => LimitKept
  BY DEF Within, Kept, Pruning, LimitKept, Pruned
<1> QED BY <1>1, StoresInOrder, PTL
-----------------------------------------------------------------------------
(* The gauges.  What a request still owes them: rows it has inserted and   *)
(* rows it has deleted, which it counts in its next step.                  *)
Adds(q, t) == IF q.pc = "added" /\ q.store[2] = t THEN q.n ELSE 0
Takes(q, t) == IF q.pc \in {"deleted", "dropped"} /\ q.store[2] = t THEN q.n ELSE 0

(* The sum of f over all requests, as the size of a set.                   *)
Pairs(f) == UNION {{r} \X (1..f[r]) : r \in Request}
Sum(f) == Cardinality(Pairs(f))
Added(t) == [r \in Request |-> Adds(req[r], t)]
Taken(t) == [r \in Request |-> Takes(req[r], t)]

Balanced(t) == gauge[t] + Sum(Added(t)) = Cardinality(Rows(t)) + Sum(Taken(t))

(* A request that sets the gauges anew, and what it knows as long as no    *)
(* other one owes them anything.                                           *)
Anew(r) == req[r].pc \in {"count", "set", "countV2", "add"}
Snapshot(r) ==
  /\ req[r].pc = "set" => req[r].count = Counted("v1")
  /\ req[r].pc \in {"countV2", "add"} => gauge = Counted("v1")
  /\ req[r].pc = "add" => req[r].count = Counted("v2")

(* API v1 counts a single row, if it was one.                              *)
One(q) == (q.pc = "added" /\ q.store[1] = "v1") \/ q.pc = "dropped" => q.n \in {0, 1}

Accounted ==
  /\ \A r \in Request : One(req[r])
  /\ ~miscounted =>
       /\ (\A r \in Request : ~Anew(r)) => \A t \in DataType : Balanced(t)
       /\ \A r \in Request : ~Owing(r) => Snapshot(r)

(* The pairs of a request are as many as its number says.                  *)
LEMMA PairsOf ==
  ASSUME NEW r, NEW n \in Nat
  PROVE  IsFiniteSet({r} \X (1..n)) /\ Cardinality({r} \X (1..n)) = n
<1>1. IsFiniteSet(1..n) /\ Cardinality(1..n) = n
  <2>1. 1 \in Int /\ n \in Int
    OBVIOUS
  <2>2. IsFiniteSet(1..n) /\ Cardinality(1..n) = IF 1 > n THEN 0 ELSE n - 1 + 1
    BY <2>1, FS_Interval
  <2> QED BY <2>2
<1>2. IsFiniteSet({r}) /\ Cardinality({r}) = 1
  BY FS_Singleton
<1>3. /\ IsFiniteSet({r} \X (1..n))
      /\ Cardinality({r} \X (1..n)) = Cardinality({r}) * Cardinality(1..n)
  BY <1>1, <1>2, FS_Product
<1>4. 1 * n = n
  OBVIOUS
<1> QED BY <1>1, <1>2, <1>3, <1>4

(* Sums over finitely many requests are finite.                            *)
LEMMA PairsFinite ==
  ASSUME IsFiniteSet(Request), NEW f \in [Request -> Nat]
  PROVE  IsFiniteSet(Pairs(f)) /\ Sum(f) \in Nat
<1> DEFINE T == {{r} \X (1..f[r]) : r \in Request}
           g == [r \in Request |-> {r} \X (1..f[r])]
<1>1. g \in Surjection(Request, T)
  BY DEF Surjection
<1>2. IsFiniteSet(T)
  BY <1>1, FS_Surjection
<1>3. \A x \in T : IsFiniteSet(x)
  <2>1. ASSUME NEW r \in Request  PROVE IsFiniteSet({r} \X (1..f[r]))
    <3>1. f[r] \in Nat
      OBVIOUS
    <3> QED BY <3>1, PairsOf
  <2> QED BY <2>1
<1>4. IsFiniteSet(UNION T)
  <2> HIDE DEF T
  <2> QED BY <1>2, <1>3, FS_UNION
<1> QED BY <1>4, FS_CardinalityType DEF Pairs, Sum

(* A sum that changes in one place changes by as much.                     *)
LEMMA SumChanged ==
  ASSUME IsFiniteSet(Request), NEW f \in [Request -> Nat], NEW g \in [Request -> Nat],
         NEW p \in Request, \A x \in Request \ {p} : g[x] = f[x]
  PROVE  Sum(g) - g[p] = Sum(f) - f[p]
<1> DEFINE rest == {x \in Pairs(f) : x[1] # p}
<1>1. rest = {x \in Pairs(g) : x[1] # p}
  BY DEF Pairs
<1>2. ASSUME NEW h \in [Request -> Nat], rest = {x \in Pairs(h) : x[1] # p}
      PROVE  Sum(h) = Cardinality(rest) + h[p]
  <2>1. Pairs(h) = rest \cup ({p} \X (1..h[p])) /\ rest \cap ({p} \X (1..h[p])) = {}
    <3>1. {p} \X (1..h[p]) = {x \in Pairs(h) : x[1] = p}
      BY DEF Pairs
    <3> HIDE DEF rest
    <3> QED BY <1>2, <3>1
  <2>2. IsFiniteSet(rest) /\ Cardinality(rest) \in Nat
    BY PairsFinite, FS_Subset, FS_CardinalityType
  <2>3. IsFiniteSet({p} \X (1..h[p])) /\ Cardinality({p} \X (1..h[p])) = h[p]
    BY PairsOf
  <2> HIDE DEF rest
  <2>4. /\ Cardinality(Pairs(h)) = Cardinality(rest) + Cardinality({p} \X (1..h[p]))
                                   - Cardinality(rest \cap ({p} \X (1..h[p])))
    BY <2>1, <2>2, <2>3, FS_Union
  <2>5. Cardinality(rest \cap ({p} \X (1..h[p]))) = 0
    BY <2>1, FS_EmptySet
  <2> QED BY <2>2, <2>3, <2>4, <2>5 DEF Sum
<1>3. Cardinality(rest) \in Nat
  BY PairsFinite, FS_Subset, FS_CardinalityType
<1> HIDE DEF rest
<1>4. Sum(f) = Cardinality(rest) + f[p]
  <2>1. rest = {x \in Pairs(f) : x[1] # p}
    BY DEF rest
  <2> QED BY <1>2, <2>1
<1>5. Sum(g) = Cardinality(rest) + g[p]
  BY <1>1, <1>2
<1>6. f[p] \in Nat /\ g[p] \in Nat
  OBVIOUS
<1> QED BY <1>3, <1>4, <1>5, <1>6

(* A sum of nothing is 0.                                                  *)
LEMMA SumOfNothing ==
  ASSUME NEW f, \A r \in Request : f[r] = 0
  PROVE  Sum(f) = 0
<1>1. Pairs(f) = {}
  BY DEF Pairs
<1> QED BY <1>1, FS_EmptySet DEF Sum
-----------------------------------------------------------------------------
(* What becomes of a request in a step.                                    *)
LEMMA After ==
  ASSUME Typing, NEW p \in Request
  PROVE  /\ \A pc : Goto(p, pc) => /\ req'[p].pc = pc /\ req'[p].store = req[p].store
                                   /\ req'[p].n = req[p].n
         /\ \A pc, n : Affected(p, pc, n) => /\ req'[p].pc = pc /\ req'[p].store = req[p].store
                                             /\ req'[p].n = n
         /\ Done(p) => req'[p].pc = "idle"
<1>1. req \in [Request -> RequestState] /\ req[p] \in RequestState
  BY DEF Typing, TypeOK
<1>2. ASSUME NEW pc, Goto(p, pc)
      PROVE  req'[p].pc = pc /\ req'[p].store = req[p].store /\ req'[p].n = req[p].n
  BY <1>1, <1>2 DEF Goto, RequestState
<1>3. ASSUME NEW pc, NEW n, Affected(p, pc, n)
      PROVE  req'[p].pc = pc /\ req'[p].store = req[p].store /\ req'[p].n = n
  BY <1>1, <1>3 DEF Affected, RequestState
<1>4. ASSUME Done(p)  PROVE req'[p].pc = "idle"
  BY <1>1, <1>4 DEF Done, Idle
<1> QED BY <1>2, <1>3, <1>4

(* Rows that are added to a store are counted for its type.                *)
LEMMA RowsAdded ==
  ASSUME Typing, NEW s \in Store, NEW new, IsFiniteSet(new), Adding(s, new), NEW t \in DataType
  PROVE  Cardinality(Rows(t)') = Cardinality(Rows(t)) + IF s[2] = t THEN Cardinality(new) ELSE 0
<1>1. IsFiniteSet(Rows(t)) /\ Cardinality(Rows(t)) \in Nat /\ Rows(t) \subseteq DOMAIN items
  <2>1. Rows(t) \in SUBSET DOMAIN items
    BY DEF Rows, Typing, TypeOK
  <2> QED BY <2>1, RowsFinite DEF Typing
<1>2. alive \subseteq DOMAIN items
  BY DEF Typing, TypeOK
<1>3. CASE s[2] = t
  <2>1. Rows(t)' = Rows(t) \cup new /\ Rows(t) \cap new = {}
    BY <1>1, <1>2, <1>3 DEF Adding, Rows
  <2>2. Cardinality(new) \in Nat
    BY FS_CardinalityType
  <2>3. /\ Cardinality(Rows(t) \cup new) =
             Cardinality(Rows(t)) + Cardinality(new) - Cardinality(Rows(t) \cap new)
        /\ Cardinality(Rows(t) \cap new) = 0
    BY <1>1, <2>1, FS_Union, FS_EmptySet
  <2> QED BY <1>1, <1>3, <2>1, <2>2, <2>3
<1>4. CASE s[2] # t
  <2>1. Rows(t)' = Rows(t)
    BY <1>2, <1>4 DEF Adding, Rows
  <2> QED BY <1>1, <1>4, <2>1
<1> QED BY <1>3, <1>4

(* Rows that are deleted from a store are missing from its type.           *)
LEMMA RowsRemoved ==
  ASSUME Typing, NEW out \in SUBSET alive, alive' = alive \ out, items' = items,
         NEW u, \A i \in out : items[i][2] = u, NEW t \in DataType
  PROVE  Cardinality(Rows(t)') = Cardinality(Rows(t)) - IF u = t THEN Cardinality(out) ELSE 0
<1>1. IsFiniteSet(Rows(t)) /\ Cardinality(Rows(t)) \in Nat
  <2>1. Rows(t) \in SUBSET DOMAIN items
    BY DEF Rows, Typing, TypeOK
  <2> QED BY <2>1, RowsFinite DEF Typing
<1>2. CASE u = t
  <2>1. Rows(t)' = Rows(t) \ out /\ Rows(t) \cap out = out
    BY <1>2 DEF Rows
  <2> QED BY <1>1, <1>2, <2>1, FS_Difference
<1>3. CASE u # t
  <2>1. Rows(t)' = Rows(t)
    BY <1>3 DEF Rows
  <2> QED BY <1>1, <1>3, <2>1
<1> QED BY <1>2, <1>3

(* What a request owes is a natural number.                                *)
LEMMA Owed ==
  ASSUME NEW q \in RequestState, NEW t
  PROVE  Adds(q, t) \in Nat /\ Takes(q, t) \in Nat
BY DEF RequestState, Adds, Takes

(* A step keeps the balance if gauge, rows and what its request owes       *)
(* change together.                                                        *)
LEMMA BalanceStays ==
  ASSUME IsFiniteSet(Request), Typing, Typing', NEW p \in Request, NEW t \in DataType,
         \A x \in Request \ {p} : req'[x] = req[x], Balanced(t),
         gauge'[t] + Adds(req'[p], t) + Takes(req[p], t) + Cardinality(Rows(t))
           = gauge[t] + Adds(req[p], t) + Takes(req'[p], t) + Cardinality(Rows(t)')
  PROVE  Balanced(t)'
<1> DEFINE A == Added(t)
           B == [r \in Request |-> Adds(req'[r], t)]
           C == Taken(t)
           D == [r \in Request |-> Takes(req'[r], t)]
<1>1. \A r \in Request : req[r] \in RequestState /\ req'[r] \in RequestState
  BY DEF Typing, TypeOK
<1>2. {A, B, C, D} \subseteq [Request -> Nat]
  BY <1>1, Owed DEF Added, Taken
<1>3. /\ \A x \in Request \ {p} : B[x] = A[x] /\ D[x] = C[x]
      /\ A[p] = Adds(req[p], t) /\ B[p] = Adds(req'[p], t)
      /\ C[p] = Takes(req[p], t) /\ D[p] = Takes(req'[p], t)
  BY DEF Added, Taken
<1>4. B = Added(t)' /\ D = Taken(t)'
  BY DEF Added, Taken
<1> HIDE DEF A, B, C, D
<1>5. /\ Sum(B) - B[p] = Sum(A) - A[p] /\ Sum(D) - D[p] = Sum(C) - C[p]
      /\ {Sum(A), Sum(B), Sum(C), Sum(D), A[p], B[p], C[p], D[p]} \subseteq Nat
  BY <1>2, <1>3, SumChanged, PairsFinite
<1>6. gauge[t] \in Int /\ gauge'[t] \in Int
  BY DEF Typing, TypeOK
<1>7. Cardinality(Rows(t)) \in Nat /\ Cardinality(Rows(t)') \in Nat
  <2>1. Rows(t) \in SUBSET DOMAIN items /\ Rows(t)' \in SUBSET DOMAIN items'
    BY DEF Rows, Typing, TypeOK
  <2>2. PICK last \in 0..MaxId : DOMAIN items' = 1..last
    BY DEF Typing, TypeOK
  <2>3. last \in Nat
    BY DataStoreAssumption
  <2> QED BY <2>1, <2>2, <2>3, NumberedFinite, RowsFinite DEF Typing
<1>8. gauge[t] + Sum(A) = Cardinality(Rows(t)) + Sum(C)
  BY DEF Balanced, A, C
<1>9. gauge'[t] + Sum(B) = Cardinality(Rows(t)') + Sum(D)
  <2> DEFINE x == gauge[t]
             y == gauge'[t]
             m == Cardinality(Rows(t))
             n == Cardinality(Rows(t)')
             a == A[p]
             b == B[p]
             c == C[p]
             d == D[p]
             sa == Sum(A)
             sb == Sum(B)
             sc == Sum(C)
             sd == Sum(D)
  <2>1. y + b + c + m = x + a + d + n
    BY <1>3
  <2>2. x + sa = m + sc
    BY <1>8
  <2>3. sb - b = sa - a /\ sd - d = sc - c
    BY <1>5
  <2>4. x \in Int /\ y \in Int /\ m \in Nat /\ n \in Nat
    BY <1>6, <1>7
  <2>5. /\ a \in Nat /\ b \in Nat /\ c \in Nat /\ d \in Nat
        /\ sa \in Nat /\ sb \in Nat /\ sc \in Nat /\ sd \in Nat
    BY <1>5
  <2> HIDE DEF x, y, m, n, a, b, c, d, sa, sb, sc, sd
  <2>6. y + sb = n + sd
    BY <2>1, <2>2, <2>3, <2>4, <2>5
  <2> QED BY <2>6 DEF y, sb, n, sd
<1>10. Sum(B) = Sum(Added(t))' /\ Sum(D) = Sum(Taken(t))'
  BY <1>4 DEF Sum, Pairs
<1> QED BY <1>9, <1>10 DEF Balanced
-----------------------------------------------------------------------------
(* A request of v1 always counts one row, or none.                         *)
LEMMA OnesNext ==
  ASSUME Typing, Losses, \A r \in Request : One(req[r]), [Next]_vars, NEW r \in Request
  PROVE  One(req'[r])
<1>1. CASE req'[r] = req[r]
  BY <1>1
<1>2. ASSUME NEW p \in Request, Step(p), req'[r] # req[r]  PROVE One(req'[r])
  <2>1. p = r
    BY <1>2, OthersStay
  <2>2. CASE req'[r].pc \notin {"added", "dropped"}
    BY <2>2 DEF One
  <2>3. CASE req'[r].pc \in {"added", "dropped"}
    <3>1. Create(r) \/ CreateFails(r) \/ Drop(r)
      <4>1. req \in [Request -> RequestState]
        BY DEF Typing, TypeOK
      <4>2. ASSUME Begin(r)  PROVE req'[r].pc \in {"create", "delete", "deleteUser"}
        BY <4>1, <4>2 DEF Begin, Goto, RequestState
      <4>3. ASSUME PreloadLocations(r)  PROVE req'[r].pc \in {"drop", "idle"}
        BY <4>1, <4>3 DEF PreloadLocations, Done, Idle, RequestState
      <4>4. ASSUME InitializeUserMetrics(r)
            PROVE  req'[r].pc \in {"set", "countV2", "add", "idle"}
        BY <4>1, <4>4 DEF InitializeUserMetrics, Recount, Done, Idle, RequestState
      <4>5. ASSUME \/ CountAdded(r) \/ Prune(r) \/ PruneFails(r) \/ CountDropped(r)
                   \/ DeleteItems(r) \/ CountDeleted(r) \/ DeleteUser(r)
            PROVE  req'[r].pc \in {"preload", "prune", "deleted", "drop", "idle", "count"}
        BY <4>5, After DEF CountAdded, Prune, PruneFails, CountDropped, DeleteItems,
                           CountDeleted, DeleteUser
      <4> QED BY <1>2, <2>1, <2>3, <4>2, <4>3, <4>4, <4>5 DEF Step
    <3>2. CASE Create(r)
      <4>1. PICK n \in BatchSize(req[r].store) : Affected(r, "added", n)
        BY <3>2 DEF Create
      <4>2. req'[r].pc = "added" /\ req'[r].store = req[r].store /\ req'[r].n = n
        BY <4>1, After
      <4>3. req[r].store[1] = "v1" => n = 1
        BY <4>1 DEF BatchSize
      <4> QED BY <4>2, <4>3 DEF One
    <3>3. CASE CreateFails(r)
      <4>1. Affected(r, "added", 0)
        BY <2>3, <3>3, After DEF CreateFails
      <4> QED BY <4>1, After DEF One
    <3>4. CASE Drop(r)
      <4>1. req[r].list # {}
        BY <2>3, <3>4, After DEF Drop
      <4>2. PICK i, out : /\ out \in {alive \cap {i}, {}}
                          /\ req' = [req EXCEPT ![r].pc = "dropped", ![r].list = @ \ {i},
                                                ![r].n = Cardinality(out)]
        BY <3>4, <4>1, Drops
      <4>3. req'[r].n = Cardinality(out)
        BY <4>2 DEF Typing, TypeOK, RequestState
      <4>4. out = {} \/ out = {i}
        BY <4>2
      <4>5. Cardinality(out) \in {0, 1}
        BY <4>4, FS_EmptySet, FS_Singleton
      <4> QED BY <4>3, <4>5 DEF One
    <3> QED BY <3>1, <3>2, <3>3, <3>4
  <2> QED BY <2>2, <2>3
<1>3. CASE Restart
  BY <1>3 DEF Restart, Idle, One
<1>4. CASE UNCHANGED vars
  BY <1>1, <1>4 DEF vars
<1> QED BY <1>1, <1>2, <1>3, <1>4 DEF Next

(* Who owes nothing before and after.                                      *)
LEMMA OwesNothing ==
  ASSUME NEW q, NEW t, q.pc \notin {"added", "deleted", "dropped"}
  PROVE  Adds(q, t) = 0 /\ Takes(q, t) = 0
BY Zenon DEF Adds, Takes

(* As long as nobody sets the gauges anew, every step keeps the balance.   *)
LEMMA BalancedStep ==
  ASSUME IsFiniteSet(Request), Typing, Losses, Typing', NEW p \in Request, Step(p),
         One(req[p]), ~miscounted', ~Anew(p), ~Anew(p)', NEW t \in DataType, Balanced(t)
  PROVE  Balanced(t)'
<1> DEFINE a == Adds(req[p], t)
           b == Adds(req'[p], t)
           c == Takes(req[p], t)
           d == Takes(req'[p], t)
           before == Cardinality(Rows(t))
           later == Cardinality(Rows(t)')
           s == req[p].store
<1>1. /\ req[p] \in RequestState /\ req'[p] \in RequestState /\ s \in Store /\ req[p].n \in Nat
      /\ gauge \in [DataType -> Int] /\ alive \subseteq DOMAIN items
      /\ s[2] \in DataType /\ "location" \in DataType
  BY DEF Typing, TypeOK, RequestState, Store, DataType
<1>2. SUFFICES gauge'[t] + b + c + before = gauge[t] + a + d + later
  BY OthersStay, BalanceStays
<1>3. before \in Nat
  <2>1. Rows(t) \in SUBSET DOMAIN items
    BY <1>1 DEF Rows
  <2> QED BY <2>1, RowsFinite DEF Typing
<1>4. a \in Nat /\ b \in Nat /\ c \in Nat /\ d \in Nat /\ gauge[t] \in Int
  BY <1>1, Owed
<1>5. ASSUME req[p].pc \notin {"added", "deleted", "dropped"}  PROVE a = 0 /\ c = 0
  BY <1>5, OwesNothing
<1>6. ASSUME req'[p].pc \notin {"added", "deleted", "dropped"}  PROVE b = 0 /\ d = 0
  BY <1>6, OwesNothing
<1>7. ASSUME UNCHANGED <<alive, items>>  PROVE later = before
  BY <1>7 DEF Rows
<1>8. ASSUME UNCHANGED <<alive, items, gauge>>, a = 0, b = 0, c = 0, d = 0
      PROVE  gauge'[t] + b + c + before = gauge[t] + a + d + later
  BY <1>3, <1>4, <1>7, <1>8
<1> HIDE DEF a, b, c, d, before, later, s
<1>9. CASE Begin(p)
  <2>1. req'[p].pc \in {"create", "delete", "deleteUser"}
    BY <1>1, <1>9 DEF Begin, Goto, Typing, TypeOK, RequestState
  <2> QED BY <1>5, <1>6, <1>8, <1>9, <2>1 DEF Begin, At
<1>10. CASE Create(p)
  <2> DEFINE last == Cardinality(DOMAIN items)
  <2>1. PICK n \in BatchSize(s) :
          /\ items' = [i \in 1..last + n |-> IF i <= last THEN items[i] ELSE s]
          /\ alive' = alive \cup (last + 1..last + n)
          /\ Affected(p, "added", n)
    BY <1>10 DEF Create, s
  <2>2. last \in Nat /\ DOMAIN items = 1..last /\ n \in Nat
    <3>1. n \in Nat
      BY DataStoreAssumption DEF BatchSize
    <3> QED BY <3>1, Numbering DEF Typing
  <2> HIDE DEF last
  <2>3. /\ 1..last + n = (1..last) \cup (last + 1..last + n)
        /\ (1..last) \cap (last + 1..last + n) = {}
        /\ \A i \in 1..last : i <= last
        /\ \A i \in last + 1..last + n : ~(i <= last)
    BY <2>2
  <2>4. Adding(s, last + 1..last + n)
    BY <1>10, <2>1, <2>2, <2>3 DEF Adding, Create, ForeignKey
  <2>5. IsFiniteSet(last + 1..last + n) /\ Cardinality(last + 1..last + n) = n
    <3>1. last + 1 \in Int /\ last + n \in Int
      BY <2>2
    <3>2. /\ IsFiniteSet(last + 1..last + n)
          /\ Cardinality(last + 1..last + n) =
               IF last + 1 > last + n THEN 0 ELSE (last + n) - (last + 1) + 1
      BY <3>1, FS_Interval
    <3> QED BY <2>2, <3>2
  <2>6. later = before + IF s[2] = t THEN n ELSE 0
    BY <1>1, <2>4, <2>5, RowsAdded DEF before, later
  <2>7. b = (IF s[2] = t THEN n ELSE 0) /\ d = 0
    BY <2>1, After DEF b, d, s, Adds, Takes
  <2>8. a = 0 /\ c = 0
    BY <1>5, <1>10 DEF Create, At
  <2>9. gauge' = gauge
    BY <1>10 DEF Create
  <2> QED BY <1>3, <1>4, <2>2, <2>6, <2>7, <2>8, <2>9
<1>11. CASE CreateFails(p)
  <2>1. b = 0 /\ d = 0
    <3>1. CASE Affected(p, "added", 0)
      BY <3>1, After DEF b, d, Adds, Takes
    <3>2. CASE Done(p)
      BY <1>6, <3>2, After
    <3> QED BY <1>11, <3>1, <3>2 DEF CreateFails
  <2> QED BY <1>5, <1>8, <1>11, <2>1 DEF CreateFails, At
<1>12. CASE CountAdded(p)
  <2>1. later = before
    BY <1>7, <1>12 DEF CountAdded
  <2>2. b = 0 /\ d = 0
    BY <1>6, <1>12, After DEF CountAdded
  <2>3. c = 0 /\ a = IF s[2] = t THEN req[p].n ELSE 0
    BY <1>12 DEF CountAdded, At, a, c, s, Adds, Takes
  <2>4. CASE s[1] = "v1"
    <3>1. s[2] = "location"
      BY <1>1, <2>4 DEF Store
    <3>2. req[p].n = 1
      BY <1>12, <2>4 DEF CountAdded, At, One, s
    <3>3. gauge' = [gauge EXCEPT !["location"] = @ + 1]
      BY <1>12, <2>4 DEF CountAdded, s
    <3>4. gauge'[t] = gauge[t] + a
      BY <1>1, <1>4, <2>3, <3>1, <3>2, <3>3
    <3> QED BY <1>3, <1>4, <2>1, <2>2, <2>3, <3>4
  <2>5. CASE s[1] # "v1"
    <3>1. gauge' = [gauge EXCEPT ![s[2]] = @ + req[p].n]
      BY <1>12, <2>5 DEF CountAdded, Adjust, s
    <3>2. gauge'[t] = gauge[t] + a
      BY <1>1, <1>4, <2>3, <3>1
    <3> QED BY <1>3, <1>4, <2>1, <2>2, <2>3, <3>2
  <2> QED BY <2>4, <2>5
<1>13. ASSUME NEW out \in SUBSET alive, alive' = alive \ out, UNCHANGED <<items, gauge>>,
              \A i \in out : items[i][2] = s[2], a = 0, c = 0, b = 0,
              d = IF s[2] = t THEN Cardinality(out) ELSE 0
       PROVE  gauge'[t] + b + c + before = gauge[t] + a + d + later
  <2>1. later = before - IF s[2] = t THEN Cardinality(out) ELSE 0
    BY <1>13, RowsRemoved DEF before, later
  <2>2. Cardinality(out) \in Nat
    <3>1. out \in SUBSET DOMAIN items
      BY <1>1
    <3> QED BY <3>1, RowsFinite DEF Typing
  <2> QED BY <1>3, <1>4, <1>13, <2>1, <2>2
<1>14. CASE Prune(p)
  <2>1. PICK out \in SUBSET In(s) : alive' = alive \ out /\ Affected(p, "deleted", Cardinality(out))
    BY <1>14 DEF Prune, Surplus, Scope, s
  <2>2. b = 0 /\ d = IF s[2] = t THEN Cardinality(out) ELSE 0
    BY <2>1, After DEF b, d, s, Adds, Takes
  <2>3. a = 0 /\ c = 0
    BY <1>5, <1>14 DEF Prune, At
  <2>4. out \in SUBSET alive /\ \A i \in out : items[i][2] = s[2]
    BY DEF In
  <2> QED BY <1>13, <1>14, <2>1, <2>2, <2>3, <2>4 DEF Prune
<1>15. CASE PruneFails(p)
  <2>1. b = 0 /\ d = 0
    BY <1>15, After DEF PruneFails, b, d, Adds, Takes
  <2> QED BY <1>5, <1>8, <1>15, <2>1 DEF PruneFails, At
<1>16. CASE PreloadLocations(p)
  <2>1. req'[p].pc \in {"drop", "idle"}
    BY <1>16 DEF PreloadLocations, Done, Idle, Typing, TypeOK, RequestState
  <2> QED BY <1>5, <1>6, <1>8, <1>16, <2>1 DEF PreloadLocations, At
<1>17. CASE Drop(p)
  <2>1. a = 0 /\ c = 0
    BY <1>5, <1>17 DEF Drop, At
  <2>2. CASE req[p].list = {}
    <3>1. b = 0 /\ d = 0
      BY <1>6, <1>17, <2>2, After DEF Drop
    <3> QED BY <1>8, <1>17, <2>1, <2>2, <3>1 DEF Drop
  <2>3. CASE req[p].list # {}
    <3> DEFINE i == Min(req[p].list)
    <3>1. i \in req[p].list
      <4>1. req[p].list \subseteq Nat
        BY <1>1 DEF RequestState, Id
      <4> QED BY <2>3, <4>1, MinOfNaturals
    <3>2. PICK out \in {alive \cap {i}, {}} :
            /\ alive' = alive \ out /\ UNCHANGED <<items, gauge>>
            /\ req' = [req EXCEPT ![p].pc = "dropped", ![p].list = @ \ {i},
                                  ![p].n = Cardinality(out)]
      BY <1>17, <2>3, Drops
    <3> HIDE DEF i
    <3>3. items[i][2] = "location"
      BY <3>1 DEF Losses, ListsOld, Outnumbered
    <3>4. s[2] = "location"
      <4>1. s = V1
        BY <1>17 DEF Drop, At, Typing, Fits, s
      <4> QED BY <4>1 DEF V1
    <3>5. req'[p].pc = "dropped" /\ req'[p].store = s /\ req'[p].n = Cardinality(out)
      BY <1>1, <3>2 DEF Typing, TypeOK, RequestState, s
    <3>6. b = 0 /\ d = IF s[2] = t THEN Cardinality(out) ELSE 0
      BY <3>5 DEF b, d, Adds, Takes
    <3>7. out \subseteq alive /\ \A j \in out : items[j][2] = s[2]
      BY <3>2, <3>3, <3>4
    <3> QED BY <1>13, <2>1, <3>2, <3>6, <3>7
  <2> QED BY <2>2, <2>3
<1>18. CASE CountDropped(p)
  <2>1. later = before
    BY <1>7, <1>18 DEF CountDropped
  <2>2. b = 0 /\ d = 0
    BY <1>6, <1>18, After DEF CountDropped
  <2>3. s = V1
    BY <1>18 DEF CountDropped, At, Typing, Fits, s
  <2>4. req[p].n = 1
    BY <1>18 DEF CountDropped, At, One
  <2>5. a = 0 /\ c = IF "location" = t THEN 1 ELSE 0
    BY <1>18, <2>3, <2>4 DEF CountDropped, At, a, c, s, Adds, Takes, V1
  <2>6. gauge'[t] = gauge[t] - c
    BY <1>1, <1>4, <1>18, <2>5 DEF CountDropped
  <2> QED BY <1>3, <1>4, <2>1, <2>2, <2>5, <2>6
<1>19. CASE DeleteItems(p)
  <2>1. PICK out \in SUBSET In(s) : alive' = alive \ out /\ Affected(p, "deleted", Cardinality(out))
    BY <1>19 DEF DeleteItems, Targets, s
  <2>2. b = 0 /\ d = IF s[2] = t THEN Cardinality(out) ELSE 0
    BY <2>1, After DEF b, d, s, Adds, Takes
  <2>3. a = 0 /\ c = 0
    BY <1>5, <1>19 DEF DeleteItems, At
  <2>4. out \in SUBSET alive /\ \A i \in out : items[i][2] = s[2]
    BY DEF In
  <2> QED BY <1>13, <1>19, <2>1, <2>2, <2>3, <2>4 DEF DeleteItems
<1>20. CASE CountDeleted(p)
  <2>1. later = before
    BY <1>7, <1>20 DEF CountDeleted
  <2>2. b = 0 /\ d = 0
    BY <1>6, <1>20, After DEF CountDeleted
  <2>3. a = 0 /\ c = IF s[2] = t THEN req[p].n ELSE 0
    BY <1>20 DEF CountDeleted, At, a, c, s, Adds, Takes
  <2>4. gauge' = [gauge EXCEPT ![s[2]] = @ + (-req[p].n)]
    BY <1>20 DEF CountDeleted, Adjust, s
  <2>5. gauge'[t] = gauge[t] - c
    BY <1>1, <1>4, <2>3, <2>4
  <2> QED BY <1>3, <1>4, <2>1, <2>2, <2>3, <2>5
<1>21. CASE DeleteUser(p)
  <2>1. Done(p) /\ UNCHANGED <<alive, items, gauge>>
    BY <1>21, After DEF DeleteUser, Anew
  <2>2. b = 0 /\ d = 0
    BY <1>6, <2>1, After
  <2> QED BY <1>5, <1>8, <1>21, <2>1, <2>2 DEF DeleteUser, At
<1>22. CASE InitializeUserMetrics(p)
  BY <1>22 DEF InitializeUserMetrics, At, Anew
<1> QED BY <1>9, <1>10, <1>11, <1>12, <1>14, <1>15, <1>16, <1>17, <1>18, <1>19, <1>20, <1>21,
           <1>22 DEF Step

(* At the start the gauges are 0, and nobody owes them anything.           *)
LEMMA AccountedInit == Init => Accounted
<1> SUFFICES ASSUME Init  PROVE Accounted
  OBVIOUS
<1>1. \A r \in Request : req[r].pc = "idle"
  BY DEF Init, Idle
<1>2. \A r \in Request : One(req[r]) /\ Snapshot(r)
  BY <1>1 DEF One, Snapshot
<1>3. ASSUME NEW t \in DataType  PROVE Balanced(t)
  <2>1. \A r \in Request : Adds(req[r], t) = 0 /\ Takes(req[r], t) = 0
    BY <1>1, OwesNothing
  <2>2. Sum(Added(t)) = 0 /\ Sum(Taken(t)) = 0
    <3>1. \A r \in Request : Added(t)[r] = 0 /\ Taken(t)[r] = 0
      BY <2>1 DEF Added, Taken
    <3> QED BY <3>1, SumOfNothing
  <2>3. gauge[t] = 0
    BY DEF Init, Zero
  <2>4. Rows(t) = {}
    BY DEF Init, Rows
  <2>5. Cardinality(Rows(t)) = 0
    BY <2>4, FS_EmptySet
  <2> QED BY <2>2, <2>3, <2>5 DEF Balanced
<1> QED BY <1>2, <1>3 DEF Accounted

(* The rows of a type are those of v1 and those of v2.                     *)
LEMMA BothVersions ==
  ASSUME Typing, NEW t \in DataType
  PROVE  /\ Cardinality(Rows(t)) = Counted("v1")[t] + Counted("v2")[t]
         /\ Counted("v1")[t] \in Nat /\ Counted("v2")[t] \in Nat
<1> DEFINE R(v) == {i \in alive : items[i] = <<v, t>>}
<1>1. \A v : R(v) \in SUBSET DOMAIN items
  BY DEF Typing, TypeOK
<1>2. \A v : IsFiniteSet(R(v)) /\ Cardinality(R(v)) \in Nat
  BY <1>1, RowsFinite DEF Typing
<1>3. Rows(t) = R("v1") \cup R("v2") /\ R("v1") \cap R("v2") = {}
  <2>1. \A i \in alive : items[i] \in Store
    BY DEF Typing, TypeOK
  <2>2. \A i \in alive : items[i][2] = t <=> items[i] \in {<<"v1", t>>, <<"v2", t>>}
    BY <2>1 DEF Store
  <2> QED BY <2>2 DEF Rows
<1>4. Counted("v1")[t] = Cardinality(R("v1")) /\ Counted("v2")[t] = Cardinality(R("v2"))
  BY DEF Counted
<1> HIDE DEF R
<1>5. /\ Cardinality(R("v1") \cup R("v2")) = Cardinality(R("v1")) + Cardinality(R("v2"))
                                             - Cardinality(R("v1") \cap R("v2"))
      /\ Cardinality(R("v1") \cap R("v2")) = 0
  BY <1>2, <1>3, FS_Union, FS_EmptySet
<1> QED BY <1>2, <1>3, <1>4, <1>5

(* When the gauges have been set anew, and nobody owes them anything, they *)
(* are what was counted.                                                   *)
LEMMA AnewBalanced ==
  ASSUME Typing, Typing', NEW p \in Request, At(p, "add"), InitializeUserMetrics(p),
         Snapshot(p), ~Owing(p), \A x \in Request \ {p} : req'[x] = req[x], NEW t \in DataType
  PROVE  Balanced(t)'
<1>1. gauge'[t] = Counted("v1")[t] + Counted("v2")[t]
  BY DEF InitializeUserMetrics, At, Snapshot
<1>2. Rows(t)' = Rows(t)
  BY DEF InitializeUserMetrics, Rows
<1>3. Done(p)
  BY DEF InitializeUserMetrics, At
<1>4. req'[p].pc = "idle"
  BY <1>3, After
<1>5. \A r \in Request : req'[r].pc \notin {"added", "deleted", "dropped"}
  BY <1>4 DEF Owing
<1>6. \A r \in Request : Adds(req'[r], t) = 0 /\ Takes(req'[r], t) = 0
  BY <1>5, OwesNothing
<1> DEFINE B == [r \in Request |-> Adds(req'[r], t)]
           D == [r \in Request |-> Takes(req'[r], t)]
<1>7. Sum(B) = 0 /\ Sum(D) = 0
  <2>1. \A r \in Request : B[r] = 0 /\ D[r] = 0
    BY <1>6
  <2> HIDE DEF B, D
  <2> QED BY <2>1, SumOfNothing
<1>8. Sum(B) = Sum(Added(t))' /\ Sum(D) = Sum(Taken(t))'
  BY DEF Sum, Pairs, Added, Taken
<1> HIDE DEF B, D
<1>9. gauge'[t] = Cardinality(Rows(t)')
  BY <1>1, <1>2, BothVersions
<1>10. gauge'[t] \in Int
  BY DEF Typing, TypeOK
<1> QED BY <1>7, <1>8, <1>9, <1>10 DEF Balanced

(* Somebody else's step, after which a request that sets the gauges anew   *)
(* is owed nothing, has not changed what it counted.                       *)
LEMMA SnapshotStays ==
  ASSUME Typing, Losses, NEW r \in Request, NEW p \in Request \ {r}, Step(p), ~miscounted',
         req[r].pc \in {"set", "countV2", "add"}, ~Owing(r)'
  PROVE  ~Owing(r) /\ UNCHANGED <<items, alive, gauge>>
<1>1. \A x \in Request \ {p} : req'[x] = req[x]
  BY OthersStay
<1>2. req'[p].pc \notin {"added", "dropped", "deleted", "count", "set", "countV2", "add"}
  BY DEF Owing
<1>3. SettingAnew(p) /\ Owing(p)
  BY DEF SettingAnew, Owing
<1>4. /\ ~CountAdded(p) /\ ~CountDropped(p) /\ ~CountDeleted(p) /\ ~InitializeUserMetrics(p)
  BY <1>3 DEF CountAdded, CountDropped, CountDeleted, InitializeUserMetrics, Adjust
<1>5. /\ req[p].pc \notin {"added", "dropped", "deleted", "count", "set", "countV2", "add"}
      /\ UNCHANGED <<items, alive, gauge>>
  <2>1. ~Create(p) /\ ~Prune(p) /\ ~PruneFails(p) /\ ~DeleteItems(p)
    <3>1. \A pc, n : Affected(p, pc, n) => req'[p].pc = pc
      BY After
    <3> QED BY <1>2, <3>1 DEF Create, Prune, PruneFails, DeleteItems
  <2>2. ASSUME Drop(p)  PROVE req[p].list = {}
    <3>1. req'[p].pc = "dropped" \/ req[p].list = {}
      BY <2>2 DEF Drop, Typing, TypeOK, RequestState
    <3> QED BY <1>2, <3>1
  <2>3. ASSUME DeleteUser(p)  PROVE UNCHANGED <<items, alive, gauge>>
    <3>1. ~Goto(p, "count")
      BY <1>2, After
    <3> QED BY <2>3, <3>1 DEF DeleteUser
  <2>4. \/ Begin(p) \/ CreateFails(p) \/ PreloadLocations(p) \/ Drop(p) \/ DeleteUser(p)
    BY <1>4, <2>1 DEF Step
  <2> QED BY <2>2, <2>3, <2>4 DEF Begin, CreateFails, PreloadLocations, Drop, DeleteUser, At
<1> QED BY <1>1, <1>5 DEF Owing

(* Every step accounts for what it did.                                    *)
LEMMA AccountedNext ==
  ASSUME IsFiniteSet(Request), Typing, Losses, Accounted, [Next]_vars
  PROVE  Accounted'
<1>1. Typing'
  BY TypingNext DEF Losses
<1>2. \A r \in Request : One(req'[r])
  BY OnesNext DEF Accounted
<1>3. ASSUME ~miscounted'
      PROVE  /\ (\A r \in Request : ~Anew(r)') => \A t \in DataType : Balanced(t)'
             /\ \A r \in Request : ~Owing(r)' => Snapshot(r)'
  <2>1. CASE UNCHANGED vars
    <3>1. ~miscounted
      BY <1>3, <2>1 DEF vars
    <3>2. /\ \A r \in Request : /\ Anew(r)' <=> Anew(r)
                                /\ Owing(r)' <=> Owing(r)
                                /\ Snapshot(r)' <=> Snapshot(r)
          /\ \A t \in DataType : Balanced(t)' <=> Balanced(t)
      BY <2>1 DEF vars, Anew, Owing, Snapshot, Balanced, Added, Taken, Rows, Counted
    <3> QED BY <3>1, <3>2 DEF Accounted
  <2>2. CASE Restart
    <3>1. \A r \in Request : req'[r].pc = "idle"
      BY <2>2 DEF Restart, Idle
    <3>2. \A r \in Request : Snapshot(r)'
      BY <3>1 DEF Snapshot
    <3>3. ASSUME NEW t \in DataType  PROVE Balanced(t)'
      <4> DEFINE B == [r \in Request |-> Adds(req'[r], t)]
                 D == [r \in Request |-> Takes(req'[r], t)]
      <4>1. \A r \in Request : B[r] = 0 /\ D[r] = 0
        BY <3>1, OwesNothing
      <4>2. B = Added(t)' /\ D = Taken(t)'
        BY DEF Added, Taken
      <4> HIDE DEF B, D
      <4>3. Sum(B) = 0 /\ Sum(D) = 0
        BY <4>1, SumOfNothing
      <4>4. Sum(B) = Sum(Added(t))' /\ Sum(D) = Sum(Taken(t))'
        BY <4>2 DEF Sum, Pairs
      <4>5. gauge'[t] = Cardinality(Rows(t)') /\ gauge'[t] \in Int
        BY <1>1, <2>2 DEF Restart, Rows, Typing, TypeOK
      <4> QED BY <4>3, <4>4, <4>5 DEF Balanced
    <3> QED BY <3>2, <3>3
  <2>3. ASSUME NEW p \in Request, Step(p)
        PROVE  /\ (\A r \in Request : ~Anew(r)') => \A t \in DataType : Balanced(t)'
               /\ \A r \in Request : ~Owing(r)' => Snapshot(r)'
    <3>1. \A x \in Request \ {p} : req'[x] = req[x]
      BY <2>3, OthersStay
    <3>2. ~miscounted
      BY <1>3, <2>3 DEF Step, Begin, Create, CreateFails, CountAdded, Prune, PruneFails,
            PreloadLocations, Drop, CountDropped, DeleteItems, CountDeleted, DeleteUser,
            InitializeUserMetrics, Adjust
    <3>3. ASSUME NEW r \in Request, ~Owing(r)  PROVE Snapshot(r)
      BY <3>2, <3>3 DEF Accounted
    <3>4. ASSUME \A r \in Request : ~Anew(r)', NEW t \in DataType  PROVE Balanced(t)'
      <4>1. \A x \in Request \ {p} : ~Anew(x)
        BY <3>1, <3>4 DEF Anew
      <4>2. CASE ~Anew(p)
        <5>1. Balanced(t) /\ One(req[p]) /\ ~Anew(p)'
          BY <3>2, <3>4, <4>1, <4>2 DEF Accounted
        <5> QED BY <1>1, <1>3, <2>3, <4>2, <5>1, BalancedStep
      <4>3. CASE Anew(p)
        <5>1. InitializeUserMetrics(p)
          BY <2>3, <4>3 DEF Anew, Step, Begin, Create, CreateFails, CountAdded, Prune, PruneFails,
                PreloadLocations, Drop, CountDropped, DeleteItems, CountDeleted, DeleteUser, At
        <5>2. At(p, "add")
          <6>1. req'[p].pc \notin {"count", "set", "countV2", "add"}
            BY <3>4 DEF Anew
          <6>2. req \in [Request -> RequestState]
            BY DEF Typing, TypeOK
          <6> QED BY <5>1, <6>1, <6>2 DEF InitializeUserMetrics, Recount, RequestState
        <5>3. ~Owing(p)
          BY <1>3, <5>1 DEF InitializeUserMetrics
        <5> QED BY <1>1, <3>1, <3>3, <5>1, <5>2, <5>3, AnewBalanced
      <4> QED BY <4>2, <4>3
    <3>5. ASSUME NEW r \in Request, ~Owing(r)'  PROVE Snapshot(r)'
      <4>1. CASE r # p
        <5>1. req'[r] = req[r]
          BY <3>1, <4>1
        <5>2. CASE req[r].pc \in {"set", "countV2", "add"}
          <6>1. ~Owing(r) /\ UNCHANGED <<items, alive, gauge>>
            BY <1>3, <2>3, <3>5, <4>1, <5>2, SnapshotStays
          <6> QED BY <3>3, <5>1, <6>1 DEF Snapshot, Counted
        <5>3. CASE req[r].pc \notin {"set", "countV2", "add"}
          BY <5>1, <5>3 DEF Snapshot
        <5> QED BY <5>2, <5>3
      <4>2. CASE r = p
        <5>1. CASE InitializeUserMetrics(p)
          <6>1. ~Owing(p)
            BY <1>3, <5>1 DEF InitializeUserMetrics
          <6>2. Snapshot(p)
            BY <3>3, <6>1
          <6>3. req \in [Request -> RequestState] /\ UNCHANGED <<items, alive>>
            BY <5>1 DEF InitializeUserMetrics, Typing, TypeOK
          <6>4. ASSUME NEW v  PROVE Counted(v)' = Counted(v)
            BY <6>3 DEF Counted
          <6>5. ASSUME NEW pc, NEW v, Recount(p, pc, v)
                PROVE  req'[p].pc = pc /\ req'[p].count = Counted(v) /\ gauge' = gauge
            BY <6>3, <6>5 DEF Recount, RequestState
          <6>6. CASE At(p, "count")
            BY <4>2, <5>1, <6>4, <6>5, <6>6 DEF InitializeUserMetrics, At, Snapshot
          <6>7. CASE At(p, "set")
            <7>1. gauge' = req[p].count
              BY <5>1, <6>7 DEF InitializeUserMetrics, At
            <7>2. req'[p].pc = "countV2"
              BY <5>1, <6>3, <6>7 DEF InitializeUserMetrics, At, RequestState
            <7> QED BY <4>2, <6>2, <6>4, <6>7, <7>1, <7>2 DEF Snapshot, At
          <6>8. CASE At(p, "countV2")
            BY <4>2, <5>1, <6>2, <6>4, <6>5, <6>8 DEF InitializeUserMetrics, At, Snapshot
          <6>9. CASE At(p, "add")
            <7>1. req'[p].pc = "idle"
              BY <5>1, <6>9, After DEF InitializeUserMetrics, At
            <7> QED BY <4>2, <7>1 DEF Snapshot
          <6> QED BY <5>1, <6>6, <6>7, <6>8, <6>9 DEF InitializeUserMetrics
        <5>2. CASE ~InitializeUserMetrics(p)
          <6>1. req \in [Request -> RequestState]
            BY DEF Typing, TypeOK
          <6>2. ASSUME Begin(p)  PROVE req'[p].pc \in {"create", "delete", "deleteUser"}
            BY <6>1, <6>2 DEF Begin, Goto, RequestState
          <6>3. ASSUME PreloadLocations(p)  PROVE req'[p].pc \in {"drop", "idle"}
            BY <6>1, <6>3 DEF PreloadLocations, Done, Idle, RequestState
          <6>4. ASSUME Drop(p)  PROVE req'[p].pc \in {"dropped", "idle"}
            BY <6>1, <6>4 DEF Drop, Done, Idle, RequestState
          <6>5. ASSUME \/ Create(p) \/ CreateFails(p) \/ CountAdded(p) \/ Prune(p) \/ PruneFails(p)
                       \/ CountDropped(p) \/ DeleteItems(p) \/ CountDeleted(p) \/ DeleteUser(p)
                PROVE  req'[p].pc \in {"added", "preload", "prune", "deleted", "drop", "idle", "count"}
            BY <6>5, After DEF Create, CreateFails, CountAdded, Prune, PruneFails, CountDropped,
                               DeleteItems, CountDeleted, DeleteUser
          <6>6. req'[p].pc \notin {"set", "countV2", "add"}
            BY <2>3, <5>2, <6>2, <6>3, <6>4, <6>5 DEF Step
          <6> QED BY <4>2, <6>6 DEF Snapshot
        <5> QED BY <5>1, <5>2
      <4> QED BY <4>1, <4>2
    <3> QED BY <3>4, <3>5
  <2> QED BY <2>1, <2>2, <2>3 DEF Next
<1> QED BY <1>2, <1>3 DEF Accounted

(* When nothing is under way the gauges say how many rows there are, for   *)
(* any finite number of requests of both API versions, until v1 counts     *)
(* what did not happen or a deletion of an account meets another request.  *)
THEOREM GaugesTellTheTruth ==
  ASSUME IsFiniteSet(Request)
  PROVE  Spec => []GaugesTrue
<1> DEFINE Inv == Typing /\ Losses /\ Within /\ Accounted
<1>1. Init => Inv
  BY TypingInit, LossesInit, WithinInit, AccountedInit
<1>2. Inv /\ [Next]_vars => Inv'
  BY TypingNext, LossesNext, WithinNext, AccountedNext DEF Losses
<1>3. Inv => GaugesTrue
  <2> SUFFICES ASSUME Inv, ~miscounted, \A r \in Request : At(r, "idle"), NEW t \in DataType
               PROVE  gauge[t] = Cardinality(Rows(t))
    BY DEF GaugesTrue
  <2>1. Balanced(t)
    BY DEF Accounted, Anew, At
  <2>2. \A r \in Request : Adds(req[r], t) = 0 /\ Takes(req[r], t) = 0
    BY OwesNothing DEF At
  <2>3. Sum(Added(t)) = 0 /\ Sum(Taken(t)) = 0
    <3>1. \A r \in Request : Added(t)[r] = 0 /\ Taken(t)[r] = 0
      BY <2>2 DEF Added, Taken
    <3> QED BY <3>1, SumOfNothing
  <2>4. gauge[t] \in Int /\ Cardinality(Rows(t)) \in Int
    <3>1. Rows(t) \in SUBSET DOMAIN items
      BY DEF Rows, Typing, TypeOK
    <3> QED BY <3>1, RowsFinite DEF Typing, TypeOK
  <2> QED BY <2>1, <2>3, <2>4 DEF Balanced
<1> HIDE DEF Inv
<1> QED BY <1>1, <1>2, <1>3, PTL DEF Spec
=============================================================================

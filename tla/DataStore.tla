----------------------------- MODULE DataStore -----------------------------
(***************************************************************************)
(* The items of an account and the gauges that count them:                 *)
(* user/data_type.go, the data operations of user/user_repository.go (both *)
(* API versions), user/messages.go and user/user_metrics.go.               *)
(*                                                                         *)
(* An upload inserts its rows, adds them to the gauge, prunes the store to *)
(* its newest rows and takes what that deleted off the gauge: four steps,  *)
(* between which any other request may run or the server may stop.  API v2 *)
(* prunes in one transaction; API v1 loads the list of rows and deletes    *)
(* the oldest ones one by one.  Deleting any account sets the gauges anew  *)
(* from the tables.                                                        *)
(*                                                                         *)
(* The items of one account are modelled, and other accounts only as far   *)
(* as their deletion touches the gauges.  Pictures are kept as locations   *)
(* are, and messages to the owner as commands are, without a limit.  What  *)
(* an item says and its client's id are left out: an insert that the       *)
(* unique index refuses is one of the inserts that may fail.               *)
(***************************************************************************)
EXTENDS Integers, FiniteSets, FiniteSetsExt

CONSTANTS
  Request,     \* requests that may be in flight together
  maxSavedLoc, \* how many locations an account keeps
  MaxBatch,    \* bound: items in one upload
  MaxId        \* bound: rows ever inserted

ASSUME DataStoreAssumption == {maxSavedLoc, MaxBatch, MaxId} \subseteq Nat

KEEP_ALL == 0
DataType == {"command", "location"}
(* The tables, each divided by type: data_v2, and locations of API v1.     *)
Store == {<<"v2", t>> : t \in DataType} \cup {<<"v1", "location">>}

VARIABLES
  items,       \* history: row id -> the store it was inserted into
  alive,       \* the rows that are in the tables
  gone,        \* the account has been deleted
  gauge,       \* metrics.PendingCommands and metrics.Locations
  req,         \* what each request is doing
  erased,      \* history: rows that were deleted because somebody asked for it
  unpruned,    \* history: stores whose last upload did not get to its pruning, or
               \* was refused a part of it
  miscounted   \* history: a gauge was changed by what had not happened, or
               \* while it was being set anew; cleared by a restart

vars == <<items, alive, gone, gauge, req, erased, unpruned, miscounted>>

Id == 1..MaxId
In(s) == {i \in alive : items[i] = s}
Rows(t) == {i \in alive : items[i][2] = t}

PC == {"idle", "create", "added", "prune", "preload", "drop", "dropped", "delete", "deleted",
       "deleteUser", "count", "set", "countV2", "add"}
(* The store it is about, how many rows its last statement affected, the   *)
(* rows it is going to delete, and the counts it has read.                 *)
RequestState == [pc : PC, store : Store, n : Nat, list : SUBSET Id, count : [DataType -> Nat]]
Zero == [t \in DataType |-> 0]
Idle == [pc |-> "idle", store |-> <<"v2", "command">>, n |-> 0, list |-> {}, count |-> Zero]

TypeOK ==
  /\ DOMAIN items \in {1..n : n \in 0..MaxId} /\ items \in [DOMAIN items -> Store]
  /\ alive \subseteq DOMAIN items /\ erased \subseteq DOMAIN items \ alive
  /\ gone \in BOOLEAN
  /\ gauge \in [DataType -> Int]
  /\ req \in [Request -> RequestState]
  /\ unpruned \subseteq Store
  /\ miscounted \in BOOLEAN

Init ==
  /\ items = [i \in {} |-> <<>>] /\ alive = {} /\ gone = FALSE
  /\ gauge = Zero
  /\ req = [r \in Request |-> Idle]
  /\ erased = {} /\ unpruned = {} /\ miscounted = FALSE

At(r, pc) == req[r].pc = pc
Goto(r, pc) == req' = [req EXCEPT ![r].pc = pc]
Affected(r, pc, n) == req' = [req EXCEPT ![r].pc = pc, ![r].n = n]
Done(r) == req' = [req EXCEPT ![r] = Idle]

(* A request changes a gauge, once its statement has affected n rows.      *)
SettingAnew(r) == \E s \in Request \ {r} : req[s].pc \in {"set", "countV2", "add"}
Adjust(r, n) ==
  /\ gauge' = [gauge EXCEPT ![req[r].store[2]] = @ + n]
  /\ miscounted' = (miscounted \/ SettingAnew(r))
-----------------------------------------------------------------------------
(* A request arrives, and its account was there when it was read.          *)
Begin(r) ==
  /\ At(r, "idle") /\ ~gone
  /\ \/ \E s \in Store, pc \in {"create", "delete"} :
          req' = [req EXCEPT ![r].pc = pc, ![r].store = s]
     \/ Goto(r, "deleteUser")
  /\ UNCHANGED <<items, alive, gone, gauge, erased, unpruned, miscounted>>

(* AddDataV2 inserts all its items or none: some client item id is taken,  *)
(* in whichever type, the account is gone, or the database is busy.  v1    *)
(* inserts one row, and does not look at what came of it.                  *)
AnyKey == TRUE                                     \* mutant: foreign keys are off
ForeignKey == ~gone
BatchSize(s) == IF s[1] = "v1" THEN 1..1 ELSE 1..MaxBatch
Create(r) ==
  LET s == req[r].store
  IN  /\ At(r, "create") /\ ForeignKey
      /\ \E n \in BatchSize(s) :
           LET last == Cardinality(DOMAIN items)
           IN  /\ last + n <= MaxId
               /\ items' = [i \in 1..last + n |-> IF i <= last THEN items[i] ELSE s]
               /\ alive' = alive \cup (last + 1..last + n)
               /\ Affected(r, "added", n)
      /\ unpruned' = unpruned \cup {s}
      /\ UNCHANGED <<gone, gauge, erased, miscounted>>

CreateFails(r) ==
  /\ At(r, "create")
  /\ IF req[r].store[1] = "v1" THEN Affected(r, "added", 0) ELSE Done(r)
  /\ UNCHANGED <<items, alive, gone, gauge, erased, unpruned, miscounted>>

(* v1 counts one row whatever the insert did.                              *)
CountAdded(r) ==
  /\ At(r, "added")
  /\ IF req[r].store[1] = "v1"
     THEN /\ gauge' = [gauge EXCEPT !["location"] = @ + 1]
          /\ miscounted' = (miscounted \/ SettingAnew(r) \/ req[r].n = 0)
          /\ Affected(r, "preload", 0)
     ELSE Adjust(r, req[r].n) /\ Affected(r, "prune", 0)
  /\ UNCHANGED <<items, alive, gone, erased, unpruned>>

NumToKeep(t) == IF t = "location" THEN maxSavedLoc ELSE KEEP_ALL

(* TypedStore.Prune deletes all but the newest rows of the store.  The     *)
(* transaction may fail; the rows then stay.                               *)
ScopeOfUser(s) == {i \in alive : items[i][1] = s[1]}     \* mutant: the type is left out
Scope(s) == In(s)
SurplusLate(rows, keep) == {i \in rows : Cardinality({j \in rows : j > i}) > keep}   \* mutant
Surplus(rows, keep) == {i \in rows : Cardinality({j \in rows : j > i}) >= keep}

Prune(r) ==
  /\ At(r, "prune")
  /\ LET s    == req[r].store
         keep == NumToKeep(s[2])
         out  == IF keep = KEEP_ALL THEN {} ELSE Surplus(Scope(s), keep)
     IN  /\ alive' = alive \ out
         /\ Affected(r, "deleted", Cardinality(out))
         /\ unpruned' = unpruned \ {s}
  /\ UNCHANGED <<items, gone, gauge, erased, miscounted>>

PruneFails(r) ==
  /\ At(r, "prune")
  /\ Affected(r, "deleted", 0)
  /\ UNCHANGED <<items, alive, gone, gauge, erased, unpruned, miscounted>>

(* pruneLocations: the list is loaded by all the columns of the account's  *)
(* copy, and is empty if the row has changed since.  A limit of 0 keeps    *)
(* nothing here.                                                           *)
PreloadLocations(r) ==
  /\ At(r, "preload")
  /\ \/ /\ req' = [req EXCEPT ![r].pc = "drop", ![r].list = Surplus(In(req[r].store), maxSavedLoc)]
        /\ unpruned' = unpruned \ {req[r].store}
     \/ Done(r) /\ UNCHANGED unpruned
  /\ UNCHANGED <<items, alive, gone, gauge, erased, miscounted>>

(* The deletion of a row may be refused; nobody is told (FMDDB.Delete), and*)
(* the loop goes on.                                                       *)
Drop(r) ==
  /\ At(r, "drop")
  /\ \/ req[r].list = {} /\ Done(r) /\ UNCHANGED <<alive, unpruned>>
     \/ LET i == Min(req[r].list)
        IN  /\ req[r].list # {}
            /\ \E out \in {alive \cap {i}, {}} :
                 /\ alive' = alive \ out
                 /\ unpruned' = unpruned \cup {s \in {req[r].store} : i \in alive'}
                 /\ req' = [req EXCEPT ![r].pc = "dropped", ![r].list = @ \ {i},
                                       ![r].n = Cardinality(out)]
  /\ UNCHANGED <<items, gone, gauge, erased, miscounted>>

CountDropped(r) ==
  /\ At(r, "dropped")
  /\ gauge' = [gauge EXCEPT !["location"] = @ - 1]
  /\ miscounted' = (miscounted \/ SettingAnew(r) \/ req[r].n = 0)
  /\ Affected(r, "drop", 0)
  /\ UNCHANGED <<items, alive, gone, erased, unpruned>>
-----------------------------------------------------------------------------
(* DeleteAllDataV2, DeleteSingleDatumV2, DeleteSingleMessage, and the ones *)
(* of v1 that delete all: the gauge loses as many as the statement deleted,*)
(* none if it is refused.                                                  *)
Targets(s) ==
  {In(s), {}} \cup (IF s[1] = "v2" THEN {{i} : i \in In(s)} ELSE {})
DeleteItems(r) ==
  /\ At(r, "delete")
  /\ \E out \in Targets(req[r].store) :
       /\ alive' = alive \ out
       /\ erased' = erased \cup out
       /\ Affected(r, "deleted", Cardinality(out))
  /\ UNCHANGED <<items, gone, gauge, unpruned, miscounted>>

(* Two at once may both find the rows, and each counts its own.            *)
CountOnce(r) ==                                    \* mutant: as if one row was deleted
  /\ At(r, "deleted") /\ Adjust(r, -1) /\ Done(r)
  /\ UNCHANGED <<items, alive, gone, erased, unpruned>>
CountDeleted(r) ==
  /\ At(r, "deleted") /\ Adjust(r, -req[r].n) /\ Done(r)
  /\ UNCHANGED <<items, alive, gone, erased, unpruned>>

(* DeleteUser, for this account or for another one; the rows go with the   *)
(* account.  If it is gone already, or the database refuses, that is an    *)
(* error.                                                                  *)
DeleteUser(r) ==
  /\ At(r, "deleteUser")
  /\ \/ Goto(r, "count") /\ UNCHANGED <<alive, gone, erased>>
     \/ /\ ~gone /\ gone' = TRUE
        /\ alive' = {} /\ erased' = erased \cup alive
        /\ Goto(r, "count")
     \/ Done(r) /\ UNCHANGED <<alive, gone, erased>>
  /\ UNCHANGED <<items, gauge, unpruned, miscounted>>

(* initializeUserMetrics: for each gauge the rows of v1 are counted, the   *)
(* gauge is set, the rows of v2 are counted and added.                     *)
Counted(v) == [t \in DataType |-> Cardinality({i \in alive : items[i] = <<v, t>>})]
Owing(r) ==
  \E s \in Request \ {r} :
    req[s].pc \in {"added", "dropped", "deleted", "count", "set", "countV2", "add"}
Recount(r, pc, v) ==
  /\ req' = [req EXCEPT ![r].pc = pc, ![r].count = Counted(v)]
  /\ UNCHANGED gauge

InitializeUserMetrics(r) ==
  /\ \/ At(r, "count") /\ Recount(r, "set", "v1")
     \/ At(r, "set") /\ gauge' = req[r].count
        /\ req' = [req EXCEPT ![r].pc = "countV2", ![r].count = Zero]
     \/ At(r, "countV2") /\ Recount(r, "add", "v2")
     \/ At(r, "add") /\ gauge' = [t \in DataType |-> gauge[t] + req[r].count[t]] /\ Done(r)
  /\ miscounted' = (miscounted \/ Owing(r))
  /\ UNCHANGED <<items, alive, gone, erased, unpruned>>

(* The process dies and starts again.                                      *)
Restart ==
  /\ req' = [r \in Request |-> Idle]
  /\ gauge' = [t \in DataType |-> Cardinality(Rows(t))]
  /\ unpruned' = unpruned \cup {req[r].store : r \in {q \in Request : req[q].pc \in {"drop", "dropped"}}}
  /\ miscounted' = FALSE
  /\ UNCHANGED <<items, alive, gone, erased>>

Step(r) ==
  \/ Begin(r) \/ Create(r) \/ CreateFails(r) \/ CountAdded(r)
  \/ Prune(r) \/ PruneFails(r) \/ PreloadLocations(r) \/ Drop(r) \/ CountDropped(r)
  \/ DeleteItems(r) \/ CountDeleted(r) \/ DeleteUser(r) \/ InitializeUserMetrics(r)

Next == (\E r \in Request : Step(r)) \/ Restart

Spec == Init /\ [][Next]_vars
-----------------------------------------------------------------------------
(* No upload is still to be pruned.                                        *)
Pruned(s) == \A r \in Request :
  req[r].store = s => req[r].pc \notin {"added", "prune", "preload", "drop", "dropped"}

(* However uploads cross each other and deletions, once they are through a *)
(* store holds no more locations than the limit, unless its last pruning   *)
(* was skipped, cut short or refused; the next one makes up for that.      *)
LimitKept ==
  \A s \in Store \ unpruned :
    NumToKeep(s[2]) # KEEP_ALL /\ Pruned(s) => Cardinality(In(s)) <= NumToKeep(s[2])

(* Nothing is lost that should be kept: a row that nobody asked to delete  *)
(* disappears only when as many newer ones of its own store as the limit   *)
(* says have been stored, and where there is no limit, never.              *)
NewestKept ==
  \A i \in DOMAIN items \ (alive \cup erased) :
    /\ items[i][2] = "location"
    /\ Cardinality({j \in DOMAIN items : j > i /\ items[j] = items[i]}) >= maxSavedLoc

(* An upload that was let in before the account was deleted leaves nothing *)
(* behind that belongs to nobody.                                          *)
NoOrphans == gone => alive = {}

(* When nothing is under way the gauges say how many rows there are,       *)
(* however the requests of API v2 crossed each other; until v1 counted an  *)
(* insert or a deletion that did not happen, or a gauge was changed while  *)
(* the deletion of an account set it anew.  A restart puts it right.       *)
GaugesTrue ==
  ~miscounted /\ (\A r \in Request : At(r, "idle")) =>
    \A t \in DataType : gauge[t] = Cardinality(Rows(t))
=============================================================================

# ibasho-server in TLA+

Specifications, model checks and proofs for ibasho-server: a server that keeps the encrypted
places of lost phones and of family members (`user/`, `backend/`), a bridge for iPhones
(`overland/`), and a web page (`web/`). The modules are written from the source; each definition
that models code is listed with its lines under `map` in `PROJECT.json`.

## 1. The system

One Go process serves HTTP over one SQLite file. `net/http` runs every request in a goroutine of
its own; nothing serialises them. They share

- the database, through gorm: one statement or one explicit transaction at a time is atomic, a
  sequence of them is not;
- two Go maps in memory, `accessTokens` and `lockedUsers`, without a lock.

| Component | State | Operations | What is hard about it |
| --- | --- | --- | --- |
| Account table (`user/userDB.go`) | `fmd_users`, one row per account, name unique | `GetByName`, `Save`, `Create`, `Delete` | `Save` writes all columns of a copy, and inserts the row when it is gone; errors of `Save`, `Create` and `Delete` are dropped |
| Accounts and sessions (`user/user_repository.go`, `user/access.go`) | rows, tokens, lock entries | register, login, lockout and notification, token check, password change, logout, delete, expiry | every authenticated request reads the row and writes it back (`LastSeenTime`); check-then-act on maps and rows; a restart loses maps and requests |
| Family sharing (`user/family.go`) | identity and pause in the row, `family_locations` | `SetIdentity`, `SetPaused`, `PutSealed`, cascade | careful transactions next to the whole-row writes of all other handlers; uploads out of order; audience; clock skew |
| Item stores (`data_type.go`, `messages.go`) | `data_v2`, `locations`, `pictures`, messages, gauges | create, prune, delete | create and prune of several uploads interleave; gauges follow beliefs, not rows |
| Command slot and push | one command in the row | post, read-and-clear, push | two readers; push and gauge before the save, which may be refused; the recount of the gauge when any account is deleted |
| Migrations | schema, version | steps at start-up | crash before the version is written |
| Overland bridge (`overland/`) | phone's queue, per-device session under a mutex, pins | batch, store with one re-login, share the newest | the phone times out and sends again while the first handler still runs; part of a batch fails; the server answers ok for a point its database refused |
| Web device list (`web/src/lib/family.ts`) | sealed list, wrap key, secrets in IndexedDB | unlock, lock, refresh, add, remove | promises that finish after a lock or a removal |
| Web people, web session, pages, crypto, CLI, configuration | – | – | see `components` |

What makes them correct, in short: a session belongs to the present password of a present account; a
deleted account stays deleted; a password changes only when asked; lock and notification are bounded;
names are unique; a sealed copy joins two existing accounts, is never replaced by an older one, and
exists only while the owner has a key and has not paused; the phone drops a point only when the server
has confirmed it; a phone that is woken for a command gets it; a gauge says what the table says; the version of the schema is never ahead of it; a browser
that is logged out keeps only what its owner's password opens.

`hazards` in `PROJECT.json` lists where each of these can go wrong, by line, with the properties that
watch over it. Nearly all of them come from one pattern: *state read, then something else runs, then
the state is used*.

## 2. Modules

| Module | Models | State and actions |
| --- | --- | --- |
| `FMDDB` | the account table as gorm uses it | operators on a function from row ids to rows: one operator per SQL statement |
| `UserRepository` | accounts, sessions, lockout | a *request slot* is one goroutine with its private copy of the row; its `pc` names the statement it runs next; `users`, `accessTokens`, `lockedUsers` are the shared state |
| `SealedBoard` | what family sharing promises | abstract: at most one copy for each owner and viewer; join, key once, pause, resume, share, leave |
| `Family` | `user/family.go` among the other handlers | request slots as above, the sharing columns of the row, `copies`, the clock; instantiates `SealedBoard` under a refinement mapping |
| `Overland` | the bridge for one device, with the phone and the server as environment | handlers with their `pc`, the session's mutex and token, the phone's queue, the server's history, and what the server has confirmed, which is not the same |
| `Mailbox` | what the command slot promises | abstract: one place; a message waits until a newer one replaces it or it is taken |
| `Commands` | the pending command, its gauge, the push URL and the pushes | request slots over one row, the gauges, the wake-up on its way; instantiates `Mailbox` |
| `DataStore` | locations and commands of both APIs, pruning, gauges, deletion of accounts | request slots; the rows by their ids, the list of rows API v1 is about to delete, the counts a deletion has read |
| `Migrations` | opening the database | processes; the statements that have shaped the tables, the version row |
| `DeviceList` | `web/src/lib/family.ts` with login and logout of `store.ts` | calls of async functions; an action runs from one `await` to the next; localStorage, IndexedDB and the module's variables |
| `Extremes` | – | what `Max` and `Min` of the community modules return |
| `..._proofs` | – | the theorems about the module of that name |
| `MC...` | – | model values, symmetry sets and, where a run ends early, its specification |

`FMDDB` is shared by `UserRepository` and `Family`. `UserRepository`, `Family`, `Commands` and `DataStore`
look at different columns and tables of the same database and are checked apart: sessions do not depend
on the sharing columns, nor sharing on sessions (in the last three anyone may send a request for any
account that exists). The row that is read, changed and saved whole is in each of
the first three.

How a request of `UserRepository` maps to the code: `CheckAccessToken`, `GetUser`, `Touch` are the three
statements of `CheckAccessTokenAndGetUser`, which every authenticated handler runs first. After it
comes the handler's own step. `RequestAccess` is read the row (`PostLogin`, or `InitialSession` at
the end of a registration or password change over API v2), ask the lock (`CheckLock`), compare
(`LoginSucceeds`, `LoginFails`), count (`IncrementLock`), look at the lock again (`Notify`).

### Abstractions

- **Atomic steps.** One SQL statement, or one gorm transaction, is one step. One operation on a Go map is
  one step too, except the read and the later write of `IncrementLock`, which are two: there the
  window matters. Two neighbouring map operations that no other request can tell apart are one step
  (`ResetLock` with `CreateNewAccessToken`; the clean-up after a deletion). In the browser, what
  runs between two awaits is one step: JavaScript has one thread.
- **Data races.** The maps have no lock. Go either lets two writes through or stops the process; the
  second is covered by `Restart`, which is enabled everywhere.
- **Time** in `UserRepository` is abstract: a token or a lock entry may expire at any moment, which
  includes every real schedule. In `Family` it is a counter, because the allowance for fast clocks
  is a property.
- **Passwords** stand for their hashes, identities for key pairs, a copy for its time, the secrets of a
  device for the password they were made with: nothing else of them is ever compared.
- **Errors that are dropped.** `FMDDB.Save`, `Create` and `Delete` return no error (`user/userDB.go:210-225`), so
  wherever a module calls one, the table may also stay as it was while the handler goes on as if it
  had not. `Commands` bounds how often (`MaxRefusal`); the others do not. Reads are taken to succeed,
  except that of the version in `Migrations`, which changes what runs.
- **History variables** (`stale`, `miscounted`, `taken`, `due`, `notices`, `confirmed`, `forsaken`, `erased`,
  `unpruned`, `disturbed`, the account and password in a session, the author of an entry) are written
  and never read by an action. `stale` becomes true when a request uses a copy of a row that is
  no longer what the table holds, `disturbed` of `DeviceList` when a call goes on to write after
  it was overtaken; many guarantees hold up to that moment, and section 3 says what happens after it.
- **An empty command** over API v1, which would be stored and not counted, is left out of `Commands`: no
  client of the repository sends one.
- **A limit of 0** keeps everything in the store of API v2 (`KEEP_ALL`) and nothing in that of v1;
  `DataStore` has both, and its theorems hold for every limit.
- **gorm, SQLite, IndexedDB, the Overland app, the push service** are external, modelled from how the
  code uses them.

## 3. Runs

| Run | Bounds | Shows |
| --- | --- | --- |
| `accounts_concurrent` | two requests of any kind, both APIs, 1 name, 2 passwords, 2 rows, 2 tokens, lock at 2 | sessions follow passwords up to the first use of an outdated copy; deletion is final, passwords change only as asked; names are unique always; the lock is overshot and notified by no more than the requests in flight |
| `sharing_serial` | one request, 2 names, 2 keys, 3 rows, time 2, clock skew 1 | no outdated copy is ever used, and the server implements `SealedBoard` |
| `sharing_concurrent` | two requests, 2 names, 2 keys, 3 rows, time 1, clock skew 1 | every step is a step of the board until an outdated copy is written back; copies join existing accounts always |
| `batches` | two handlers, 3 points, the second malformed | the phone drops only what was confirmed, but for points that failed beside a stored one; what the bridge shares and shows was confirmed; the mutex is given back on every path |
| `batches_settle` | two handlers, 2 points, the older malformed, fairness | every batch is answered; once nothing fails, what is in the queue and can be converted gets into the history, also behind the malformed point |
| `commands` | two requests, 2 commands, 2 push services, 1 restart, 1 refused save | the slot is a mailbox until an outdated copy is written back; a wake-up is not used up with the command left behind, unless a push or a fetch fails; the gauges tell the truth until what was counted is refused, undone or crossed by a recount |
| `items` | two requests of both APIs, limit 1, 3 rows, 2 in one upload, gauges within 3 of nought | the limit is kept unless part of the last pruning was refused or cut short, only the oldest go, nothing outlives the account, the gauges are right until v1 counts what did not happen or a recount is crossed |
| `migrations` | two processes, 3 starts, a file of every version, fairness | the version is never ahead of the schema; only interrupted, crossing or refused migrations make a start fail; one that is left alone gets through |
| `devices` | two calls in flight, 2 users of one browser, 1 device, 2 device passwords, 1 own password each | a logout leaves only sealed lists; the list shown is the one kept; working copies follow it; nobody gets another one's devices; automatic log-ins stop |

Why the bounds are enough: the hazards are races of two requests (handlers, processes, calls) about one
thing, so two of them and one or two names reach all of them; a third row lets an id be used after a
deletion and a re-registration, or lets a limit of one be exceeded by two; three starts let an interrupted
migration be met by two more. The properties of `devices` were also checked once with two devices (one user, one
password) and with three calls (one user, one device, two own passwords), which are too large to
keep. The proofs (section 5) remove the bounds. `MaxId`, `MaxToken`, `MaxCount`, `MaxTime`, `MaxPoint`,
`MaxCommand`, `MaxRestart`, `MaxRefusal`, `MaxBatch`, `MaxStart` and, for the run only, `MaxDrift` only cap counters:
an action that would exceed one is disabled. `commands` and `devices` end at the first `stale` or
`disturbed` state, about which their properties say nothing (`UndisturbedSpec` in their MC modules); the theorems
about the two modules are about the whole `Spec`.

### What the code does not keep

These runs check a sentence of the repository and find it violated. Each is listed under `findings`.

| Run | Sentence | What happens |
| --- | --- | --- |
| `two_sessions` | `user/user_repository.go:125` revoke all active sessions | a login that compared before the change opens its session after it |
| `batch_partial` | `overland/main.go:287` no ok when we failed to store | a batch with one stored and one failed point is answered ok |
| `migrations_hash` | `user/user_repository.go:457` `migrateToV2Passwords` should ensure that all users have a salt | it runs before the migrations that add the columns it saves, the database refuses every save, nobody looks, and the version is written |

What the provisos stand for, that is, what TLC shows in the same models when a proviso is left out, and
one more. Each proviso excludes a hazard that the code really has; such a hazard is listed under `hazards`
without a property, or with a note that says which part of it the named properties leave out.

- `stale`: `u.UB.Save(&user)` at `user/user_repository.go:54` writes every column in order to change
  one. A copy read before can put back an old password or pause flag, erase an identity so that the next
  one wins, insert a deleted account again, or bring back a command that was fetched.
- `miscounted` of `UserRepository`: two failures that read the same count are counted as one, so that the
  lock comes late. (That two failures in flight at the last attempt are both notified needs no proviso:
  `NoticesBounded` allows one notice for each request in flight.)
- `miscounted` of `DataStore`: two prunings of API v1 that loaded the same rows count both, a refused insert or
  deletion of v1 is counted all the same, and a gauge that is changed while the deletion of an account
  sets it anew stays wrong until a restart.
- `miscounted` of `Commands`: a save is refused after its command was counted, two requests count
  on copies of one row, or the deletion of another account counts the table between the count and the
  save of a command.
- `forsaken` of `Overland`: a point that failed in a batch that was answered ok because another point of it was
  stored; the run `batch_partial`. `confirmed` is weaker than stored for a reason: `AddLocation`
  drops the error of its insert (`user/userDB.go:214-216`) and `postLocation` answers 200 all the same
  (`backend/apiv1.go:144-145`), so that the bridge cannot know better. TLC finds a dropped point that is not
  in the history as soon as `confirmed` is replaced by `stored`.
- `unpruned` of `DataStore`: an upload whose pruning failed, was refused a deletion, or was cut short by a
  restart leaves the store above its limit until the next upload.
- `due` of `Commands` excludes a wake-up that comes before its command is saved, a push that fails, and a
  fetch that ends with its save refused: in each the command may wait until somebody asks anyway.
- a refused save needs no proviso in `UserRepository`: a password change that is refused still revokes
  the sessions, and the old password stays in force.
- `disturbed` of `Migrations`: an interrupted migration is run again from its first statement, as is a
  migration whose version could not be read or written, and `ALTER TABLE` on a column that is there is
  fatal at every later start.
- `disturbed` of `DeviceList`: a refresh that ends after a logout stores its keys again; a `writeList`
  that was overtaken seals an old list; a list that is open is opened again with another key; and
  an addition that ends while the sealed list is still being opened seals a list of one device in its
  place. The last one needs two devices. The inductive invariant of the working copies is what
  pointed at it: without it, "an open list holds all that is sealed" is not preserved.
- `abandoned` of `DeviceList`: the page ends between a logout and the clearing of IndexedDB.
- no proviso is needed for this one: a list that was sealed with another key is not opened, and the first
  device that is added replaces it, although `web/src/lib/family.ts:168` says of it that "It stays where
  it is, unread, rather than being thrown away on a guess". TLC shows it with a single call in flight and
  two own passwords.

## 4. Fairness

The safety runs assume none: a server may stop at any time. Two modules state fairness.

`Overland`, `FairSpec`: weak fairness of every handler's steps, because the Go scheduler runs what can run and
every HTTP call has a time-out, so that it ends one way or another; strong fairness of taking the mutex,
because `sync.Mutex` hands over to a waiter that has waited for a millisecond; weak fairness of
sending, because the app sends as long as it has something. `QueueIsStored` is about the time after
`Settle`, from which on nothing fails; that this time comes is not assumed. It leaves out
what an earlier answer had the phone drop: points that were confirmed, or that failed beside a stored one.

`Migrations`, `FairSpec`: weak fairness of a process's steps. A process may still be stopped anywhere, which is
what the `disturbed` in `UpgradeHappens` is for.

## 5. Proofs

Each `..._proofs` module holds for every number of requests (handlers, processes, calls) and of names, keys,
points, rows, devices and passwords, and for all bounds. The only assumptions are the named ones of the
modules, which TLC evaluates in the runs, and these hypotheses of single theorems: `IsFiniteSet(Request)`
for the two about gauges and `IsFiniteSet(Task)` for `GuessesBounded`, because they count; and `Alone`, a
single request slot, for `AloneOnBoard`, which is what that theorem is about (without it the
refinement is false, and `EveryStepOnBoard` says up to where it holds). Each theorem combines an initial case,
a step for every action, and PTL; facts about an operator that several steps need are lemmas.

| Module | Theorem | States | Inductive invariant and why it is needed |
| --- | --- | --- | --- |
| `UserRepository_proofs` | `RequestsWellFormed`, `TypesCorrect` | `TypeOK` | `Typing`: types, and for each `pc` what the request must carry. `TypeOK` alone is not inductive: `Save` needs `row` to be a row |
| | `NamesCorrect`, `AccountsUnique` | `OneAccountPerName` | `Naming`: a row's name never changes, so a copy has the name its row was inserted under, even when it is outdated |
| | `SessionsCorrect` | `SessionsFollowPassword` | itself over `Typing` and `Naming`: a session may break it only through `UpdateUserPassword` or `DeleteUser`, and then the request that did it is at `resetTokens` or `forget` with that name |
| | `DeletionIsFinal`, `PasswordsChangeAsAsked` | the two action properties | step lemmas over `Naming` |
| | `OneAtATimeIsSafe` | `AloneNeverStale` | `AloneFresh`: with one slot, the copy is current from its read to its last use |
| | `LockCorrect`, `GuessesBounded`, `NotificationsBounded` | `AttemptsBounded`, `NoticesBounded` | `LockInv`: the count plus the requests that have passed the check stays below the limit plus their number; the notices plus the requests about to notify likewise |
| `Family_proofs` | `RequestsWellFormed`, `TypesCorrect` | `TypeOK` | `Typing`, as above |
| | `TablesConsistent`, `EveryCopyBelongs`, `NoCopyFromTheFuture`, `SharersStaySound` | `CopiesBelong`, `NoneFromTheFuture`, `SharersAreSound` | `Boarded`, the three together: an upload adds copies only for accounts that exist because the cascade removed the others |
| | `IdentitiesAreKept`, `EveryStepOnBoard` | `IdentityIsKept`, `StepsOnBoard` | one lemma per action: it is a step of the board or a stutter |
| | `AloneIsNeverStale`, `AloneOnBoard` | `AloneNeverStale`, `ImplementsBoard` | `HoldsFresh`: the copy a request holds is the row in the table |
| `Overland_proofs` | `BridgeConsistent`, `NothingDroppedUnconfirmed`, `ClaimsAlwaysConfirmed`, `MutexAlwaysFollows`, `OneTalksAtATime` | `DroppedIsConfirmed`, `ClaimsAreConfirmed`, `MutexFollowsHandler` | `Consistent`: each point a handler has behind it in its batch is confirmed or among those that failed; its newest point is confirmed |
| `Commands_proofs` | `CommandsInOnePlace`, `TypesCorrect`, `SlotIsMailbox` | `StepsOfMailbox` | `Slot`: commands are numbered, and each is with the request that brings it, in the row, or taken; in two of these only where a save was refused |
| | `WakeUpsAreUsed` | `NoWakeUpWasted` | itself over `Slot`: a fetch that found the command is ended only by clearing it |
| | `GaugesTellTheTruth` | `GaugesTrue` | `Accounted`: the gauge is ahead of the row by the commands that are counted and not yet saved, and behind it by those handed out and not yet cleared; a request that recounts holds the number it read, which nobody has changed since |
| `DataStore_proofs` | `StoresInOrder`, `TypesCorrect`, `NobodysRowsAreGone`, `NewestAreKept`, `LimitIsKept` | `NoOrphans`, `NewestKept`, `LimitKept` | `Losses`: every row on a list to be deleted has enough newer ones; `Within`: what is above the limit is on the list of a request of v1 |
| | `GaugesTellTheTruth` | `GaugesTrue` | `Accounted`: gauge and table differ by the sum of what the requests in flight still owe, as the size of a set of pairs, so that no recursion is needed |
| `Migrations_proofs` | `MigrationsInOrder`, `TypesCorrect`, `VersionIsAlwaysTrue` | `VersionIsTrue` | `InOrder`: what a process has behind it, and what it takes for granted since it read the version, is applied. It needs no proviso, whoever migrates beside it |
| | `OnlyDisturbedFail` | `FailsOnlyDisturbed` | `Undisturbed`: one process migrates, and the altered columns are exactly those of the version and of the statements behind it |
| `DeviceList_proofs` | `CallsWellFormed`, `TypesCorrect` | `TypeOK` | `Typing`: for each place a call waits at, what it carries |
| | `GuessesBounded` | `AutomaticGuessesBounded` | `Counting`: refusals plus the refreshes in flight stay within the number of calls, until the device is marked |
| | `CallsDoNotCross`, `NothingIsLeft`, `OwnDevicesAlways` | `LockLeavesNothing`, `OwnDevicesOnly` | `Crossless`: a call that was not overtaken belongs to the user who is logged in (`Following`), the open list to its owner (`Own`), what is shown is what is sealed (`Showing`), and after a logout somebody is still clearing what is left (`Clearing`) |
| | `CopiesAreBacked`, `ShownIsKept`, `SecretsFollow` | `KeptAsShown`, `SecretsFollowList` | `Backed`: see below |

The argument of `Backed` is the longest. A working copy in IndexedDB is worth something only as long as the list
has its device. It may be in the list that is sealed under the open key; or in one that a call is about
to seal (`PendingIn`); or nothing is open, and the list that a log-in or a restoration under way is
going to open has it (`Waiting`): `Matching` says that it is in one of the three unless it is about
to be cleared. To carry that through every step one needs what a call in flight relies on (`Relying`: a
list about to be sealed has the device with the password just stored), what the list in memory and the
sealed one have in common before the list is shown (`Agreeing`), that a list about to be sealed has all the other
devices (`Carrying`), and which of the remembered keys is the one the list is open with
(`Remembering`). TLC checked each part on the instances named in section 3 before it was proved.

### Only model-checked

Liveness, which needs ENABLED and is out of the prover's reach: `EveryBatchAnswered`, `QueueIsStored`,
`UpgradeHappens`. Every other property of a passing run is also a theorem. The
violation runs are TLC's by nature.

## 6. Not modelled, and the plan

In this order:

1. `Pins`: planShare, the pin file, the identity cache and the second process (`fmd-overland family`) over
   one file; composed with `Overland` through the upload. The hazards about delayed audiences and
   viewers that are addressed by name belong here.
2. `ctl deleteusers` beside a running server, as an action of `UserRepository`.
3. The people page (`web/src/lib/people.ts`): creating the identity when there is none.
4. The gauges of accounts and sessions, in `UserRepository`.

Left out for good: rendering, routing and JSON, cryptography (pure functions; the modules take hashes and keys as
values), configuration, packaging. `components` in `PROJECT.json` gives the reason for each.

## 7. Running

    tlc -config Accounts_concurrent.cfg MCUserRepository
    tlapm UserRepository_proofs.tla

A configuration `X.cfg` belongs to the module its run names in `PROJECT.json`.

# Formal models of zombiezen.com/go/sqlite

TLA+ models of the parts of this package in which goroutines, processes and
SQLite itself meet, model-checked with TLC on small instances and, for the most
important safety properties, proved with TLAPS for every value of the constants.
Line numbers refer to the sources under `src/`; `PROJECT.json` maps every
definition to the lines it models.

## The system

| Part | State | Operations | What is hard |
| --- | --- | --- | --- |
| Blocking Step (`blocking_step.go`, `sqlite.go`) | an `unlockNote` per connection (`fired`, `wait`, `mu`), SQLite's list of blocked connections | `Step`, `waitForUnlockNotify`, `fireUnlockNote`, `unlockNotifyCallback` | a hand-made condition variable that is signalled from another connection's transaction and from a watcher goroutine |
| Interrupts (`Conn.SetInterrupt`) | `doneCh`, a watcher goroutine with a join handshake | `SetInterrupt`, `cancelInterrupt`, `interrupted` | a watcher of an old `doneCh` racing the installation of a new one |
| Open and close | the note, the statements, global tables | `OpenConn`, `Close` | freeing what callbacks and watchers point to |
| Statements | cache by query, `lastHasRow`, bindings, `bindErr` | `Prep`, `Prepare`, `PrepareTransient`, `Step`, `Reset`, `Finalize` | a cached statement used twice, an interrupt at each call |
| Busy handler | handler per connection | `SetBusyTimeout`, `SetBlockOnBusy` | waiting on a lock while being interrupted |
| `sqlitex.Pool` | `free` channel, `all`, `inited`, `closed` | `NewPool`, `Take`, `Put`, `Close` | contexts that end, users and `Close` competing for one channel |
| Transactions (`sqlitex/savepoint.go`) | autocommit, nesting | `Save`, `Transaction`, `ImmediateTransaction` | rollback of an interrupted connection, panics |
| `sqlitemigration.Migrate` | `user_version`, `application_id`, the schema, foreign key setting | `Migrate` | several processes, crashes, cancellation between any two statements |
| `sqlitemigration.Pool` | `ready`, `retry`, `closed`, the inner pool | `NewPool`, `Take`, `Put`, `Close`, `CheckHealth` | a background opener that retries, is cancelled, or fails half way |
| Execution helpers (`sqlitex/exec.go`, `query.go`, `rand_id.go`) | a bitset of bound parameters | `Execute`, `ExecuteTransient`, `ExecuteScript`, `Result*`, `InsertRandID` | the statement is reset on every path, a `ResultFunc` uses the connection again |
| `sqlitefile` | memory buffers, blobs, positions | `Buffer`, `File` | boundaries of buffers and blobs |
| Blobs | an offset and a C buffer | `OpenBlob`, `Read`, `Write`, `ReadFrom`, `WriteTo`, `Seek` | chunks that fail half way |
| Tables keyed by the connection's address | `allConns`, `busyHandlers`, `authorizers` | `OpenConn`, `Close`, callbacks | an address that is freed and used again |
| Functions, collations, virtual tables, streams | registries indexed by `idGen` | registration, callbacks, destructors | reuse of identifiers, partly failed registrations |
| Sessions | C objects behind Go handles, a pipe | sessions, iterators, changegroups, `ApplyInverseChangeset` | constructors that fail half way, two goroutines on one pipe |
| `ext/generateseries` | plan and cursor | `BestIndex`, `Filter`, `Next` | integer arithmetic at the limits, plans and arguments |
| `backup.go`, serialisation, `ext/refunc`, `result.go`, `op_type.go`, `openflags.go`, `shell`, `cmd` | little | | names, text and I/O |

The pool installs a `doneCh` on a connection for each user; the watcher behind
it calls `sqlite3_interrupt` and fires the `unlockNote`; the migration pool runs
`Migrate` on a connection of a `sqlitex.Pool` and afterwards lends that pool's
connections.

## The modules

| Module | Models | Extends or uses |
| --- | --- | --- |
| `BlockingStep` | connections that share a cache: `Step`, the note, the watcher, `Close` | |
| `BlockingStepProofs` | its theorems | `BlockingStep` |
| `PoolLease` | what `sqlitex.Pool` promises: who has which connection | |
| `Pool` | `sqlitex.Pool` with contexts, watchers and `PrepareConn` | refines `PoolLease` |
| `PoolProofs` | its theorems and the refinement | `Pool` |
| `Migrate`, `MCMigrate` | `Migrate` in several processes on one file | |
| `MigrationPool` | `sqlitemigration.Pool` | built on the actions of `PoolLease` |
| `MigrateProofs` | the theorems of both and of `Session` | `Migrate`, `MigrationPool`, `Session` |
| `File` | `sqlitefile.File` and the file it should behave like | |
| `Buffer` | `sqlitefile.Buffer` and the queue it should behave like | |
| `Blob` | `sqlite.Blob` and the byte slice it should behave like | |
| `FileProofs` | the theorems of `File` and of `ConnTable` | `File`, `ConnTable` |
| `StreamProofs` | the theorems of `Buffer` and `Blob` | `Buffer`, `Blob` |
| `Statements` | the statements of one connection, and the helpers of `sqlitex` that step them | |
| `ExecArgs` | the argument checks of `exec` | |
| `StatementsProofs` | the theorems of both | `Statements`, `ExecArgs` |
| `Savepoint` | `Save`, `Transaction` and `ExecuteScript` as nested scopes | |
| `SavepointProofs` | its theorems | `Savepoint` |
| `OneConn` | what one goroutine does with one connection, for TLC | `File`, `Buffer`, `Blob`, `Statements`, `ExecArgs`, `Savepoint` |
| `ConnTable` | the tables keyed by the address of a connection | |
| `Registry` | `idGen` and the registries of Go objects that SQLite calls back | |
| `Series` | the virtual table `generate_series` | |
| `RegistryProofs` | the theorems of both | `Registry`, `Series` |
| `Session` | the objects of the session extension and what they hold in C | |
| `Boundary` | where Go and SQLite's C code meet, for TLC | `ConnTable`, `Registry`, `Series`, `Session` |
| `Inverse` | `ApplyInverseChangeset` with its goroutine and pipe | |

### BlockingStep

A connection has a user goroutine (`pc`) and, while a `doneCh` is installed, a
watcher (`watcher`). `StepCall`, `StepTest` and `SqliteStep` are `Stmt.Step` and
`Stmt.step`; `ReadFired`, `Relock`, `ClearFired`, `UnlockNotify`, `CheckFired`
and `Wake` are `waitForUnlockNotify`, one step per access to the note, because
it reads and clears `fired` without `un.mu`. `fired` is one byte and the mutex
operations around its accesses are barriers, so interleaving single accesses
covers what the memory model allows. `WatcherSelect`, `WatcherInterrupt`,
`WatcherFire` and `WatcherRelease` are the goroutine of `SetInterrupt`;
`Close` and `FreeNote` are `Conn.Close`. SQLite's part (the lock table, the
callback at the end of a transaction under one global mutex, the circle test of
`sqlite3_unlock_notify`) is modelled from what the code relies on and marked
external. Transactions are explicit: the application ends one with
`EndTransaction`, itself a `Step` that a closed `doneCh` refuses.

Unlocking an unlocked `sync.Mutex` aborts a Go program; `FatalUnlock` models
that and sets `crashed`.

### Pool and PoolLease

Each critical section of `p.mu` is one action; each channel operation and each
call of `SetInterrupt` or of a cancel function is one of its own. A context that
`Take` derives is a number, 0 is the cancel function that does nothing. `Take`
is `TakeCall`, then `TakeReceives` or `TakeFails` (its `select`), `TakeInterrupt`,
`TakeRecord`, `PrepareSucceeds` or `PrepareFails`; `put` is `PutSwap`,
`PutInterrupt`, `PutCancel`, `PutSend`; `Close` is `CloseCall`, `CloseSnapshot`,
one `CloseCancel` per collected function, one `CloseConn` per connection, and
`CloseReturns`. `StepRow` and `ResetRow` stand for queries of the user: `Put`
panics when a statement is active, so `PutCall` needs none.

`PoolLease` knows only the owner of each connection and whether `Close` was
called. `holder` in `Pool` is the refinement mapping.

### Migrate

One step per statement. Every statement may fail, the context of a call may end
before any of them, and a process may crash at any time: SQLite then drops what
was not committed. `AppBegin`, `AppCheck`, `AppCommit` and `AppFails` are
`ensureAppID` in its `ImmediateTransaction`, whose error path takes the `doneCh`
off before the ROLLBACK. The loop of `migrateDB` is `LoopNext` (with `PRAGMA
foreign_keys = off`), `Begin`, `VersionMatches` or `VersionDiffers`, `Script`
(with `PRAGMA user_version`), `RepeatableMigration`, `Commit`, `ForeignKeysOn`;
`FailsOutside` and `FailsInside` are its error paths. `Rollback` is the function
`rollback`, which an ended context makes ineffective. A database is its
`application_id`, its `user_version`, the sequence of scripts that ran, and the
version after which the repeatable migration ran last. `hasSchema` is "a script
has run": scripts are taken to create something. A ROLLBACK that is executed is
taken to succeed.

### MigrationPool

The opener goroutine follows `Pool.open` and the function around it, up to the
deferred `close(ready)` (`Publish`). `migrateDB` appears as `MigrateStarts` (up
to the call of `OnStartMigrate`) and `MigrateSucceeds` or `MigrateFails`; with an
ended context it cannot succeed, which is what `Migrate` shows. Connections are
lent, returned and closed by the actions of `PoolLease`, which `Pool` is proved
to implement. `retry` is the number of elements in the channel; no other bound
is needed, the state space is finite for any number of calls.

### File and Buffer

A `File` is the contents of its blobs (`blobs`), the positions `off` and `len`
(a blob and a position inside it) and `bb.err`. A call starts with an action
that tests `bb.err` and evaluates its arguments (`WriteCall`, `ReadCall`,
`SeekCall`, `TruncateCall`); after it, each iteration of a loop is one step, with
a `...Fails` variant for a blob operation or an allocation that fails, after any
number of bytes. `zero` is called by `Write` and `Truncate` and keeps its two
positions in `zeroing`. An index or slice bound out of range is the action
`Panic`. No call is made after `Close`. The variables `data` and `pos` are an
ordinary file that executes the same calls. In three cases the code departs from
it (see below): `departed` records them, and the next call compares again from
what the file then holds.

A `Buffer` has its first page in `rbuf`, its last in `wbuf` and those between in
`pages`. `rows` counts the rows of the temporary table that belong to it, and
`unread` is the reference queue. The bytes written are `Values` different ones in
turn, so that a lost, repeated or misplaced byte shows. `Write`, `WriteString` and
`WriteByte` are the same loop. `InOrder` says, byte by byte, that a queue is the
rest of `rbuf`, then the pages, then `wbuf`. `LikeAQueue` says that what is read is what was
written, in order, that `UnreadByte` gives back the byte read last, and that no
row is forgotten without an error.

### Blob

`content` is what the database has, `boff` is `Blob.off`, and `bcall` the call that runs. A
call is `CallRead` or `CallWrite`, one `ReadChunk` or `WriteChunk` for each pass
through the C buffer, which `ChunkFails` may end anywhere, and `LoopEnds`.
`BlobLikeSlice` compares every return with a byte slice of fixed length.

### Statements, ExecArgs and Savepoint

`Statements` keeps for every `Stmt` what Go has (`cached`, `lastHasRow`,
`bindErr`) next to what SQLite has (`vm`, `bound`), and `wanted`, the value the
application passed last. Actions `App...` are the methods of `Conn` and `Stmt`. A
helper is a frame on a stack: `Execute` or `ExecuteTransient`, then `ExecBind`,
`ExecStep`, `ResultFuncReturns` and `ExecReturn`; `ResultSetup` and
`ResultTeardown`; `InsertTry`. In a `ResultFunc` the application may do anything
with the connection but close it or finalize the statement that runs, so a
helper may be nested in another one on the same cached statement. Every
statement has one parameter; which parameters the arguments of `exec` reach is
the subject of `ExecArgs`, where a bitset in words of `WordBits` bits decides
whether one is missing (`Ask` chooses a statement and arguments, `Exec` is the
function).

`Savepoint` has a stack of scopes, each at a place of its release function
(`EndScope`, `TakeDoneCh`, `Rollback`, `ScopeReturns`), and SQLite's stack of
savepoints, which `ROLLBACK`, `COMMIT` and errors that roll back by themselves
cut behind the scopes' back. A body ends with nil, an error or a panic. The
`doneCh` is closed and replaced at any time. Statements that end a transaction
of a scope in its body (`UserEnds`) excuse the scopes around (`forgiven`). A write
knows the scopes around it and has a number among the writes that the body of
the innermost one makes itself: all of these numbers up to `own` must be there
when the scope returns nil, and no write with the scope around it when it returns
an error or panics.

`OneConn` runs these parts and `File`, `Buffer` and `Blob` on one connection. They
have rows, statements and handles of their own, so it explores one of them
while the others are as they were created; the constants and properties are
those of the parts.

### ConnTable, Registry and Session

A goroutine of `ConnTable` opens a connection (`OpenV2`, `Register`, `Configure`,
`SetWal`, `OpenReturns`), uses it, and closes it (`SqliteClose`,
`ReleaseAuthorizer`, `DeleteHandler`, `Unregister`). `SqliteClose` frees the
address, and another `OpenV2` may get it before the last three steps. A
connection is a pair of its goroutine and a number, so an entry of an older
connection at the same address shows.

`Registry` has, for each kind of object, the bits of its `idGen`, the Go map and
the set `holds` of what SQLite has or is being given. `RegisterObject`,
`SqliteTakes`, `SqliteRefuses` and `CleanUp` are a registration that may fail;
`Drop` is the destructor. `Connect`, `OpenCursor`, `CloseCursor` and
`DisconnectTable` are the life of a virtual table; `TakeId`, `StoreStream`,
`DeleteStream` and `ReclaimStream` that of a stream, whose number and map entry
change in separate critical sections. A callback (`Call...`) records the object
it found beside the one it was made for. SQLite is taken to call the destructor
itself when a registration fails, but for a collation, which is what the code in
`func.go` and `vtable.go` counts on, and to forget a table after `xDestroy`
whatever it returns.

`Session` counts, for each Go object, the session, iterator, group, thread state
and reader that exist in C (`inC`) beside the fields that name them. Every call
may fail where the code handles an error. `Next` after `Close` of an iterator,
where the fields are nil, is taken for a misuse by the application and left out.

### Series and Inverse

A query of `Series` has an operator and a value for each of start, stop and step
and an ORDER BY term; `BestIndex` chooses the plan, `Filter` gets the values in
the order of the plan, `NextRow` and `ScanEnds` are the scan. `Half` is half
of the number of integers, 2^63 in the code, and sums wrap around. `ReturnsTheSeries` compares the rows with the
set of numbers that SQL defines.

`Inverse` is `ApplyInverseChangeset`: the goroutine that inverts a changeset into
an `io.Pipe`, and the caller that applies what it reads and drains the pipe.
`InvertFrom` is the reader that the goroutine is given.

## What the runs check

| Run | Instance | Result |
| --- | --- | --- |
| `blocking_shared` | 2 connections, 2 tables, no interrupts | `WaitHeldWhileUnfired`, `NoCircularWait`, `BlockedStepWakes` hold |
| `blocking_interrupt` | 2 connections, 1 table, one of them interrupted, closed and reopened | `BlockedIsAwaited`, `FreedNoteUntouched`, `NoStaleInterrupt`, `JoinNeverHangs` hold |
| `blocking_lost_interrupt` | as before | `InterruptCancelsBlockedStep` is violated |
| `pool` | 2 clients, 2 connections, 2 successful `Take`s | `OneOwner`, `IdleIsClean`, `InterruptFollowsTaker`, `ContextsReleased` and the refinement `ImplementsLease` hold |
| `pool_live` | 2 clients, 1 connection, 3 `Take`s | `CloseTerminates`, `TakeUnblocks` hold |
| `migrate` | 3 processes: two versions of one application and another one; 3 calls | `AppliedOnce`, `AppsDoNotMix`, `RepeatedWithLast`, `SuccessIsCurrent`, `ReturnsInAutocommit`, `CallReturns` hold |
| `migrate_foreign_keys` | as before, 2 calls | `ForeignKeysRestored` is violated |
| `migration_pool` | 2 clients, 2 callers of `Close`, 2 connections | `UsedAfterMigration`, `NothingLeftOpen`, `CloseTerminates`, `KeepsTrying` hold |
| `one_conn` | a file of up to 4 bytes in blobs of 1, 2, 4 bytes; a buffer of up to 8 bytes in pages of 2; a blob of 3 bytes with a C buffer of 2; 3 nested scopes of one name with 2 writes; 2 queries, 2 statements, 2 nested helpers; 4 parameters in words of 2 bits | files `LikeReference`, `NoPanic`, `ReadsToTheEnd`; buffers `LikeAQueue`; blobs `BlobLikeSlice`; statements `StmtsAgree`, `BindErrorsSurface`, `HelpersReset`; arguments `StepsOnlyBound`; scopes `ScopeIsAtomic`, `InterruptRestored` hold |
| `boundary` | 2 goroutines that open 2 connections each at one address; 2 goroutines and 3 objects of 11 kinds, words of 2 bits; `Half = 4`, integers of 3 bits; 2 session objects | `NeverAnothersConn`, `RegistryMirrorsSqlite`, `ReleasedOnce`, `ReturnsTheSeries`, `NothingLeaks` hold |
| `inverse_changeset` | 2 changes | `ApplyInverseReturns` is violated |
| `conn_address_reuse` | 2 goroutines, 1 address | `BlocksOnBusy` is violated |

Bounds. Two connections are enough for a waiter and a blocker, and two tables
for a circle; interrupts, closing and reopening are not bounded. Two clients and
two connections let `Close` meet a free, a held and a returning connection at
once; the context of a `Take` that has ended is never used again, so what a
third `Take` adds is the reuse of a connection by another client, which
`pool_live` has with one connection. Three calls of `Migrate` let a process be
overtaken by an older version of itself and start again, or one of each process
meet. Four bytes reach into the third blob of a file, and a slice of three spans
two of its blobs; zeros are written two at a time, so that filling a gap takes
several writes. Eight bytes of a buffer fill the read buffer, two blobs and the
write buffer. A blob of three bytes and slices of up to four need several chunks
with a last one that is short, and go past the end. Two statements let a helper
meet a cached and a transient one and itself on the same one; three scopes let
the middle one of three equal names be released. Four parameters fill two words
exactly and leave one partly used. One address that two goroutines use is the
hardest case of the table, and two connections of each let an entry outlive its
connection. Three objects and words of two bits need a second word. Integers of
three bits are all multiplied out, wrap-around included. Calls are not bounded,
but for the number of objects of the registries.

Fairness. Inside a call a goroutine is held up only by mutexes and channels,
which Go hands to a waiter in the end. `blocking_shared` also assumes that
applications finish queries and transactions; `pool_live` and `migration_pool`
assume that users return their connections, as the documentation of `Take`
demands (`sqlitex/pool.go:142`). `migration_pool` assumes strong fairness for a
`select` whose `ctx.Done()` case is ready again and again, since Go chooses at
random, and for the receive of `sqlitex.Pool.Close`, since a channel serves its
receivers in order. `migrate` assumes that a call goes on when no statement
fails and that the connection of a finished call is closed in the end. Nobody is
assumed to call `Take`, `Step` or `Close`, or to end a context.
`inverse_changeset` assumes that the Go scheduler runs each of the two
goroutines when it can go on. The other models check safety and assume none.

### Disagreements found

* `blocking_lost_interrupt`: an interrupt that arrives after `step` has looked at
  `doneCh` and before the Step blocks is forgotten; the Step stays blocked as
  long as the other transaction lasts, against `sqlite.go:272-274`.
* `migrate_foreign_keys`: a process that finds that another one was faster
  continues without restoring `PRAGMA foreign_keys`, against
  `sqlitemigration.go:47-50`.
* `inverse_changeset`: the goroutine of `ApplyInverseChangeset` is given the pipe
  itself to read from (`InvertChangeset(pw, pr)`, `session.go:292`) and never reads
  `r`. It waits for what only it can write, and the caller waits for it, against
  `session.go:284`. With `InvertFrom == "r"` the property holds.
* `conn_address_reuse`: `Close` deletes its entries (`sqlite.go:237-240`) after
  `sqlite3_close` has freed the address they are under (`sqlite.go:232`). A
  connection that another goroutine opens in between loses its busy handler and
  gets `SQLITE_BUSY` at once, against `sqlite.go:330`. `NeverAnothersConn` says
  that entries are lost in this way but never mixed up.

Others were met while modelling and have no run of their own. For the first four
the property is in the module, and a configuration that names it shows a
counterexample.

* `WaitHeldWhileUnfired` with the constants of `blocking_interrupt`: the watcher
  may fire a note between the unsynchronised read and write of `fired` in
  `waitForUnlockNotify`. Then `fired` is false and `wait` is unlocked, against the
  comment at `blocking_step.go:35`, and the next `fireUnlockNote` aborts the
  process.
* `CloseInterruptsAll` with the constants of `pool_live`: a `Take` that overlaps
  `Close` may record its cancel function after `Close` has collected them; `Close`
  then waits for a user that nobody interrupts, against `sqlitex/pool.go:218`.
* `LikeOsFile` with the constants of `one_conn`: `File.Truncate` to the capacity or
  beyond starts over with what is left of the size after it has grown the file,
  and sets a length that is too small, against `sqlitefile/file.go:274` and the
  comparison with an `os.File` at `sqlitefile/file_test.go:51`.
* `OrderedAsAsked` with `Half = 8` and `DefaultStop = 6`: `BestIndex` of
  `generate_series` consumes ORDER BY but sets the bits for it after it has built
  `outputs.ID` (`generateseries.go:122-129`); `Filter` (171-173) never sees them, so
  the order is that of the sign of step, whatever was asked.
* `File.eq` (`file.go:91-96`) tests the wrong operands: it means that the end of
  a blob is the start of the next one, and instead takes the start of a blob for
  the end of the next one. A file that fills exactly its first two blobs reads as
  empty from offset 0. `departed` marks these calls (`Mistaken`).
* `File.zero` (`file.go:119-121`) writes `p2.pos` zeros rather than those between
  the positions, so the write may not fit into the blob and a sparse `Write`
  fails.
* `File.Seek` (`file.go:260-266`) has moved `off.index` when `grow` fails; the next
  `Read` or `Write` panics. `NoPanic` says that there is no other way to.
* `File.Close` (`file.go:315`) releases nothing after an error, and `Buffer`
  forgets a blob whose flush or fill failed; both leave rows in the table.
* `Buffer.alloc` (`buffer.go:81`) makes a blob of `len(rbuf)` bytes, where the
  comment at `buffer.go:39` wants a page. After a partly filled page was read, a
  flush may fail for want of space, and the buffer is unusable.

* `generate_series` returns one row for some empty series in descending order:
  `Filter` sets the bounds 1 and 0 for a NULL argument
  (`generateseries.go:207-215`) and then counts down from a value that the
  remainder has moved. `generate_series(NULL, 5, -2)` returns 1 and
  `generate_series(4, 3, -2)` returns 4. And a scan that ends within a step of the
  limits of an integer wraps around and goes on. `ReturnsTheSeries` names both.
* A value that `Bind` refused is reported by the next `Step`, also after the cached
  statement was prepared again by somebody else: `Prepare` clears the bindings but
  not `bindErr`.
* `CheckReset` and `SetInterrupt` look at cached statements only, and miss a
  transient one that is stepped. `Close` returns BUSY and leaves the handle open
  when one was not finalized (`StmtsAgree` allows it with the error).
* A `Set` on the stub of an interrupted `Prep` makes `Step` report an unknown
  parameter instead of the interrupt.
* `InsertRandID` resets its statement only before the next try, so it returns with
  it stepped; `HelpersReset` leaves it out.
* `vtable.go:495-499` passes `SQLITE_VTAB_DIRECTONLY` for `ConstraintSupport`.
* `rollback` (`sqlitemigration.go:382`) is refused on an interrupted connection, so
  a cancelled `Migrate` may return with its transaction open;
  `ReturnsInAutocommit` says that this is the only way.
* An interrupt between the test of `doneCh` and `sqlite3_step`
  (`sqlite.go:816-819`) is cleared by SQLite when the statement starts. And `Reset`
  (`sqlite.go:738`) waits for a lock in a loop that does not look at `doneCh`.

## What is proved

Every safety property that a run finds to hold is also proved for all values of
the constants, but for `LikeReference` and `ReadsToTheEnd` of `File`. For each
module below: the theorems, with the property in parentheses where the name
differs, and the inductive invariant.

`BlockingStepProofs`, for any connections, tables and set of interruptible
connections: `TypeInvariance`; `NoLostWakeup` (`BlockedIsAwaited`);
`NoDeadlockedSteps` (`NoCircularWait`); `NoUseAfterFree` (`FreedNoteUntouched`);
`InterruptIsCurrent` (`NoStaleInterrupt`); and, if no connection is
interruptible, `NoteProtocol` (`WaitHeldWhileUnfired`). The invariant adds to the
properties who has the global mutex and what is on its list, that a registered
waiter is registered with a connection that still has a table or is ending, and
where a watcher may be for each state of `doneCh`. Without these, a callback
could come from nowhere and none of the properties is inductive. That no circle
of waiters forms is stated without chains: every set of connections has one that
is not registered with another of the set (`AcyclicInv`). A registration is made
only if some set has the blocker, not the waiter, and everything its members are
registered with, and a circle through the new registration would have to stay in
that set.

`PoolProofs`, for any clients, pool size and number of `Take`s:
`TypeInvariance`, `ExclusiveOwnership`, `CleanHandover`, `InterruptsAreCurrent`,
`PrepareProtocol`, `NoContextLeak`, `CloseIsComplete`, and
`PoolImplementsLease`. The invariant has one part per question: each connection
is in exactly one place (a slot of the channel, a client, closed), which gives
ownership; each watcher belongs to the `doneCh` of its connection; a connection
outside a client is clean; the cancel function of each context is called, in
`all`, in `put`, or in `Close`'s list; and `Close` counts what it closed.

`MigrateProofs` on `Migrate`, for any processes, application IDs, schemas, options
and number of calls: `TypeInvariance`, `MigratedOnce`, `AppIsolation`,
`RepeatableIsAtomic`, `SuccessMeansMigrated`, and the action property
`NoTransactionLeft`. The invariant says who has the lock, how the transaction's
view differs from the committed database at each point of the loop, and what a
`schemaVersion` and an `application_id` read in an earlier transaction still say
of the database.

`MigrateProofs` on `MigrationPool`, for any clients, callers of `Close` and
connections: `PoolTypes`, `NoEarlyUse` (`UsedAfterMigration`), `SignalProtocol`
(`SignalsOnce`), `NoConnectionLeak` (`FailedPoolIsClosed`), `CloseIsComplete`
(`ClosedForGood`), `NoneIsLeftOpen` (`NothingLeftOpen`, which is these two)
and `HealthIsTruthful` (`HealthyIsMigrated`). The invariant `PoolInv`
says, for each place of the opener, which signals were given, whether the
migration has succeeded and who can have a connection, and what a client or a
caller of `Close` that has passed a test still knows.

`SavepointProofs`, for any names and any bounds on scopes and writes: the action
properties `ScopesAreAtomic` (`ScopeIsAtomic`) and `InterruptIsRestored`
(`InterruptRestored`), from `SpInvariant`. The invariant `SpInv` says that some
number of the outermost scopes is forgiven and that each of the others has its
own entry on SQLite's stack, in the same order and with the same name, so that
the innermost entry of a name is the one that the scope means (`Stack`); that the
entry marks the place in the transaction before which no write has the scope
around it and after which every write was made by it or by one inside it, and
that what its body wrote is there (`Marks`); that only the innermost scope ends,
and that it has put `doneCh` aside only while it rolls back (`Phases`); and, for
a scope about to return, what has become of its writes (`Returned`). SQLite's
ROLLBACK TO cuts the transaction at the mark, which therefore takes the writes of
the scope and those inside it, and no other.

`FileProofs` on `File`, for any initial capacity, chunk of zeros, bytes and bounds
on the calls: `PositionsFit` (the inductive invariant `FInv`) and
`NoIndexOutOfRange` (`NoPanic`). The invariant says that the offset, the length
and both positions of `zero` lie inside their blobs, the offset only if the last
`Seek` did not fail half way, and where `Seek` and `Truncate` may be in their
scan. It rests on lemmas on growing a file and on writing inside a blob.

`StreamProofs` on `Buffer`, for any page size, bytes and length: `BufferIsAQueue`
(`LikeAQueue`) and `BufferTypes`, from `BufferInvariant`. `InOrder` has a lemma for
each way in which the two buffers and the pages change: a read, an append, a
flush of `wbuf`, a page or `wbuf` that becomes `rbuf`, a byte given back. The
invariant `BufInv` adds the types to `LikeAQueue`, that no `Write` is under way in a
buffer that has failed or is closed, and that there are at least as many rows as
the lists have, also after a failure.

`StatementsProofs` on `Statements`, for any queries, statements, values and depth
of helpers: `StatementsTypes`, `StatementsAgree` (`StmtsAgree`),
`BindErrorsAreKept` (`BindErrorsSurface`) and the action property
`HelpersLeaveReset` (`HelpersReset`). What each method does to one `Stmt` is a
lemma (`ResetSound`, `BindSound`, `StepSound`), and so is each way in which the
statements and the cache change together (`Methods`, `Transient`, `Cached`,
`Finalizes`); an action is then a combination of them and a move of the stack.
The invariant adds that the query of a cached statement is one of the queries.

`StatementsProofs` on `ExecArgs`, for any number of parameters and width of a
word: `ArgumentsBound` (`StepsOnlyBound`). The lemmas `HasAll` and `FirstMissing`
say what the two functions on the bitset compute, the last word that is used in
part and the one that is used in full included; `ExecAnswers` goes through the
ways out of `exec`.

`RegistryProofs` on `Registry`, for any goroutines, objects and bits in a word: `RegistryTypes`,
`RegistryMirrors` (`RegistryMirrorsSqlite`) and `RegistryReleasesOnce`
(`ReleasedOnce`), from `RegistryInvHolds`. The invariant says that the bits of each
`idGen` are the numbers of what SQLite has or is being given, that the map has the
same entries but for a stream on its way in or out, and who has each object that
was made and not released. `nextId` is described by what it returns, the lowest
free number, so that no induction over the words is needed; the lemmas on
numbers, words and places are proved first.

The smaller parts:

* `ConnTable` (in `FileProofs`), for any goroutines, addresses and openings: `CallbackFindsItsConn`
  (`NeverAnothersConn`). From `sqlite3_open_v2` to `sqlite3_close` a connection
  shares its address with no other; outside of this time a goroutine only
  deletes. The invariant has the first part, and that no handler is set before
  the connection is in `allConns`.
* `Series` (in `RegistryProofs`), for integers of any width: `SeriesReturned` (`ReturnsTheSeries`). The
  invariant says that the rows so far are the terms from the first one on, each a
  step from the one before, and that the cursor is at the next; the arithmetic of
  the remainder and of wrapping around is in lemmas.
* `Session` (in `MigrateProofs`), for any handles: `SessionHoldsNoMore` (`NothingLeaks`). The invariant
  adds that an object has all that its kind holds or nothing, a constructor that
  fails half way included.
* `Blob` (in `StreamProofs`), for any size, C buffer and slices: `BlobIsASlice` (`BlobLikeSlice`). The
  invariant says what a call has done so far: how much of the slice is left, that
  the bytes read are those of the content from the offset at its start on, and
  that a write has changed those and no others.

The assumptions are those of the modules: the special value is none of the
connections, processes or statements, there is an address, the pool has a
positive size, and the constants have their types.

Proved and in no run: the type invariants of the proved modules (on the instances
above `OneConnTypeOK` and `BoundaryTypeOK` hold), `PreparedOnce` and
`ClosedForGood` of `Pool`, `SignalsOnce` and `HealthyIsMigrated`, `PositionsFit`.

Only model-checked:

* All liveness (`BlockedStepWakes`, `JoinNeverHangs`, `CloseTerminates`,
  `TakeUnblocks`, `CallReturns`, `KeepsTrying`): fairness and ENABLED are out of
  reach of the prover.
* `LikeReference` and `ReadsToTheEnd` of `File`: a position of the file is a sum
  over the blobs before it, and what the sum of a grown or cut list of blobs is
  takes an induction over the list. Where a proof above needs an induction over
  numbers (`Least`, in the part on `ExecArgs`), it is made with the least
  counterexample, which exists because the numbers are well-founded.

## Not modelled

* `backup.go`, `Serialize` and `Deserialize`: one call of C each, with no state of
  the package's own.
* The column readers, `Value` and its constructors, and the accessors of
  `ChangesetIterator` and `Action`: conversions of one value, without control.
* `IndexInputs`, `IndexOutputs` and the copying of constraints: data in one
  direction.
* `result.go`, `op_type.go`, `openflags.go`: names of constants.
* `ext/refunc`: a cache of regular expressions in auxiliary data, whose life
  `Registry` models, and a call of package regexp.
* `shell` (terminal I/O) and `cmd` (a rewriter of Go sources that is run once by
  hand).
* SQLite itself, but for what the code relies on: these definitions are marked
  external.
* The parts that `OneConn` and `Boundary` put side by side are not interleaved:
  they share a connection and no state that the properties speak of.

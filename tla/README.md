# A TLA+ model of the Student Age mod editor's native backend

The editor lets a player change the configuration tables of a mod (JSON files
under `Cfgs/`), with undo across restarts, cloud sync and a multi-account
gateway. Its core logic is the C++ backend in `src/native/`; the Flutter client
(`src/frontend/`), the CLI and the TUI are front ends to it. This project
models the parts of the backend where the order of steps decides whether a
player's work survives.

All paths below are relative to the repository (`src/...`).

## 1. Inventory

| component | state | operations | interacts with | what makes it correct |
|---|---|---|---|---|
| **cfg_store** (`native/server/cfg_store.cpp`) | table file, `.editor_history` snapshots, `<stem>.journal.json`, in-process undo/redo stacks `g_stacks`, `g_hydrated` | `write_cfg`, `apply_patch` (both end in `commit`), `undo`, `redo`, `forget`, `hydrate_stack`, `history_entries`, `prune_history` | called by cfg_routes, domain tools, CLI; `forget` by cloud sync | undo restores exactly the replaced bytes or refuses; redo restores the text; the history is linear, across restarts and failures; a cloud overwrite erases it |
| **gateway instance pool** (`native/gateway/gw_pool.cpp`) | `map_` of records, per-record mutex, pid, port, inflight, detached; port files | `acquire`, `release`, `reap_idle`, `shutdown_all`, eviction, start and stop of a backend process | connection threads of gw_proxy, the ticker and main thread of gateway/main | no deadlock; no backend lost or left behind; a backend in use is not taken away |
| gateway proxy, main | sessions in flight, quit flag | forward a request; 60 s tick; quit | pool | see the pool |
| cfg routes (`services/cfg_routes.cpp`) | the workspace gate | GET/PUT/PATCH/DELETE tables and records, history | cfg_store, caches, tombstones | the revision a client holds is checked against what is on disk, under the gate |
| table cache (`cfg_cache.cpp`) | LRU of 16 tables keyed by path, mtime and size; the list of a mod's tables | `load_table_cached`, `load_mod_cfgs`, `seed_table_cache_shared`, `note_mod_cfgs_write`, invalidate | routes, revision manager | a served table is the one on disk at some moment of the request |
| revision manager (`revision_manager.cpp`) | cached fingerprint of the workspace and of each file | compute, verify, invalidate, refresh after a write | routes, saves of the front ends | equal revisions mean equal tables; no save undoes another unseen |
| server state (`state.cpp`, `mods_routes.cpp`) | workspace, selected mod, two-second list of mods | list, select, create, delete | all | caches follow the selection and the disk |
| tombstones (`deleted_talks_manager.cpp`) | global map of deleted ids and its file | register, persist, load, change of workspace | cfg routes | what is deleted stays known to be |
| realtime sync (`services/realtime.cpp`) | watcher thread, pending paths, last snapshot, flags | `rt_start`, `rt_stop`, poll, debounce, sync | cloud sync | one watcher; no local change is forgotten |
| cloud sync (`services/cloud_sync.cpp`) | provider configuration, busy flag | upload, download, sync of a folder; drivers | realtime, cfg_store's `forget` | both sides agree once nobody writes; an overwritten table has no stale history |
| jobs (`jobs.cpp`) | FIFO, finished jobs (cap 512, TTL 15 min) | submit, run, prune, stop | routes, file transfer | each job runs once; no wake-up is lost; stop returns |
| file transfer (`services/file_transfer.cpp`) | records with a status, staged objects, local files, parts | four ways of upload, archive, warm up, link, discard, reclaim | object storage, jobs, the front end's upload helpers | bytes that arrived are kept; the status says where |
| MCP bridge (`services/mcp_bridge.cpp`) | sessions with a child, its pipes and a reader thread | start (sweep, cap, spawn), send, stream, stop | child processes | closing ends; nothing is written to a closed pipe |
| gateway accounts and tokens (`gateway/gw_*.cpp`, handlers in `gw_proxy.cpp`) | sessions, refresh and API tokens, registered accounts, login limiter, daily usage; four files | login, refresh, logout, register, relay | pool, AI relay | one refresh token per login; dead tokens stay dead; limits hold |
| atomic replacement (`core/atomic_io.cpp`) | none | temporary file, fsync, rename | all writers | all or nothing |
| HTTP server (`httpd.cpp`) | slots, registry of live sockets, quit and shutdown flags, detached threads | accept, serve, `stop`, drain, destroy | all routes; the main threads of backend and gateway | freed only when no thread uses it; stopping ends; an answer goes to its own client |
| plugins, domain tools, stories, semantic graph, assets, AI, TTS, CLI/TUI, Flutter screens | - | - | - | see section 7 and `PROJECT.json` |

Hard behaviours, each at its line under `hazards` in `PROJECT.json`:

* **cfg_store.** One operation at a time holds the workspace gate, but
  `forget()`, writers outside the store and the death of the process do not
  respect it. Every save is a sequence snapshot - register - prune - journal -
  table write, each of which may fail or be the last; undo and redo replace the
  file *before* the stacks and the journal. Snapshots are pruned to 10 while
  the stack holds 50 steps. A lossy (non-UTF-8) table has no exact text.
* **pool.** Records are looked up under one mutex and used under another; the
  evictor reads a record's fields under neither. Three kinds of threads stop
  and start processes, two records of an account share a port file, and the
  gateway shuts down under running requests.
* **caches and revisions.** Everything is stat, then read, then store, against
  writers of other processes; a save verifies, writes, seeds three caches and
  computes the next revision while other requests do the same.
* **realtime and cloud sync.** A detached watcher with four flags; a snapshot,
  two pending sets and a busy flag between the user's files and two kinds of
  syncs.
* **jobs, file transfer.** Lock sections with slow work in between, a
  reclaimer, a restart that resumes nothing.
* **gateway tables.** Check, slow work, change: password hashing, an AI round,
  a token rotation between two looks at a table; files that cannot be written.
* **MCP bridge.** Mutexes held while waiting for a child and its reader.
* **HTTP server.** Detached threads that use the server they are to outlive by
  no instruction; sockets woken, closed and numbered anew under them.

## 2. Plan

| order | module | what | state |
|---|---|---|---|
| 1 | `CfgStore` | the table store, with every fault | done |
| 1 | `EditHistory` | what the history promises its user: a line of versions with a cursor | done |
| 1 | `CfgStoreHistory` | `CfgStore` implements `EditHistory` | done, proved (`CfgHistoryProofs`) |
| 1 | `CfgStoreProofs` | type correctness, exactness of undo and redo; prune, journal and the save's way back | done |
| 2 | `InstancePool` | the gateway's pool | done, safety proved (`InstancePoolProofs`) |
| 3 | `Revision` | routes, table cache, mod-wide cache, revision manager, an outside writer, the revision a front end keeps | done, safety proved (`WorkspaceProofs`) |
| 3 | `Tombstones`, `ModList` | the other global state of a workspace: tombstones, list and selection of mods | done, safety proved (`WorkspaceProofs`) |
| 4 | `RealtimeLife` | the watcher's life | done, safety proved (`BackgroundProofs`) |
| 4 | `CloudSync` | what the watcher and a folder sync do to two stores | done, safety proved (`BackgroundProofs`) |
| 5 | `JobQueue` | FIFO, cap, TTL, stop | done, safety proved (`BackgroundProofs`) |
| 6 | `FileTransfer` | record, objects and files against jobs, reclaimer and restart | done, safety proved (`TransferProofs`) |
| 7 | `GatewayTokens`, `GatewayAccounts` | the gateway's tables and their files | done, safety proved (`GatewayProofs`) |
| 7 | `McpBridge` | sessions, children, readers, mutexes | done, safety proved (`BackgroundProofs`) |
| 8 | `HttpServer` | accept loop, connection threads, slots, stop and destructor | done, safety proved (`HttpServerProofs`) |

`MCStores` and `MCServices` compose these modules for TLC: a behaviour is about
one of them, its `part`, and the others rest. That keeps the questions apart (the
state spaces add up instead of multiplying) and the runs few; the modules share
no state, so nothing is lost by it. `MCStores` has the components that keep files
and caches of them (table, revision, tombstones, list, tokens, accounts);
`MCServices` those with threads of their own (jobs, watcher, sync, transfer,
bridge, http) and the linear history of a table. In `MCStores` the two requests
are interchangeable, each with its own front end, and TLC uses that symmetry: it
checks no liveness there.

All the safety properties that the passing runs check are proved (section 6);
liveness stays with TLC.

## 3. The modules and the code

### CfgStore

One table: the file, its snapshots, its journal, its two stacks. `pc` and `op`
are the operation that holds the workspace gate (`write_cfg`, `undo`, `redo`).

| actions | code |
|---|---|
| `BeginCommit` | `write_cfg`/`commit` up to the decision to write: one read of the old bytes, conflict check, BOM kept, unchanged short-cut |
| `HydrateSkip`, `HydrateRead`, `HydrateInstall` | `hydrate_stack`: the journal is read outside the registry lock, installed under it |
| `WriteSnapshot`, `NoSnapshot`, `PruneHistory` | `write_snapshot`, never fatal, and `prune_history` |
| `Register`, `WriteJournal`, `WriteTable`, `WriteTableFails` | the rest of `commit`, in the code's order |
| `PeekUndo`, `PeekRedo`, `PeekRefuses` | the choice of the entry, and the refusals |
| `Restore`, `RestoreLeavesFile`, `RestoreFails` | `restore` |
| `SettleUndo`, `SettleRedo`, `JournalPersist` | the stacks move, then the journal |
| `SyncDownload`, `ForgetErase`, `ForgetUnlink` | `drv_get`, then `forget`, from another thread |
| `OutsideWrite`, `SiblingPrune`, `Crash` | writers outside the store; a save of table `A` that takes the files of `A_B` for its own; the death of the process |

Abstractions:

* A body is a model value; `Decode` says what UTF-8 decoding makes of it, so
  that an invalid body differs from its text. The BOM is a flag of its own.
* Snapshot names (millisecond, sequence number) are increasing numbers. The
  names' text order, which goes wrong with the eleventh snapshot of a
  millisecond or a clock stepping back, is not modelled.
* `undo` and `redo` peek at the stack and read the current text in one step;
  between the two only a writer outside the store could act.
* A conflict answer and an unchanged save change nothing and are no step.
  `apply_patch` merges rows under the same gate and then commits like
  `write_cfg`.
* A journal that cannot be parsed is an empty one (`journal_read` answers so).
* `was` and `epoch` in a stack entry are history fields: what the entry is to
  bring back, and the number of cloud overwrites when it was read.

The order in which `commit` works is the code's: undo is registered, snapshots
are pruned and the journal is written *before* the table. (`src/native/CONVENTIONS.md:180`
gives another order, atomic write first.) So a failed table write leaves a step
that leads from the table to itself, and an empty redo line.

### EditHistory and CfgStoreHistory

`EditHistory` is the promise: past versions, the current one, future versions;
save, undo and redo by one version, and the loss of the oldest or the farthest.
`CfgStoreHistory` maps the store to it. The lines are read off the stacks
while this process leads and off the journal otherwise; a version that an undo or
a redo has just replaced is in the operation's hands (`InHand`); equal neighbours
are merged, which removes the empty steps of failed writes. Both lines end at the
table itself: the past from the oldest version, the future from the farthest one
back (`PastLine`, `FutureLine`), so that every step adds or takes at the end and
what a limit drops is at the start.

### InstancePool

Request threads (`th`), the ticker (`reaper`) and the main thread (`main`) over
records (`rec`), the account map (`map`), processes (`proc`) and the shared
port files. The pool mutex is never held across a blocking call, so what is
done under it is one step; a record's mutex (`mu`) is held over starts and
stops. `Idle` is read without that mutex, as in `detach_lru_idle`.

Left out: time (any unused backend may be the least recently used, and may have
been idle long enough), the `starting` flag (written and read only by the
holder of the record's mutex), the re-use of a TCP port by another process, the
building of argv and environment. A stopped process is dead before the record
forgets it, as `stop_locked` waits for it (SIGTERM, 5 s, SIGKILL).

### Revision

| actions | code |
|---|---|
| `Arrive` | a request comes in and its path is resolved under the mod selected then |
| `StatTable`, `ReadTable`, `StoreTable` | `load_table_cached`: stat and lookup, read, store under the earlier stat |
| `StatAll`, `ReadAll`, `InstallAll` | `load_mod_cfgs`, the view of all tables of a mod |
| `PollRoot`, `PollSet` | the poll reads the selected mod's root, then calls `set_workspace_root` with it; a save or a selection may come between |
| `PrintStat`, `PrintHash`, `Publish` | `compute_revision` with its cache of digests, what the caller does with the result |
| `ReadRoot`, `EnterGate`, `Write`, `Seed`, `Refresh`, `Answer` | PUT: the root is read, the gate taken, the revision checked, the table written, three caches seeded, the next revision answered |
| `Revert`, `Reverted` | undo and redo through the REST route |
| `SelectMod`, `OutsideEdit` | another mod; a program that writes the table |

The bytes of a table are a number and stand for its digest; the modification
time is a clock that every write moves, as nanosecond stamps do. A front end
adopts a polled revision as it is and that of its own save only if no other save
of its has come before (`save_service.dart`). The patch branch of PUT and DELETE
take the same steps in the same order.

### Tombstones, ModList

`Tombstones`: `Delete` reads the table; `ReadMod` and `SetManagerRoot` are the
two halves of naming the manager's root; `Bury` puts the id into the memory;
`RemoveRow` writes the table, or fails (`tombKept`); `Persist` writes the file.
`List` takes the same two halves and then `LoadAll`. The manager has one root
for all requests: `Persist` writes to the root set last, by whatever request.
`ModList`: the handlers of `mods_routes.cpp` over `list_mods`, `select_mod` and
`invalidate_mods_cache`. A scan lists the directory (`ScanMods`) and then tests
the entries one by one (`TestEntry`) before it installs the result
(`InstallMods`), so mods are created and deleted in the middle of it; `modsPast`
is a history of what was on disk when.

### RealtimeLife, CloudSync

`RealtimeLife` is `rt_start` (decide, drain, publish, clear, spawn), `rt_stop`
(signal, join with a timeout) and the four steps by which a watcher works and
leaves, over the four flags. `CloudSync` is what the watcher does to the files of
one mod: `PollLocal` against the last snapshot, with the digest check for files
whose stamp has not moved; `DebounceElapses`; `Fire`, which takes and clears the
pending sets unless a sync is running; `WatchReads`/`WatchStores` per uploaded
file; `WatchDrops`; the remote poll. A put or a deletion over there may fail (`Fails`).
`csLost` is a history of what the code takes no note of: a failed put or
deletion, a file that returns before its deletion is sent, a change that leaves
the file with the stamp and size of the last snapshot (`LooksTheSame`), a step of
a folder sync on a listing that is out of date. `Manual*` is a folder sync started by a
request: two listings, then one step per file on the facts of the listings. The
two modules meet only in the thread: one says when there is a watcher, the other
what it does.

### JobQueue

`Submit` and `Notify` are apart, as `notify_one` comes after the unlock;
`TakeJob`, `StartJob`, `FinishJob` are the three lock sections of `worker_loop`;
`Prune` is `prune_locked` over a table larger than its cap.

### FileTransfer

One record and where its bytes are: in COS (`ftCos`), in parts, in the local
file (which `OpenLocal` truncates before `FetchStaging` fills it). A request is
`Ask` (the record is read and judged), an effect of its own (`MergeParts`,
`AssembleParts`, `DropUpload`, `DiscardFile`) and `PatchRecord`, which patches
whatever the record is by then, as the code does. A job is `TakeFileJob` up to
`SettleFile`; the reclaimer is `ScanExpired`, `DeleteExpired`, `WriteReclaimed`.
`Accepts` is what the server goes on for, and `Sends` what a browser knows
before it sends (its bytes have arrived, its parts are complete). The server also
takes what the front end's helpers never send, a complete of a file that is being
warmed up or a request while another one is under way: these are steps too
(`Crosses`, under the fault `"again"`), and `ftCrossed` remembers that one came.

### GatewayTokens, GatewayAccounts

Each table is guarded by its own mutex, so one lock section is one step and the
handlers of `gw_proxy.cpp` are sequences of them: `RefreshChecked` then
`RefreshRotated`, or `RefreshDenied`, which revokes the token of a disabled
account; `LogoutToken` then `LogoutSession`; `LoginAllowed` then `LoginChecked`;
`RegisterAllowed`, which asks the limiter under its own key and charges a name
that is not valid (`RegisterInvalid`), then `RegisterChecks`, `RegisterAdds`,
`RegisterPublishes` under `accounts_mu` and `RegisterSucceeds`, which clears the
limiter; `RelayAdmitted` then `RelayEnds`. `max_accounts = 0` is no limit
(`HasRoom`). A write of a file may fail;
a restart reads it back. `gtDisk` are the tokens the two files hold and
`load_locked` would take; one whose time is up leaves it, as loading prunes it. A
token names itself, and `login` the token its line began with.

### McpBridge

`StartSweeps`, `SweepNext`, `MakePipes`, `ForkChild`, `CloseFarEnds` and
`InsertSession` are POST start; the sweep holds the table's mutex while it closes
sessions. Between `MakePipes` and `CloseFarEnds` both ends of the pipes are open
in the server, without `g_mu` and without close-on-exec: a child that another
start forks just then keeps this session's stdout open (`mcpPipes`). A child may
stop reading ("hung"), and may leave a process behind (`mcpLeft`), as a wrapper
such as `cmd /c` does; the reader of a session meets the end of its pipe only
when nobody holds the other end (`HeldElsewhere`). `CloseStdin`, `KillChild`,
`JoinReader` are `close_session`; `FindSession`, `BeginWrite`, `EndWrite` are
POST send under the session's `write_mu`; `StreamTurn` is the event stream.

### HttpServer

`HsLook` to `HsAcceptEnds` are `accept_loop`, with its errors; `HsTop` to
`HsLeave` a connection's thread in `serve_connection`; `HsClose`, `HsCount`,
`HsUnlock` the `Release` guard; `HsQuits` to `HsFreed` are `stop()`, called by
`run.cpp`, and the destructor. `hsPlatform` chooses the build: `wake_conns` shuts
down (POSIX) or closes (Windows). A handle is a number that may be given out
again once its socket is closed, which is why writes name the handle's present
connection and not the thread's own; `HsFree` gives a closed handle out again at
once, also while a thread still uses it. `HsDrained` reads the slots without
`conn_mu`, as the head of the loop in `drain_conns` does. What the HTTP text says
is abstracted to whether a request asks for shutdown and whether the connection
stays open.

## 4. The runs

| run | bounds | shows |
|---|---|---|
| `pool` | 2 accounts, cap of 1, 2 threads with a request each, 1 tick, 1 death or timeout, shutdown at any moment (503,796 states) | no deadlock, every request ends (`EveryRequestAnswered`); until something is evicted or reaped: `NoLostBackend`, `RoomyProtects`, `RoomyLeavesNothing` |
| `stores`, part table | 2 snapshots, stack and snapshots limited to 1, one saved body, an invalid outside body, 1 overwrite; *every* fault | `TypeOK`, `HistoryExact`, `SavesUndoExactly`, `RedoBringsTextBack` |
| part revision | 2 mods, 2 requests at a time with a front end each, 4 requests including selections, 2 writes | `CacheHitIsCurrent`, `NoLostUpdate`, `RevTypeOK` |
| part tombstones | 2 mods, 2 ids, 2 requests, a tombstone of an earlier session in the second mod, 1 failed write | `TombstonesMatchRows`, `RemovedIsBuried` |
| part list | 2 mods, 3 requests, 2 at a time, 2 seconds | `ListIsRecent` |
| part tokens | 3 tokens, 2 requests, 1 failed save, 2 restarts | `OneRefreshToken`, `DeadStaysDead` |
| part accounts | 2 names to register, 1 administrator, limit of 2 accounts and of 2 rounds, a limiter of 2 attempts, 1 failed write, 1 restart | `AccountsAgree`, `QuotaBounded` |
| `services`, part jobs | 3 jobs, 2 workers, 2 clients, cap of 2 | `JobInOnePlace`, `EveryJobEnds`, `StopReturns` |
| part watcher | 2 callers, 5 calls, up to 3 watchers, failed thread construction | `AtMostOneWatcher`, `FlagsTellTheTruth`, `StopTakesEffect` |
| part sync | 1 file, all directions, with and without deletions, 2 writes or deletions, or 1 and a folder sync, 1 failed transfer | `NoChangeForgotten`, `SidesAgree` |
| part transfer | all 4 ways of upload, 2 requests, 2 workers, 2 parts, 1 restart | `BytesKept`, `RecordTellsWhere`, `ReclaimOverwritesNothing`, `FileSettles` |
| part bridge | 2 sessions, 2 requests, cap of 1 session, queue of 1 line; one child that hangs or leaves a process | `WritesGoToOpenPipes`, `ClosingEnds` |
| part http | 2 connections, 2 handles, 1 request; a POSIX build with 2 slots, a Windows build with 1 | `FreedAfterTheLastSlot`, `AnswersStayHome`, `DestructorReturns` |
| part history | 5 snapshots, stack of 3, 2 snapshots kept, 2 bodies; process death, failed table write, failed restore | linear history (`RefinesHistory`), `PruneTakesTheOldest`, `JournalMirrorsStack`, `OverwriteIsUndoable` |
| `journal_cut` | snapshot failures only | **violated**, finding 1 |
| `create` | no fault at all | **violated**, finding 2 |
| `forget` | cloud overwrites only | **violated**, finding 3 |
| `pool_inflight` | cap of 1, no ticks, no faults | **violated**, finding 4 |
| `pool_orphan` | cap of 2 (no eviction), 1 tick, no faults | **violated**, finding 5 |
| `watcher_window` | as part watcher, with the window open | **violated**, finding 6 |
| `redo_text` | a table that is not valid UTF-8 at first, snapshot failures only | **violated**, finding 7 |
| `http_freed` | 2 connections, limit of 2, both builds | **violated**, finding 8 |
| `complete_again` | 1 browser, 2 workers, one way of upload, crossing requests allowed | **violated**, finding 9 |

`stores` has 5,704,796 states, `services` 200,548.

Why the bounds are enough: in part table the limits of 1 make every second save
prune a snapshot that is still on the stack and trim the stack itself, and two
snapshot numbers show a mix-up; the theorems below remove the bound for these
properties. In part history, five snapshots against three stack entries and two
kept reach trim, prune, undo into a pruned step, redo and a restart in one
behaviour; two bodies tell a version from its neighbours, and the theorem
`StoreRefinesHistory` removes these bounds. In the pool,
two threads and two accounts give every pairing: the same record, one evicting
the other, both evicting each other; the record and fork bounds (6), which are
guards of a lookup and a fork, are never reached within the bounds on requests.

Part history leaves out `crashAfterRestore`: a process that dies after
`restore` and before the journal is written leaves the file one version off its
persisted history, so the next undo repeats or skips a version. Part table
includes it: even then undo and redo restore the right bytes. Part history also
leaves out snapshot and journal failures, the prune of a sibling and
outside writes, each of which legitimately breaks the line of versions.

In the other parts, two requests at a time are what every race needs (each is a
check and a use with one other request, job, reclaimer or writer between), and
the caps are set below the number of actors, so that eviction, the limits and
the full table are reached. Four requests let a selection, a save, a late poll
and a second save follow each other on one cache; a second mod lets a scan of the
directory show a set that never was on disk; three tokens are a login, its
successor and a second login, and the second restart loads what the first has
left in the files. Two writes of one file let it change while the watcher sends
it, and let both sides change before a sync; that files do not disturb each other
is in the theorem, which is for any number of them. In part http the
second connection is the one that arrives while the first is woken, or finds the
slot taken, or is given the first one's handle.

**What the passing runs leave out.** Three kinds of steps are constants
(`RevFaults`, `RtFaults`, `FtFaults`), and the passing runs are run without them.
Each of them alone makes TLC find a counterexample within the bounds of its part:

| fault | step | what it breaks |
|---|---|---|
| `seed` | a program outside writes a table between the server's write and its seeding of the caches: the stat taken afterwards dates the bytes written before | `CacheHitIsCurrent` |
| `blind` | front ends without a revision yet; their saves take no gate across write and seed, so two of them seed in the other order | `CacheHitIsCurrent` |
| `window` | a start between the two flags a leaving watcher clears | `AtMostOneWatcher` (finding 6) |
| `again` | requests of one file that cross, or a complete of bytes that are archived | `CompleteIsIdempotent` (finding 9) |

Beyond these, part history leaves out what the paragraph above names, and
section 7 says what is not modelled. All other steps are steps of the passing
runs, and what a property does not claim is in its statement:

* `SavesUndoExactly` excepts the steps that a redo leaves over a table that is
  not valid UTF-8: finding 7 shows what their undo does.
* `NoLostBackend`, `RoomyProtects`, `RoomyLeavesNothing` claim nothing once a
  backend could have been evicted or reaped (`Roomy`): findings 4 and 5.
  `EveryRequestAnswered` has no such exception.
* `NoLostUpdate` is about saves judged by the fingerprint of their own mod. A
  save whose request is overtaken by a selection, or by a late poll that sets
  the manager's root back, is judged by another mod's.
* `TombstonesMatchRows` is about a session that works on one mod; a tombstone
  outlives its row's failed removal (`tombKept`), and the file lags behind while a
  save of it is pending.
* `ListIsRecent` dates each mod's entry within the two seconds of the cache. It
  does not say that a mod just deleted is gone, nor that the listed set as a whole
  was ever on disk: neither is so.
* `NoChangeForgotten` and `SidesAgree` claim nothing of a file in `csLost`. Others
  write to the cloud in the directions that read from it ("download", "sync").
* `BytesKept`, `RecordTellsWhere` hold until requests cross (finding 9);
  `FileSettles` until a restart, after which nothing resumes a job;
  `ReclaimOverwritesNothing` always.
* `ClosingEnds` except for a session that stays obstructed: by a write to a child
  that does not read, or by a process that holds the dead child's stdout.
* `FreedAfterTheLastSlot` allows the last guard its unlock (finding 8);
  `AnswersStayHome` holds on Windows until the server is told to stop, when
  `wake_conns` begins to close handles that are given out again.

**Fairness.** `CfgStore` claims only safety. `InstancePool` assumes weak
fairness of each thread's `Acquire` and `Release` steps, of the reaper's and
the shutdown's steps, and of a started backend's `Bind`. The code justifies it:
every wait in them is bounded (2 s ping of a warm backend, 10 s for the port
file, 3 s ping of a new one, 5 s until SIGKILL; a proxied request has a
timeout of 300 s), and OS threads are scheduled. The requests of a thread are
bounded, so a waiting thread cannot be overtaken for ever and weak fairness on
mutexes is enough. Nothing is assumed of new requests, ticks, quitting, deaths
or timeouts. `JobQueue`, `RealtimeLife`, `CloudSync` and `FileTransfer` assume
weak fairness of the threads that work (workers, watcher, requests under way):
every network call in them has a timeout, so a step that is begun ends.
`McpBridge` assumes strong fairness of a request's steps, as its mutexes may be
taken again and again by requests without bound and an OS mutex is not withheld
for ever from one waiter, and weak fairness of a reader whose pipe has ended.
`HttpServer` assumes weak fairness of the accept loop (it polls at most 100 ms,
or its socket is closed), of the owner and of each connection's thread: handlers
return (outbound calls have timeouts of at most 300 s), and a shut or closed
socket ends `recv`. The 65 s idle timeout is deliberately not part of it.
Nothing is assumed of users, clients, children, clocks and restarts.

Every property of a passing run has a mutant in `PROJECT.json`: a plausible bug
in the code's translation that makes TLC violate that property. The mutated
definitions stand next to the real ones, marked `Mutant`.

## 5. Findings

1. **The journal is cut at the wrong end** (`journal_cut`). The comment at
   `cfg_store.cpp:296-301` wants the steps *newer* than a text-only one kept;
   the loop keeps the *older* ones. After one failed snapshot a restarted
   process undoes to a version from before the failure.
2. **A re-created table cannot be un-created** (`create`). Create, undo, redo:
   the step redo registers says the file existed, so undo answers "history
   snapshot missing" for ever.
3. **Forgotten history comes back** (`forget`). `forget()` does not take the
   gate; a save in flight registers and journals the pre-overwrite version.
4. **A starting backend is evicted as idle** (`pool_inflight`), and its request
   is served by a record the pool no longer has.
5. **A backend outlives the gateway** (`pool_orphan`). The reaper erases a
   record without marking it detached; a request waiting for its mutex
   then starts a backend on it that nobody can find.
6. **A second watcher** (`watcher_window`). A leaving watcher clears `running`
   before `g_alive`, and `rt_start` wants both to call it alive: a start in
   between spawns a second watcher, whose flag the first then clears, and the
   next start a third. They share sets that no lock protects because "only ever
   one live watcher" exists.
7. **Undo writes replacement characters** (`redo_text`). `redo()` pushes its undo
   step with `lossy = false` over whatever it replaces. Over a table that is not
   valid UTF-8, when the snapshot fails, the step holds decoded text that undo no
   longer refuses, against "Fail safe instead" (`cfg_store.cpp:743-745`).
8. **The server is freed under its last thread** (`http_freed`). `drain_conns`
   reads `slots` at its loop head without the mutex, may see 0 between a thread's
   `fetch_sub` and its unlock and lets `~Httpd` free the mutex, which the comment
   at `httpd.cpp:1159-1161` rules out.
9. **A repeated complete destroys the last copy** (`complete_again`). The list of
   statuses that `/upload/complete` answers without doing anything omits
   `warming_up`. A second complete then archives again: the only local copy is
   truncated, and the object it would be fetched from is gone. The front end sends
   one complete per file and waits; the server does not rely on it.

Further behaviours met while modelling, for which there is no run of their own:

* *Tombstones.* Nothing reads the file before the first deletion of a session,
  so a DELETE before any listing overwrites the tombstones of earlier sessions
  (`deleted_talks_manager.cpp:132-156`, against lines 4-9 of its header).
  Tombstones are written to whichever mod was named last.
* *List.* `mods_routes.cpp:3-4` has create, select and delete invalidate the
  list; delete leaves it cached for up to two seconds.
* *Revisions.* A poll that read its root before a selection sets it afterwards: a
  save that comes in between is judged by the other mod's fingerprint, and refused
  or passed for the wrong reason.
* *Cloud sync.* Beyond what `csLost` records: a remote poll can bring back a file
  whose local deletion is pending; a mod directory that cannot be read looks
  like one whose files are all deleted; the answer of `sync_mod_files` has no
  `total`, so `realtime.cpp:789-802` never runs and downloads are found as local
  changes in the next round.
* *File transfer.* A download or restart in the middle of a reclaim leaves a
  `ready` record without its object (`ftLate`); a record left `archiving` or
  `warming_up` by a restart is never resumed; abandoned local uploads keep their
  parts.
* *Gateway.* After a save that failed, a restart brings a revoked token back
  (`gtUnsaved`); a logout that races a refresh leaves the successor; the quota
  can be passed by the requests in flight (`QuotaBounded` says by how many);
  a registration grows `cfg.accounts` under `accounts_mu` while logins read it
  without.
* *MCP bridge.* Concurrent starts pass the cap of sessions, which is checked
  before the child is spawned. The pipes are not close-on-exec, so a child can keep
  another session's stdout open and with it the join of its reader, for as long as
  that child lives; under the sweep's mutex this holds up every request of the
  bridge.
* *HTTP server.* An error of `accept()` that the loop does not retry, running out
  of descriptors among them, ends the loop: the process stays and answers nobody
  (`HsAcceptFails`). The flag of `/api/shutdown` is taken by whichever thread
  leaves first (`HsLeave`): a connection that ends between the handler and the
  answer exits the process before the answer is written, against "respond first"
  at `httpd.cpp:1174`; other requests under way are cut off.

## 6. What is proved

Each theorem holds for every value of the constants that satisfies the
assumption its module names: any sets of bodies, accounts, mods, requests,
threads, jobs, connections and parts, any limits, any bounds. The invariants the
proofs rest on were first checked by TLC, on reachable states and as inductive
steps where the instance is small enough.

| module | theorem | property | hypotheses beyond the module's assumption |
|---|---|---|---|
| `CfgStoreProofs` | `TypeCorrect` | `TypeOK` | - |
| | `HistoryStaysExact` | `HistoryExact` | - |
| | `UndoNeverCorrupts` | `SavesUndoExactly` | - |
| | `UndoIsExactWithSnapshots` | `UndoIsExact` | fault `snapshot` absent (finding 7) |
| | `RedoNeverCorrupts` | `RedoBringsTextBack` | - |
| | `NewestSnapshotsStay` | `PruneTakesTheOldest` | no prune by a sibling table |
| | `JournalIsTheHistory` | `JournalMirrorsStack` | `HistoryIsItsOwn` |
| | `SaveIsUndoable` | `OverwriteIsUndoable` (action) | `HistoryIsItsOwn`, no outside writes |
| `CfgHistoryProofs` | `StoreRefinesHistory` | `RefinesHistory` (refinement) | `HistoryIsALine` |
| `InstancePoolProofs` | `PoolWellFormed` | `TypeOK` | - |
| | `NoBackendIsLost` | `NoLostBackend` | - (the property says `Roomy`) |
| | `ServingIsProtected` | `RoomyProtects` | - (likewise) |
| | `NoBackendOutlives` | `RoomyLeavesNothing` | - (likewise) |
| `WorkspaceProofs` | `TombstonesAreSaved` | `TombstonesMatchRows` | - |
| | `RemovedRowsAreBuried` | `RemovedIsBuried` | - |
| | `ListStaysRecent` | `ListIsRecent` | - |
| | `RevisionsWellFormed` | `RevTypeOK` | - |
| | `CachesTellTheTruth` | `CacheHitIsCurrent` | faults `seed`, `blind` absent |
| | `NoUpdateIsLost` | `NoLostUpdate` (action) | faults `seed`, `blind` absent |
| `GatewayProofs` | `OneTokenPerLogin` | `OneRefreshToken` | - |
| | `DeadTokensStayDead` | `DeadStaysDead` (action) | - |
| | `AccountsAlwaysAgree` | `AccountsAgree` | - |
| | `QuotaIsBounded` | `QuotaBounded` | - |
| `BackgroundProofs` | `WritersSafe` | `WritesGoToOpenPipes` | - |
| | `OneWatcherWorks` | `AtMostOneWatcher` | fault `window` absent |
| | `FlagsAreTrue` | `FlagsTellTheTruth` | fault `window` absent |
| | `JobsRunOnce` | `JobInOnePlace` | - |
| | `NoChangeIsForgotten` | `NoChangeForgotten` | - |
| `HttpServerProofs` | `FreedAfterTheLast` | `FreedAfterTheLastSlot` | - |
| | `EveryAnswerStaysHome` | `AnswersStayHome` | - |
| `TransferProofs` | `BytesStay` | `BytesKept` | - |
| | `RecordIsRight` | `RecordTellsWhere` | - |
| | `ReclaimsOverNothing` | `ReclaimOverwritesNothing` (action) | - |

**Hypotheses.** A fault is a hypothesis only where the property is false with
it: the table "What the passing runs leave out" above names the step of the code
and what it breaks, and the runs `watcher_window` and `redo_text` show two of them.
Where a property has an exception in its own statement, the runs `pool_inflight`,
`pool_orphan`, `redo_text`, `http_freed` and `complete_again` show that it is false
without. `HistoryIsItsOwn` says that the
table exists at first, that saves keep a snapshot, and that only this process
writes the history's files: it allows process deaths (also between a restore and
its journal write), failed table writes and restores, failed unlinks and writers
of the table itself. The other hypotheses are part of the question: a snapshot
that was never written cannot be undone from. `HistoryIsALine` adds what makes the
versions of a table one line: the table is valid UTF-8 at first, nobody else writes
it, and no process dies between a restore and its journal write. TLC finds
`RefinesHistory` violated as soon as any one of these conditions is dropped, those
of `HistoryIsItsOwn` included (for the death after a restore it takes three
contents: the version that the undo left is then missing *between* two others).

**Assumptions on constants** (each `ASSUME` is in the module that declares them
and TLC evaluates it in the runs). `CfgStore`: decoding is idempotent, a saved
table is valid UTF-8 (the server serialises it), the markers for "no file" and
"no text" are no contents, the limits are positive. Elsewhere: limits and bounds
are numbers, faults and kinds are the known ones, and a marker for "nobody" or
"none" is no thread, mod, connection or account. `GatewayAccounts` also assumes
that administrators and threads are finitely many, which a count of accounts and
of requests in flight needs.

**The arguments.** What each invariant adds to its property:

* *Undo and redo.* `TypeOK` is not inductive alone: an operation may write a
  snapshot only if a number is left, which is checked when it begins; the
  invariant adds that (`RoomForSnapshot`), together `Typed`. `SavesUndoExactly` speaks
  of the moment an entry is used and says nothing of why its snapshot is the right
  one; `HistoryExact` says for *every* copy of an entry (live stack, journal, the
  copy in an operation's hands) that its snapshot number is below the next one and
  names the content it is to bring back or nothing. Then `SnapsGo` (a step writes
  only a snapshot with a new number), `Origins` (every entry after a step is an
  entry from before it, the journal's reading of one, or one of the three that are
  pushed) and `OpExact` (the operation's own snapshot is that of the bytes it
  replaces) give the step.
* *Journal.* `Mirror` says step by step how far the journal lags behind the
  stacks (`JournalFollows`, `Lagging`) and that no entry is text-only, so that the
  journal cuts nothing; without it finding 1 breaks the theorem.
  `StepRegistered` follows a commit's entry from `Register` to the write.
  `SnapsInOrder` is `PruneTakesTheOldest` and that no file has a number to come.
* *History.* A line of versions is what is left of a stack when equal neighbours are
  merged, defined by counting. `MergeAppend` (one element more) gives by induction
  over the length (`NatSet`, for the set of lengths that have a property, from the
  well-foundedness of `<`) that merging keeps the last element and that the merged
  end of a stack is an end of the merged stack (`MergeKeeps`). `LineInv` adds to
  the invariants above that every content in sight survives its way through an
  entry's text (`AllAlike`), so that the bytes an undo or redo writes *are* the
  version the entry stands for (`PutsBack`), and that the operation in flight still
  has that entry on top of its stack (`Underway`); without it a step could jump.
  Then the table write of a save is a save of `EditHistory`, `Restore` an undo or a
  redo (or nothing, for an empty step), the journal write of a save and the settling
  of a stack lose versions at the far ends, and the other steps change nothing.
* *Pool.* `Custody`: who is in the middle of a start or stop holds the record's
  mutex (`Locked`), alone (`Alone`); a start begins without a process and a
  stopped record's process is dead (`Stopped`); so a process that runs is the `pid`
  of some record. That alone does not help anybody who wants to stop it: that the
  record is in the map or on a shutdown's list is what `Steady` adds. While
  `Roomy`, a record that is not detached is in the map (`InTheMap`), a detached one
  waits for the shutdown or is stopped for good (`Doomed`), and each phase of the
  shutdown leaves what the next relies on (`Phases`).
* *Caches and saves.* Every request in flight carries a stat and perhaps bytes.
  `CachesInv` says what they are worth (`Holds`): what is about to be stored is
  honest at its own stat, and a save's bytes are still on disk when it seeds. It
  needs that stamps only grow (`TimesGrow`) and that every save holds the gate
  (`NobodyIsBlind`). `SavesInv` adds for a save that is being judged what its root
  and its look at the file are worth (`Looked`); the root may change under it.
* *Tombstones, list.* `RequestsSound` says what each request between the steps of a
  delete or a listing has read and buried, and that roots are of mods in use. For
  the list, `Witnessed` says of a mod that it was on disk, or was not, at some moment
  since a given one, and `SeenSince` that this is so of every mod a scan has tested;
  `ListsDated` carries it from the scan to the cache.
* *Tokens.* A line has one live token and one on disk, and the disk's is the live
  one unless a write failed (`DiskSound`). The first form of the model did not
  satisfy this after a *second* restart: an expired token that the first restart
  had dropped came back with the next. `load_locked` prunes what it loads and the
  next save no longer writes it, so `gtDisk` now follows the files, and the run
  restarts twice.
* *Accounts, quota.* While a registration is between file and table, the table
  lacks exactly its name (`AccountsSound`). The charge plus the requests in a round
  stay below the limit plus the number of threads (`QuotaInv`).
* *Watcher.* Between a start's steps the flags run ahead of the watchers, between
  a leaving watcher's steps behind; `FlagsFollow` says for each step how.
* *Jobs.* A queued job is in the queue or in one worker's hands (`QueueSound`,
  `WorkersSound`, `JobsSound`).
* *Uploads.* Of each file `FileSafe` says three things. Here (`FileHere`), it is the
  same over there, noticed, on its way or lost (`csLost`). Gone (`FileGone`), its
  deletion is. And a put that could bring back what is gone is followed by its
  deletion (`FileDropped`). A poll or a transfer that takes a file up removes it
  from `csLost`.
* *HTTP server.* The slots are the number of threads inside their guard, a
  cardinality the steps of connections move by one (`SlotsCount`); the accept loop
  is joined before the drain. Until `wake_conns` of the Windows build closes sockets,
  a handle in use has one user and is its socket (`HandlesOwned`).
* *File transfer.* Requests and jobs patch the record as they decided, without a
  second look. What makes that right is that they are alone with it
  (`OneAtATime`): one request, an abort aside, or one job, as long as requests do
  not cross. `Requested`, `Jobbed` and `Reclaiming` then say what still holds of the
  record between a handler's look and its patch. `ReclaimsOverNothing` needs none of
  it and holds of crossing requests too: the reclaimer looks again under the lock.

**Only model-checked.** Liveness under fairness (`EveryRequestAnswered`,
`EveryJobEnds`, `StopReturns`, `StopTakesEffect`, `SidesAgree`, `FileSettles`,
`ClosingEnds`, `DestructorReturns`) is beyond this prover.

## 7. Not modelled

The components listed in `PROJECT.json` as `not_modelled`, with the reasons. By
far most of the repository's lines are of this kind: tables of domain data and
request-local transformations of them (stories, stages, talks, semantic graph
and linter, resource packs), protocol drivers, text and terminal front ends, the
Flutter screens. They keep no state between two steps that anything else could
disturb; a state machine of them would repeat their code, and the unit tests
cover them better. The models therefore cover a small share of the lines and
nearly all of the shared state.

Within the modelled components: two processes with a full store each over one
disk (server and one-shot CLI at once), the ordering of snapshot names by text,
the wall-clock policies of the pool, field history and validation routes, the
protocol drivers of the cloud sync and its single-file operations, the
asynchronous wrapper of a folder sync, exported archives that start as `ready`
records, the Windows branch of the MCP bridge, the web lock and password hashing
of the gateway, the parsing, streaming and compression of HTTP messages.

## 8. Running

    tlc -config MCInstancePool_all.cfg MCInstancePool
    tlc -config MCStores.cfg MCStores
    tlc -config MCServices.cfg MCServices
    tlc -config MCCfgStore_redo_text.cfg MCCfgStore
    tlc -config MCRealtimeLife_window.cfg MCRealtimeLife
    tlc -config MCHttpServer_freed.cfg MCHttpServer
    tlc -config MCFileTransfer_again.cfg MCFileTransfer
    tlapm CfgStoreProofs.tla
    tlapm CfgHistoryProofs.tla
    tlapm InstancePoolProofs.tla
    tlapm WorkspaceProofs.tla
    tlapm GatewayProofs.tla
    tlapm BackgroundProofs.tla
    tlapm HttpServerProofs.tla
    tlapm TransferProofs.tla

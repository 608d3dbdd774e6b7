# A verification of tdrive

tdrive is a drive that keeps its files in a Telegram channel: a file is cut into
segments, each posted as one document with a caption that says where it belongs;
a SQLite database indexes them; browsers, WebDAV clients and plugins read and
write through a Go server that shares a few Telegram accounts between everybody.
The hard part of that server is not any single operation but what happens when
several of them touch the same thing: a cancellation, a completion, a restart
and a segment in flight; five range requests and a timer on one download slot; a
plugin that is updated while its child is being restarted.

These TLA+ modules model it from the source, TLC checks them on small instances,
and TLAPS proves the invariants of most of them for every instance.

## 1. Inventory

| Component | State it keeps | Operations | Modelled in |
|---|---|---|---|
| task limiter (`drive/limiter.go`) | limit, active count, FIFO of waiters | acquire, its cancellation, release, setLimit | `TaskLimiter`, `Admission`, `SlotProofs` |
| download sessions (`drive/limiter.go`) | sessions by key: slot, active requests, grace timer | AcquireDownloadSession, release, timer callback | `DownloadSession`, `ServingProofs`, `MCTransfers` |
| browser upload leases (`drive/limiter.go`, `api/upload.go`) | leases by job: slot, active requests, closed, charge | AcquireUploadJob, request release, ReleaseUploadJob | `UploadLease` |
| account scheduler, daily quota (`drive/schedule.go`, `drive/quota.go`) | used and reserved bytes per account and day, generation | acquire, wait, reserve, commit, NotifyQuotaChanged | `Scheduler`, `AccountProofs`, `MCScheduler` |
| upload jobs (`drive/upload.go`, `remote.go`, `local.go`, `ops.go`; `database/jobs.go`, `tree.go`; `api/upload.go`) | job row, file row, segment rows, documents in the channel, `jobCancels`, `jobRuns` | Begin, PutSegment, Complete, CancelUpload, Abort, Delete, ResumeRemotes | `UploadJob`, `DriveProofs`, `MCDrive`, `MCTransfers` |
| staged downloads (`drive/download.go`, `database/downloads.go`) | download rows, cache directory, `stageRuns`, `stageCancels`, `stageMu` | StartStaged, runStaged, CancelStaged, DeleteStaged, StagedFile, SweepCache, PurgeCache, PurgeDownloadHistory, ResumeStaged | `StagedDownload`, `MCStaged`, `StagedDownloadProofs` |
| client downloads (`drive/clientdownload.go`, `dav/handles.go`) | records of downloads a WebDAV client pulls, grace timer | Track, Add, Close, Cancel, settle | `ClientDownload`, `ServingProofs` |
| directory tree (`drive/drive.go`, `ops.go`, `path.go`; `database/tree.go`) | directory and file rows, captions | Mkdir, Rename, Move, Delete, refresh of captions | `Tree`, `DriveProofs`, `MCDrive`, `MCTree` |
| indexer (`indexer/`) | none of its own; replaces the index | scan, buildTree, dedupePaths, buildFiles, replace | `Rebuild`, `Tree` |
| batch rename (`api/fs.go`) | the plan of one request | validate, park, apply, roll back | `BatchRename`, `MCBatch` |
| segment reader (`reader/`, `api/stream.go`) | read window, chunk pump, futures | ParseRange, Ranges, planChunks, Read, Close | `Reader`, `ReaderProofs` |
| file references (`drive/source.go`) | reference cache per account and segment, shared refreshes | current, Chunk, refresh, Forget | `FileRefs` |
| Telegram cluster (`tgc/cluster.go`, `account.go`, `client.go`, `auth.go`) | account rows, managers, run loops, sessions | Add, Remove, Update, SetProxy, Configure, sign-in, log-out, import, reload, start, Stop | `Cluster`, `AccountProofs`, `MCAdmin` |
| channel membership (`tgc/cluster.go`, `invite.go`, `backend.go`) | channel_accounts, default channel, channelReady | RefreshReadyChannels, CheckChannel, JoinChannel, LinkChannel, ChannelRef | `Membership`, `AccountProofs`, `MCAdmin` |
| plugins (`plugin/`) | plugin rows, executables, child processes, active map | Inspect, Install, SetEnabled, Uninstall, RemoveAllForUser, restart, Close | `Plugins`, `PluginProofs`, `MCAdmin` |
| authentication (`auth/`, `api/users.go`) | users, refresh tokens, cache of verified passwords | Login, Refresh, Logout, VerifyBasic, change, disable, delete | `Access`, `ServingProofs`, `MCAccess` |
| runtime settings (`config/runtime.go`, `api/settings.go`, `tgc/client.go`, `plugin/host.go`) | snapshot, settings table, log level, connections | handleUpdateSettings, Configure, updateRuntimeSettings, ApplyStoredRuntimeSettings | `Settings`, `SlotProofs`, `MCSettings`, `MCAdmin` |
| Telegram calls (`tgc/history.go`, `media.go`, `pool.go`, `proxy.go`), permissions and shares, HTTP decoding, WebDAV translation, events, local files, database plumbing, `ui/` | - | - | not modelled, section 6 |

How they interact. A content transfer of any kind calls `Service.acquire`
(`Scheduler`), which waits for a slot of the global limiter (`TaskLimiter`) and
books the daily budget of an account that is signed in (`Cluster`) and may post
to the channel (`Membership`). Range requests of one download share one such slot
through a `DownloadSession`; the segment requests of one browser upload through
an `UploadLease`. Uploads write `upload_jobs`, `files`, `segments` and the
channel (`UploadJob`); staged downloads write `download_jobs` and the cache
directory (`StagedDownload`); reads go through the prefetching pipeline
(`Reader`) with handles kept per account (`FileRefs`). The tree operations keep
rows and captions in step (`Tree`), so that the indexer can rebuild one from the
other (`Rebuild`). After a restart, and whenever an account becomes ready,
`ResumeRemotes` and `ResumeStaged` restart what the rows say was live.

What is hard. Nothing is held across an await: each database statement, each
Telegram call and each critical section is a step, and a cancellation, a timer, a
client that hangs up or a restart can come between any two. Contexts that end
make the next database call fail, so that the rest of a function simply does not
happen. Two checks in a row (status, then act; lookup, then lock) see different
states. `PROJECT.json` lists these places under `hazards`, each at its line.

What makes each part correct:

- the limiter admits at most `limit` tasks, counts them exactly, serves waiters
  in order, keeps no slot idle with somebody waiting, and serves everybody;
- a session or lease returns its slot once, never under a reader or writer, and
  does return it;
- budgets are booked and released exactly, stored on the day they were booked,
  crossed by less than one content and what downloads repeat, and waiting for one
  ends when it is freed;
- an upload never counts a segment it has not stored, never comes back to life
  after an abort, cleans up what it aborts, has one worker, and ends;
- a staged copy is served whole or not at all, one transfer runs per file, the
  cache never promises the same room twice, bytes stay findable, clearing it
  empties it, and transfers end through restarts;
- paths, rows and messages agree, captions too once a refresh is through, and a
  rebuild loses nothing;
- a batch of renames lands whole or not at all;
- a response is the bytes that were asked for, in order, and is cut only for a
  cause; a handle is used by the account it was minted for;
- a session or a remembered password does not outlive the change that ends it,
  unless a login, refresh or check overlapped it, and an administrator remains
  unless two remove each other;
- an account has one connection, counts as ready only with a session, and as
  usable only for the channel that is the default now;
- a plugin runs the release its row names, once, and nothing runs unowned;
- after a restart the settings are what they were, but for an emptied log level
  and what a plugin could not store.

Where the code does not keep what it says, section 7 says so.

## 2. Modules

Every module takes its processes and bounds as CONSTANTS, has one action per
critical section, database statement, Telegram call or file operation, and names
in `PROJECT.json` ("map") the lines each definition stands for. Mutants (an
operator such as `Cancel_LeakGrant` in front of `Cancel`) are the definition with
one plausible mistake; each checked property is violated by one of them.

**Admission** is what a slot limiter promises: a set of owners and a limit;
`Admit` adds owners only within the limit, `Leave` takes one away, `Resize`
changes the limit without evicting anybody.

**TaskLimiter** is `taskLimiter` with its queue. `st` tells the four places of a
goroutine apart that matter: blocked in the select (`waiting`), granted and not
yet run (`granted`), owner (`held`), and with a release function that has been
used (`released`; a second call does nothing). `ctxDone` is the caller's context:
when it ends together with a grant, both select cases are ready and either may
run (`Wake`, `Cancel`). `Dispatch` is the loop of `dispatchLocked`. It implements
`Admission` under `owners <- Owners` (property `PromiseSpec`).

**DownloadSession** models one key. A session is queued, owned, failed or
returned; the grace timer is nil, armed or fired, and a callback that has fired
waits for the mutex as a step of its own (`Callback`), which is how `Stop` can
come too late. A request enters, waits for `ready`, takes the mutex again and
finds the session failed, ended, full or joinable.

**UploadLease** models the requests of one browser job and the calls that close
it. `actual` is what `setActual` left in the reservation of a lease; returning
the slot charges it (`ReturnSlot`). The job row is reduced to bytes and a status.

**Scheduler** models the loop of `Service.acquire` for one direction: `Observe`
(generationNow), `Choose`, the two waits, the slot, `Rechoose`, `Reserve`, then
`Commit`, `Store` and `ReturnSlot` when the transfer ends. `fresh` holds the tasks
whose observed generation is still current, so that no counter is needed.
`Midnight` wakes those that sleep, and not one that is about to. The usage of a
day is read once (`Load`); the read may fail, which shows as a booking on a day that
is not `loaded`, and so may the write (`StoreFails`): both are only warned about,
and such an account and day is in `failed`. A transfer is charged what it reports
(`Charges`), which for a download is every range it served, repeated ones included,
or the size it booked; `beyond` sums what was charged above that size. `Restart`
keeps the rows only. The limiter is used through its promise: `TakeSlot` while fewer than `Slots` own one.

**UploadJob** models one job from `Begin` to its end: rows, channel, and the
processes on it. `source` (the column of that name) says whether segments come
from browser requests, one stream or workers. `pc` names the next statement;
`watch` and `dead` are `jobCancels` and the contexts it cancelled; `todo` is the
snapshot of pending segments a process works from. An upload call may fail with
its document posted. A caller of Complete, CancelUpload, Abort or Delete may hang
up before any statement (`Abandon`); `Crash` drops what is in memory.

**StagedDownload** models the rows of staged downloads, what each has on disk
(`none`, `dir`, `part`, `final`), their workers, and the calls on them. Room is
made under `stageMu` as in the code: usage, candidates, eviction one row at a
time. Workers register, lease, run, create, copy, publish, date and set ready,
each a step that may fail and may find itself cancelled. The sweep, the purge and
`ResumeStaged` work on rows they read earlier. Expiry is an action of the clock;
which candidate is evicted first is left open. `MCStaged` lets the calls of one
scene take part in a behaviour, since all at once is beyond TLC.

**ClientDownload** models the downloads a WebDAV client makes of one file: each
range request is a read handle, `clientDownload` counts the open ones and the
bytes, a grace timer settles the record, and the panel cancels it. As in
DownloadSession a callback that has fired waits for the mutex. What
`settleClientDownload` does after the mutex is two statements that each may fail:
the final count (`SettleDownloadCount`) and the status (`SettleDownloadRow`).
`settling` is the status still to be written, `unrecorded` says that the count was
not; `astray` marks rows that a failed status or a restart leaves behind, which
nothing settles.

**Tree** models directories and files as rows (`dirs`, `files`) and records in
the channel (`channel`), and each operation as the steps between which it can be
cut short: Mkdir walks down under `mkdirMu`, sends, inserts and rolls back;
Rename and Move change the rows in one transaction and edit captions after it;
a goroutine (`refresh`) rewrites captions below a directory from what it read;
Delete gathers messages, deletes them and drops the rows. `Like` is the SQL
pattern with its treatment of letter case. `lost` collects the records for which
a call failed, and, under a tag of their own (`Overtaken`), the files that were
renamed or moved after a refresh had read their row: `RebuildReproduces` exempts
both, `WriterReproduces` only the first, and is violated. **Rebuild** is the
indexer as operators from a set of records to an index: `BuildTree` with the
rescue of records that do not lead to the root, `DedupePaths`, `BuildFiles`,
`DedupeFileNames`. `Tree` replaces the index by `Rebuilt(channel)` in two steps,
and with `drill` starts from a damaged channel and no index.

**BatchRename** is `handleBatchRename`: the checks, temporary names for items
that are in each other's way, the renames, and the two ways back. A rename may be
refused without a cause in the tree (`refusals`), as a Telegram call or a plugin
may fail it.

**Reader** models one range request byte by byte: the header, the window of a
segment, chunk planning, the pump that publishes futures in order under a
semaphore and a bounded queue, fetches that finish in any order, fail or find a
short document, the read window that doubles, cancellation, and the copy into the
response. A byte is its offset in the file, so that order and loss are visible.

**FileRefs** models the handles for one segment: each stream keeps the row it
opened with and a state of its own, the cache one per account, and concurrent
refreshes of one account share a round trip. References expire and are
invalidated by renames; a rebuild rewrites the row.

**Cluster** models what an administrator does with Telegram accounts. A request
is the list of steps it still has to take; `reload` and `start` expand into their
steps. `loops` are the run-loop goroutines, which may outlive their manager. What
Telegram answers to `refreshAuth` (`RefreshAuth`) is written in a step of its own
(`SettleAuth`), whatever the loop did meanwhile.
**Membership** models which accounts count as able to store: checks, joins and
links under `channelStateMu`, and what does not take it.

**Plugins** models rows, executables, `activePlugin` entries with their process,
the active map, management requests step by step with their ways back, and the
recovery goroutine of each entry. `binary` at the path and `ver` in the row are
compared by the digest check of `startRuntime`.

**Access** models accounts, refresh tokens, remembered passwords and the
administrators' changes. What a client that is under way during a change of its
account writes is `marked`, and so is what a change leaves that was cut short; a
password remembered between the two statements of `handleCreateUser` is `older`.
Both are history that no step reads. `UnderChange` says that the request is still
at work.

**Settings** models the snapshot, the stored rows, and what an update sets off,
for the settings page (`settingsMu`), the setup wizard and plugins. It keeps one
field of each kind that is treated differently. `SettingsRestart` loads the rows
over the environment, where directories are made absolute (`NormalizeLocalRoot`, a
function between the texts there are). `unsaved` says that a plugin published what
the rows do not yield: it could not be stored, has no app hash, or names a
directory that is not absolute.

**MCSlots**, **MCDrive**, **MCTransfers**, **MCAdmin**, **MCServing** instantiate
several of these at once: a behaviour is one of its parts, chosen in the initial
state, and the variables of the others stay as they began. The parts of one such
module share no state (the limiter and the leases in `MCSlots`; a browser upload and
the tree in `MCDrive`; an upload by the server and a download session in
`MCTransfers`; plugins, accounts, membership and settings in `MCAdmin`; sessions,
WebDAV, the reader, references and batches in `MCServing`). They are checked together
only because each is small; the bounds of each part are its own. **MCScheduler** has
two scenes with bounds of their own, **MCTree** gives Tree its names and its damaged
channels, **MCSettings** gives Settings its values, and **MCAccess** bounds what
section 7 reports of Access. Where a bound is not the value of a constant, it is a
named conjunct of the next-state relation (`ClosersInTurn`, `OneLingers`, `TakeTurns`,
`OnlyUpgrades`, `TwoReleases`, `FounderStays`, `OneExcess`, `FaultsApart`, `Race` and
`Long` of `MCScheduler`, `PatientNext`, those of `SceneNext` in `MCStaged`).

**SlotProofs** (TaskLimiter, UploadLease, Settings), **ServingProofs**
(DownloadSession, FileRefs, ClientDownload, Access), **AccountProofs** (Cluster,
Membership, Scheduler), **PluginProofs**, **ReaderProofs**, **DriveProofs**
(UploadJob, Tree) and **StagedDownloadProofs** hold the theorems about the modules above,
**SumLemmas** what they need of sums and of least and greatest elements
(section 4).

## 3. Runs

Each run takes a minute and a half at most with two workers. Deadlock is not
checked: in every run the system may really stop (requests made, bounds used up);
that nobody waits for ever is checked by the liveness properties and `StreamMoves`.

| Run | Instance | What it shows |
|---|---|---|
| `slots` | four tasks, limits 0..3; or two segment requests, two closers (in turns beside a second lease), two segments, two leases | `SlotAccounting`, `QueueExact`, `WorkConserving`, `NoOvertaking`, `WaiterServed` (liveness), `PromiseSpec` (refinement); `LeaseSound`, `ClosedSlotReturns` (liveness) |
| `drive` | two requests, a completion, a caller that cancels or aborts, two segments, two documents; or two names, depth 2, two directories, one file of two segments, one caller, one refresh, one failed call or crash while there is no file or at most one directory; and channels of up to three directories (lost parents, cycles, a repeated record, the first under either name) with two files | `UploadSound`, `AbortCleansUp`, `NeverRevived`; `PathsMatch`, `IndexBacked`, `RebuildReproduces`, `RescueKeepsAll` |
| `transfers` | two workers or a stream, one caller that cancels or deletes, two segments, two documents, one restart; or three requests of a download, two connections, two sessions, two pending callbacks | `UploadSound`, `NeverRevived`, `TransferEnds` (liveness); `SessionSound`, `RequestAnswered` (liveness) |
| `scheduler` | two transfers that report 0, 3 or their size. Scene `race`: of size 1 or 3, two accounts, the first with a limit of 2, the second without or with 2, one change, every statement succeeds; scene `long`: of size 1 on the first account, two days, one restart, statements of the first day may fail | `BudgetSound`, `WakesForQuota` (liveness) |
| `staged` | files of size 1 and 2; scenes: two requests with the sweep, three transfers in a cache of 2, or two with a change between 2 and 3; one request and two transfers, the small file first, in a cache of 2 with cancellations, or with deletion and clearing; one transfer with all of the upkeep | `StagedSound`, `NoLostBytes`, `RoomKept`, `PurgeEmpties` |
| `staged_resume` | one request, a reader, limit 2, one restart, one resumption while up | `StagedSound`, `StagedEnds` (liveness) |
| `admin` | one account's plugin, two releases, one request, three entries; two Telegram accounts, one request, two loops of the first, which is the one that can sign in; two accounts, two channels, a request beside a poll or a transfer; a page with two requests, a wizard and a plugin, two updates, two accounts, a log level of the environment that is not info, a directory that is not absolute | `NoOrphanChild`, `PluginSound`; `ClusterSound`; `UsableOnDefault`; `SettingsSound` |
| `serving` | two users, one client, one administrator; two WebDAV ranges, a cancellation, two downloads; files of 0, 6 and 10 bytes in segments of 7, whose document may hold 0 or 5; two streams with three chunks on two accounts; two of three files renamed | `AccessSound`; `DownloadSound`, `CancellationStays`; `StreamExact`, `StreamMoves`; `HandlesFit`; `BatchAtomic` |
| `tree_late` | two directories, one file, no failed call, one refresh | violation of `WriterReproduces`, section 7 |
| `access_admins` | two accounts, two administrators' requests | violation of `AdminRemains` |
| `tree_case` | three directories, names that differ in case | violation of `IndexBacked`, section 7 |
| `batch_rename` | three files renamed in one request | violation of `BatchAtomic`, section 7 |

A property named `...Sound`, and `HandlesFit` and `StreamExact`, is the
conjunction of the invariants of its module: `UploadSound` is `TypeOK`,
`BytesMatchMask`, `DoneIsStored`, `OneWorker`; `SessionSound` is `SessionTypeOK`,
`SlotUnderReader`, `ActiveExact`, `OneSlotPerDownload`; `LeaseSound` is
`LeaseTypeOK`, `SlotUnderWriter`, `OneLeaseOpen`, `NoStrandedLease`;
`BudgetSound` is `TypeOK`, `ReservedExact`, `UsageStored`, `CrossedByOne`;
`StagedSound` is `TypeOK`, `OneTransferPerFile`, `ReadyIsWhole`; `PluginSound` is
`PluginTypeOK`, `RunsWhatRowSays`, `ActiveIsEnabled`, `OneRestart`; `ClusterSound`
is `OneConnection`, `ReadyHasSession`, `AccountRemains`; `AccessSound` is
`SessionsEnd`, `RememberedIsCurrent`; `DownloadSound` is
`RowHasOwner`, `HistoryExact`; `StreamExact` is `AnswerExact`, `CutHasCause`;
`HandlesFit` is `HandleFits`, `RowIsOwners`; `SettingsSound` is `SettingsSurvive`,
`GateFollows`.

Why the bounds are enough. Races here are between two or three parties: one that
owns something, one that takes it away, one that comes in between; every run has
at least these. Two segments separate "a segment" from "the last segment"; two
documents are a double post of one segment or one of each. Two leases and two
sessions are a predecessor and its successor. Sizes 1 and 3 against a quota of 2 make
a content fit, cross alone, and cross after another, and a report of 3 for a
size of 1 is a download that repeats itself; in the scene `long` a second day and a
transfer held over midnight separate the day of booking from the day of commit, and
`MaxUsed = 2` lets a transfer come after another was stored. In the scene `race` new
calls stop once bytes were spent, while those already in the loop go on. In the cache, files of 1 and 2 in a cache of 2 make an eviction
necessary and sometimes impossible; a third transfer is needed for one cancelled, one
under way and one asking for room, as section 7 shows. Two directories give a parent and a child, or two
siblings; three records give a cycle with something hanging from it. Ten bytes in
segments of seven, chunks of one or two and windows of two to four let windows,
chunks and segments end apart from each other; one fault can hit any fetch.
Three entries of a plugin are the old child, its replacement and the one a request
starts (with one release; two releases have two entries, an old and a new child); two run loops of an account are the one that ends late and its successor.
Two updates of settings are a change and one that builds on it.
`MCDrive`, `MCStaged` and `MCTree` declare requests or names symmetric, in runs
without liveness only.

Sequential parts. `Overlap = FALSE` in `Tree` keeps operations and a rebuild
apart, and in `Settings` callers of different kinds; in `drive`, `admin` and for the
administrator of `serving` there is one caller at a time. The code takes no lock
there, and with more callers the properties are violated, by interleavings that no
comment of the code promises to exclude: a rebuild loses what was created during
its scan, two moves make a cycle, two
requests leave an orphaned child or a run loop nothing can stop, two updates of
settings lose one of them, two choices of a channel admit accounts to the older. Only that two administrators
remove each other contradicts a comment (`access_admins`). Timers, failing calls, hang-ups, late goroutines,
crashes and restarts interleave freely with the one caller.

Fairness. Weak fairness is asked of what the Go scheduler runs by itself:
goroutines that are not blocked, timers that are armed, workers, handlers of
requests that were accepted, and the calls a started goroutine still has to make.
It is never asked of clients: nobody has to come, and anybody may hang up.
`TaskLimiter` assumes that owners release, since every caller defers the release
function, and a read or an upload has network timeouts. `UploadLease` asks it of
requests that have come and of slots on their way back. `Scheduler` asks strong
fairness of `TakeSlot`: slots come free again and again, and the limiter serves
its waiters in order (`WaiterServed`). After a restart `ResumeRemotes` and
`ResumeStaged` are called once an account is ready; this is assumed only then
(`crashes > 0`). In `slots` the parts that rest have nothing enabled that their
fairness speaks of, so the fairness of one part adds nothing to another.
`StreamMoves` needs none: it says that a step of the pipeline is enabled.

## 4. Proofs

The runs check small instances; the theorems hold for every value of the
constants. They are in modules of their own beside the models, which TLC does
not read. The only assumptions are the named ones in the modules: sets of
processes are finite where something counts them (`TasksAssumption`,
`RequestsAssumption`, `WritersAssumption`, `RangesAssumption`,
`FounderAssumption`), there is a file to stage and a finite number of them
(`FilesAssumption`), different kinds of processes share no member
(`ClosersAssumption`, `WorkersAssumption`, `ProcessesAssumption`,
`KindsAssumption`), bounds are natural numbers (and an account can have a run
loop, `RunsAssumption`), and "nobody" and "none" are not accounts
(`NobodyAssumption`, `NoneAssumption`), nor "free" a call (`FreeAssumption`). A
name that callers give is one that rows may carry (`NamesAssumption`), and a file
has a segment (`SegsAssumption`). Sizes of
segments, chunks, windows and buffers are positive (`ReaderAssumption`). Of
the settings it is assumed that numbers are numbers and texts texts
(`PatchesAssumption`), that making a directory absolute twice changes nothing and
the one of the environment is absolute (`NormalizeAssumption`; `config.Load` makes
it so), and that the other settings of the environment are valid, without which
`config.Load` does not let the server start (`EnvironmentAssumption`). No bound is
a particular number: what a run calls `MaxSessions` or `MaxCrashes` is any number. What transfers may
report to have moved is any set of numbers (`ChargesAssumption`).

| Module | Theorem | Statement |
|---|---|---|
| `SlotProofs` | `TypeCorrect` | `Spec => []TypeOK` |
| | `SlotsNeverLeak` | `Spec => []SlotAccounting`: `active` is the number of owners |
| | `QueueIsExact` | `Spec => []QueueExact`: the queue is exactly the waiting tasks, each once |
| | `NoIdleSlot` | `Spec => []WorkConserving`: somebody waits only when the limit is reached |
| | `AdmissionIsBounded` | no step takes the owners above the limit it runs under |
| | `SlotsInOrder` | `Spec => NoOvertaking`: who gets a slot passes nobody that was queued before and still waits |
| | `LimiterKeepsPromise` | `Spec => PromiseSpec`: the queue implements `Admission` |
| | `LeasesAreSound` | `LeaseSpec => []LeaseSound` |
| | `SettingsAreSound` | `SettingsSpec => []SettingsSound`, for callers of one kind at a time |
| `DriveProofs` | `UploadsAreSound` | `Spec => []UploadSound` |
| | `AbortsCleanUp` | `Spec => []AbortCleansUp` |
| | `AbortedStaysEnded` | `Spec => NeverRevived` |
| | `PathsAlwaysMatch` | `TreeSpec /\ []RescueKeepsAll /\ []NoCaseTwins => []PathsMatch`, for one caller |
| | `RowsAreBacked` | `TreeSpec /\ []RescueKeepsAll /\ []NoCaseTwins => []IndexBacked`, for one caller |
| `ReaderProofs` | `AnswersAreExact` | `ReaderSpec => []StreamExact` |
| `ServingProofs` | `SessionsAreSound` | `SessionSpec => []SessionSound` |
| | `HandlesAlwaysFit` | `RefsSpec => []HandlesFit` |
| | `DownloadsAreSound` | `CdSpec => []DownloadSound` |
| | `EndedRowsStay` | `CdSpec => CancellationStays` |
| | `ChangesTakeEffect` | `AccessSpec => []AccessSound`, for any number of administrators |
| `AccountProofs` | `BudgetsAreSound` | `Spec => []BudgetSound` |
| | `ClusterIsSound` | `ClusterSpec => []ClusterSound`, for one request at a time |
| | `UsableAccountsPost` | `MemberSpec => []UsableOnDefault`, for one request at a time |
| `PluginProofs` | `PluginsAreSound` | `PluginSpec /\ []OnePerPlugin => [](PluginSound /\ NoOrphanChild)` |
| | `NoChildIsOrphaned` | the second half of it |
| `StagedDownloadProofs` | `StagedAreSound` | `Spec => []StagedSound` |
| | `NoBytesLost` | `Spec => []NoLostBytes`, without restarts and resumptions |

Eight theorems carry a hypothesis. `OneRequest` (`Membership`) and `OneTgRequest`
(`Cluster`) say that one request of an administrator runs at a time, with any
number of polls, transfers and late run loops beside it. The code takes no lock
between two of them, and the properties are violated with two: of two choices of a channel made at once the older
may be the last to run `JoinAll`, which counts accounts as usable for the channel
that is no longer the default; two requests that dial one account at once leave
a run loop that nothing can stop. `ChangesTakeEffect` needs no such hypothesis.

`SettingsAreSound` assumes `OneUpdater` (`Overlap = FALSE`), which keeps the page, the
wizard and plugins apart, any number of requests of the page still waiting for
`settingsMu`: without it one caller publishes or stores a snapshot it read before
the update of another. It holds for every environment and every set of updates.

`NoBytesLost` assumes `MaxCrashes = 0 /\ MaxResumes = 0`, as its run does. With a
resumption the property is violated: `ResumeJob` writes a row off as failed whose
worker, just interrupted, leaves behind the directory it had made, and a resumed
worker that gets no account clears the path of a partial file it did not remove
(`FailureRemoves` in section 7). `StagedAreSound` needs no such hypothesis.

`PluginsAreSound` has a temporal hypothesis: at no time are two management
requests on one plugin of one account under way (`OnePerPlugin`); any number on
different plugins are, and every hook, recovery, death of a child, restart and
`Close` interleaves with them. Only `Install` takes a lock in the code
(`installMu`), which the other requests do not take, and with two requests on one
plugin both properties are violated: two times Enable start two children, and
the second to reach the map leaves the first without an owner.

`PathsAlwaysMatch` and `RowsAreBacked` are about any names, depths, numbers of
directories, files and segments, any number of refreshes in the background, and
failing calls, crashes and rebuilds at any point between two steps. They assume
one caller (`OneCaller`) and no rebuild beside it (`~Overlap`): with two callers
two moves make a cycle and a deletion takes what the other has just made, with an
overlapping rebuild what was created during its scan is gone. `NoCaseTwins` says
that no two directories have paths that differ in the case of ASCII letters only,
where the run `tree_case` shows `IndexBacked` violated (section 7).
`RescueKeepsAll` is what a rebuild computes: rows of their types, with the unique
keys, the paths and the messages that rows must have. It is checked by the run
`drive` on damaged channels and after every history of the run, and is a
hypothesis here because `BuildTree`, `DedupePaths` and `DedupeFileNames` are
recursions and folds over the records. The hypotheses hold of the run `drive`.

None of these properties is inductive alone; each module states the invariant
that is (`IInv`, `LeaseIInv`, `RefsIInv`, `CdIInv`, `AccessIInv`, `MemberIInv`,
`PluginIInv`, `StagedIInv`, `BytesIInv`, `ClusterIInv`, `SettingsIInv`,
`ReaderIInv`, `TreeIInv`), was first
checked with TLC on the instance of its run, and is the theorem `InvariantHolds`
(`RefsInvariantHolds` and so on) the others follow from. What had to be added
says what the processes know between two steps.

**TaskLimiter.** That releasing a slot keeps the count exact needs the queue to
hold exactly the waiting tasks (a task granted twice would be counted twice), and
that the queue is exact after a grant needs it to be free of duplicates. Inside a
critical section the invariant does not hold: a slot may be free in front of a
queue when `dispatchLocked` is called, which is what the call repairs. So the
argument goes through `Consistent`, the part about the values handed to
`Dispatch`, and one lemma, `DispatchRestores`: from consistent values, `Dispatch`
leads to a state that satisfies the invariant and admits only within the limit.
The refinement reuses it: it names the set of tasks that were admitted, the
witness for `Admit`. The order of arrival is two more lemmas: `DispatchInOrder`,
that only a prefix of the queue is admitted, and `WithoutKeepsOrder`, that a waiter
taken out of the middle leaves the others as they stood.

**DownloadSession** and **UploadLease.** The counts are cardinalities of sets of
processes, so each step that moves a process adds it to one set and takes it from
another (`FS_AddElement`, `FS_RemoveElement`). A request that waits outside the
mutex knows that its session is queued (the creator) or no longer is (a joiner),
and a session has one creator: otherwise the slot that arrives would be owned
twice or dropped under a reader. No timer runs before the slot is there.

**UploadJob.** `Placed(p)` is what a process may rely on at its next statement:
the row it marks is there as long as the file is, whoever completes the file has
found every segment, whoever records an abort has seen to the file. `DataStep`
states that no step takes any of this back except together with the file
(mask and failures only grow, a file that is gone stays gone); it holds of every
action and carries `Placed` of all the other processes at once. A restart clears
the processes and keeps the rows, so it preserves the rest.

**Tree.** The work is in the step that renames or moves a directory. `Updated`
rewrites every path that `LIKE` matches; that these are exactly the paths below
the directory (`LikeIsBelow`) is where `NoCaseTwins` is needed, since the path of
an ancestor that only looks like the old path is then that very path, every
ancestor of a row being a row (`AncestorsExist`, by a shortest counterexample).
What is below is what has its parent below (`BelowByFolder`, `BelowByParent`), so
the rewritten paths are again those of the parents (`UpdatedKeepsPaths`), which in
turn needs that the new parent is not itself below: `OpFits` carries that from the
check in Move, over the whole Mkdir of the target, to the update. For the
messages, a directory and each segment have numbers of their own
(`MessagesApart`), so that a deletion takes none of another record
(`MessagesOfTheRest`), and what it takes belongs to rows that the cascade will
remove (`SubtreeIsTaken`). Between the two, the rows are `Going`: `Backed` allows
their messages to be gone, and a crash there makes them lost (`HaltKeeps`).

**Scheduler.** `SumFunction` adds in the order `CHOOSE` takes elements, and
induction over finite sets is not available (see the end of this section). The
lemmas on sums (`SumLemmas`) are proved by a smallest counterexample instead: of the finite
sets for which a statement on sums fails one contains no other
(`SmallestSet`, from the well-foundedness of strict inclusion), and taking the
chosen element out of it is a contradiction. With them the sum over the
transfers that hold a reservation gains or loses one summand per step.
`CrossedByOne` uses in addition that a reservation is made only below the limit,
and that a commit adds what it charges above the booked size to `beyond`. A task
that books or charges does so on an account and day that is loaded or has failed,
so that where no statement failed a restart followed by a read finds in the row
what was stored, and what was still to be stored is forgotten with its task.

The exemptions are the code's: a failed `AddTelegramUsage` is only warned about and
its bytes are missing after the next restart, a read that fails leaves the usage of
the day at zero while transfers book on it, and a download pays for what it serves
after it was admitted for what it asked.

**Reader.** A byte is its offset in the file, so that the property is one about
numbers: the body holds start, start + 1, and so on. What is settled with the head
(`FrameFits`) says where it begins and how long it may get; `WindowFits` says where
the open window lies in its segment, that what is left of it begins where the body
ends, and that it reaches no further than chunks were planned for. `Taken(t)` ties
the pump to the reader: the chunks in flight are those from t on without a gap, and
the data at hand ends where chunk t begins or at the end of the window; `OutcomeFits`
says what may have come back for a chunk, and that one that is not whole cancels the
window. Then a step of the reader moves bytes from one of these places to the next
without changing what comes after the body. Where windows, chunks and segments end
is a matter of division with remainder (`Quotient`, `QuotientIs`, `WindowBytesAre`,
`WantedIs`), and that no early end is without a cause follows from the last chunk
that reached the reader being shorter than planned (`CutHasCause`).

**FileRefs.** Every place a handle can be in (the cache, the row, what a stream
copied, a fetch, a round trip) holds one that was minted for the account of that
place; a round trip is led by a stream of its account, so that chunks that join
it get a handle of theirs.

**ClientDownload.** Readers are counted as above. The history follows from what
is on its way: what `settling` is about to write is what happened, a settled
entry has no reader and cannot be cancelled any more, a fired timer has its
callback still to run. A settlement that has not come to its count is `uncounted`;
once it is through, the row has the count of the entry unless the statement failed
(`unrecorded`), after which the status is written all the same.

**Access.** A token, a login under way and a remembered password *fit* the row of
their account, or the change that is about to end them is still at work
(`Pending`, `Forgetting`), or they are marked: somebody was under way during a change,
or the change was cut short. A change that commits makes sessions unfit and is itself
the pending one; it only gets through after `RevokeUserTokens` and `InvalidateUser`
have seen all of them. A new account is the exception: behind its profile nothing
is forgotten, and a password remembered before it agrees with the row but for the
permissions (`Tells`). What is exempt here is violated: `PermissionsAreCurrent` and
`PasswordEndsSessions` of section 7. The rule of the last administrator is not proved:
it does not hold (`access_admins`).

**Cluster.** The steps a request has still to take tell what it has done, since
they are taken one after the other: before it dials, and where it takes an
account away, the manager has been told to stop (`Offline`) and a loaded one is
there (`Dialling`); before it disables or deletes an account it has seen another
one enabled (`Taking`), and before it adds the first it has seen none
(`Inserting`). `ClusterTypeOK` lists the plans there are, `PlansFit` looks at their
heads and tails once, and `GoesOn` says what every step has to do for the rest of
its plan to be in order. A loop that may still hold a connection is the one of its
manager because a dial comes only after a stop; an account that counts as ready
is signed in (`Signed`) except between the end of its session and the stop.

**Membership.** Whoever holds `channelStateMu` is alone in it and works on the
default channel, unless the request that has just chosen another waits for the
lock with every account before it. An account a transfer looks up without the
lock counts as touched, which is how far the property speaks of it.

**Plugins.** The invariant says who looks after each child: the map, the request
or recovery that started it, or the recovery that is about to stop it
(`ChildrenOwned`), and that no two of them do. `ActiveFits` ties the release that
runs to the row; what keeps it true while a recovery is under way is that its
replacement is either of the release of the row or finds, when it wants to take
its place, that the map has another entry (`RecoveryFits`), and while a request
is under way that between the statements of an update or its undoing the map has
no entry at all (`CallsFit`). One lemma per action; the moves they share
(`CallMoves`, `Activates`, `Schedules`, `WearsOn`, `Forgets`) say what an action
of a kind may change.

**StagedDownload.** That a row does not say ready over a partial file is a matter
of who still writes: a worker past publishing has a whole file or none, one
before it has a row that is not ready (`WholeFits`). One transfer per file needs
that a start that makes room holds `stageMu` for a file nobody transfers, from
the lookup to the insertion (`Starts`), and that no worker comes back to a row
that ended. `CallMoves` and `WorkerMoves` say what a step of a request or of a
worker may change: rows only settle, workers are at most interrupted, bytes at
most removed, so that each action has to be looked at for its own job alone.
For the bytes, `BytesFit` says which steps of a worker have nothing on disk and
which rows lead to what is there, `ClearsFit` that whoever is about to clear a
path has removed the bytes or found the row past being ready, `SweepFits` that
what a sweep read as doomed does not come to life under `stageMu`; `Tidy` is what
a step may do to rows of the others.

**Settings.** One caller at a time is past its arrival or the lock, and how far it
has come says how the rows, the snapshot and the limit stand to each other
(`UpdateFits`, `RowsAgree`, `GateFits`): they are allowed to differ only between
its two writes, and by the credentials alone while Configure has stored but not
reflected them. What a restart would read is compared field by field (`StoredIs`),
up to what the services cannot tell apart (`Same`): a zero and its default. The log level is the published one unless that is
empty; a directory that is stored comes back as it was because the page and the
environment make it absolute and a plugin that does not sets `unsaved`. An update that is stored whole is read back whole
(`RowsYield`) because an app hash only becomes empty where the environment has
none, or where `unsaved` says that a plugin has done it.

Only model-checked, and why:

- Out of reach of the prover: liveness under fairness, ENABLED (and so
  `StreamMoves`), and induction over data, so that what a fold or recursive
  function computes is proved only where a smallest counterexample does it.
- `RoomKept` and `PurgeEmpties`: properties of single steps that are not proved yet.
- `RescueKeepsAll`: what the recursions of `Rebuild` compute, induction over data;
  and `RebuildReproduces`, which compares their result with the rows.
- `BatchAtomic`: not proved yet (section 8).

## 5. What is left out of the modelled parts

- Bytes of content other than in `Reader`, text of captions and hashtags, events,
  error texts, mime types; `UploadUnsized`'s correction of the size.
- A change of the cache directory while staged files exist, and the path checks
  of `removeStagedFile`; `removeStagedFile` is one step.
- Plugins' `before` hooks may refuse an operation; refusal is covered by the
  callers' freedom not to call. A hook on `OpenFile` may also replace the file
  (`drive/source.go:303-310`), so that another one is streamed; `Reader` takes the
  file that is opened as given. The delivery of events to plugins, and host calls
  other than settings and `files.abortUpload`.
- Which of two concurrently posted documents of one segment survives: the row
  keeps one, the other stays in the channel, which the code accepts.
- `handleDownloadProgress`, which sets a status without a condition.
- `ClientDownload`: a range that is read twice counts twice, as in the code, up
  to `MaxOverrun`; a restart leaves the row running for ever.
- `Scheduler`: usage is read as a step of its own, which the code takes at the
  first look at an account and day; `scheduler` takes it while a transfer is about to book.
- `Plugins`: one plugin per account; a crash between the renames of an
  installation, after which the executable is missing and the start fails.
- `Membership`: `refreshChannelReference`; files that are in another channel than
  the default (a transfer of one sets `channelReady` from that channel).
- `Cluster`: labels, quotas, proxies beyond whether they can be used.
- `Settings`: the fields that are treated like one that is kept.

## 6. Not modelled

- Calls into the gotd library, pools, proxies and middlewares: every module that
  makes such a call lets it succeed, fail, or lose its answer.
- Permissions, shares, scopes, path containment of local files: stateless checks
  of one request, which unit tests reach.
- Events and progress: best-effort notifications nothing depends on.
- The database layer: a statement is one atomic step with its foreign keys.
- HTTP decoding, the WebDAV translation, the browser interface.

## 7. Disagreements between comments and code

Four are runs of their own (`findings` in `PROJECT.json` quotes the comments):

- `tree_case`: `path LIKE '/a/%'` does not tell the case of letters in SQLite, so
  that renaming or deleting `/a` reaches below `/A`.
- `batch_rename`: the roll-back renames one by one, in an order in which the old
  name of one item is still taken by another: d went to the name of e, e to a free
  one, the third is refused, and e cannot go back before d has; the error is
  ignored and the names stay mixed.
- `tree_late`: the refresh of captions below a renamed directory reads the files of a
  directory and writes them one after the other; a file renamed in between has its
  old name put back into its caption, and a rebuild brings it back. No call fails.
- `access_admins`: two administrators who remove, demote or disable each other at
  once each count two administrators before either writes; none is left.

The following are stated in the modules and violated as well. To see one, put
the property in place of those of the configuration named.

| Property | Configuration | What happens |
|---|---|---|
| `FinishedFileKept` | `MCDrive.cfg` | CancelUpload decides on a status it read before it waited up to thirty seconds; a transfer that completes meanwhile loses its file |
| `CancelledSticks` | `MCDrive.cfg` | a completion that checked the mask before an abort turns cancelled into complete |
| `NobodyStoresAtDelete` | `MCDrive.cfg` | a request that registers after the interruption stores a segment while the row is deleted |
| `PendingFileSettles` | `MCTransfers.cfg` | a restart between the last segment, which completes the job, and Complete leaves the file pending for ever |
| `NoPlaceholder` | `MCTransfers.cfg` | a client that leaves once its stream has a slot makes the first transition fail, and the job stays pending |
| `UnusedSlotReturns` | `MCTransfers.cfg` | a joiner stops the grace timer and leaves before it has joined; nobody arms the timer again and the session keeps its slot |
| `PaidOnce` | `MCSlots.cfg` | a second lease of a finished job is charged its bytes again |
| `WakesForAccount` | `MCScheduler.cfg`, with `MaxDays = 1` for the first | a transfer that sleeps for its budget is woken neither by an account that signs in nor, if it set its timer just after midnight, by the new day |
| `NoRowStranded` | `MCStaged.cfg` | a caller of CancelStaged hangs up between the interruption of the worker and the status: the row stays running with nobody on it |
| `CopyReused` | `MCStaged.cfg` | a copy that gets ready between lookup and lock is staged again |
| `CancelRemoves` | `MCStaged.cfg` | a worker that registers after the cancellation publishes a copy whose path is then cleared |
| `FailureRemoves` | `MCStagedResume.cfg` | a resumed worker that gets no account clears the path of a partial file it did not remove |
| `ReservationsFit` | `MCStaged.cfg` with `MaxResizes = 0`, without the conjunct on `Cancelling` in `SceneNext` | makeRoomFor reads the usage and the rows to evict in two queries, and `stageMu` holds neither workers nor cancellations off: a cancelled row whose worker stores its path in between is not counted by the first and evicted by the second, its size is taken off a usage that never held it, and two live transfers exceed the cache, although "two downloads cannot both decide there is room for the same free space" (`drive/download.go:522`); it takes three transfers and a cancellation, and `RoomKept` holds without one |
| `ReservationsFit` | `MCStagedResume.cfg` | the same with a copy that got ready meanwhile: its path is cleared first, so the next request does not count a file that is still there |
| `SuccessIsContent` | `MCServing.cfg` | the status 206 is written before OpenFile, whose failure is then sent as content |
| `PoolFollows` | `MCAdmin.cfg` | an update of credentials and pool size together reconnects the primary only |
| `CredentialsMirrored` | `MCAdmin.cfg` | Configure keeps credentials in memory whose row or settings could not be written |
| `PermissionsAreCurrent` | `MCAccessAdmins.cfg` | `handleCreateUser` writes the permissions of a new account in a second statement (`api/users.go:145`) and forgets nothing behind it: a password verified between the two is remembered with the permissions of the first. "Cached Basic credentials carry the old permissions and the old enabled flag, so WebDAV would keep honouring them for the cache's lifetime" is why `handleUpdateUser` does forget (`api/users.go:248-249`) |
| `PasswordEndsSessions` | `MCAccessAdmins.cfg` with `PatientSpec` | a refresh that read its session before a new password was written issues the session again after the others were revoked, although a new password "ends every existing session for that account" (`auth/service.go:316-317`) |
| `ReadyIsUsable` | `MCAdmin.cfg` | `refreshAuth` writes the answer of Telegram (`tgc/client.go:408-428`) over the state of a run loop that ended while it asked; `Stop` leaves the state ready as well. "StateReady means signed in and usable" (`tgc/client.go:52`) |
| `SavedTakesPrecedence` | `MCAdmin.cfg` | the page may save an empty log level, which is info at once and the level of the environment after a restart, although "a saved WebUI value takes precedence" (`config/runtime.go:252-254`) |

Without a comment to contradict:

- a transfer that finds the budgets used up just before midnight and computes its
  timer just after sleeps a whole day (`quota.wait`); `WakesForQuota` is stated
  for a day without a midnight;
- an update of settings that failed to reconnect is not retried by sending it
  again, since nothing has changed then; a plugin's update is published before it
  is stored and stays when it cannot be, and may name a directory that is not
  absolute, which a restart makes so;
- usage that could not be written or read is only warned about, and the final count
  of a download a client pulls is only logged;
- two refreshes of one token at once both succeed; a change that hangs up before
  it forgets the remembered passwords leaves them for their lifetime;
- a late failure of an old child restarts the healthy one that replaced it;
- one stream that hangs up fails the chunk of another that shares its refresh.

## 8. Plan

1. Proofs: the action properties of `StagedDownload` (`ReservationsFit` without
   cancellations), `BatchRename` (`BatchAtomic`).
2. `DownloadSession` over `TaskLimiter` in one run, with the limiter's queue in
   place of its promise.
3. Event delivery to plugins and the bridge that starts and stops with them.

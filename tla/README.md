# Ycloud: TLA+ specifications

Ycloud is a self-hosted file service (Rust, axum/tokio, with a Vue front end) over
local directories and S3 buckets. This directory keeps TLA+ models of the parts whose
correctness depends on ordering, crashes and concurrency, TLC configurations for small
instances, and TLAPS proofs for every instance. Paths below are relative to the
repository (`src/src/...` is its Rust source).

## 1. Inventory

| Component | State | Operations | Hard behaviour | Module |
|---|---|---|---|---|
| Local file transactions (`storage_transaction*`) | files in `uploads copies backups trash anchors`, journals, deletion records, receipts, `pending_publication` | publish an upload, transfer or move with replacement, roll back, stage a deletion, recover, read and prune receipts | crash or I/O error between any two calls; recovery interrupted; evidence that must survive its own cleanup | `LocalTransaction` |
| Local storage service (`storage.rs`, `storage/`) | mutation gate, staging ownership, cleanup queues | begin/abandon/commit a write, copy, move, delete, two cleanup workers, capacity scan | who owns a staging file when a request, a worker or recovery could all remove it | `LocalTransaction`, `CapacityAccounting` |
| Storage lifecycle (`storage_backend/lifecycle.rs`, `state.rs`, `state/storage_update.rs`) | `editing`, `retired`, transfer token, leases, lifecycle lock, owner permits, registry, configuration | admit, own a mutation, interrupt, drain, reopen, retire, replace, re-enable, recover abandoned uploads | check-then-act over atomics and locks, a timeout that hands a half-drained guard to a background task | `StorageLifecycle` |
| Capacity accounting (`capacity.rs`, accounting guards, `maintenance.rs`) | limit, used, reserved, accurate, reconciling, ledger file | reserve, grow, rebase, commit, drop, mark uncertain, persist, scan | reservations without the gate, unknown results, three reconcilers that defer to each other | `CapacityAccounting` |
| Upload batches (`upload_batch*`) | tickets and items, persistent index | plan, begin, finish, cancel, confirm, retire | writes that outlive their request, results that arrive late, limits, restart | `UploadTicket` |
| Upload recovery (`upload_recovery.rs`) | unknown items bound to instances, cursor | bind, recover, confirm | fairness of a bounded budget | in part `UploadTicket` |
| S3 file operations (`s3_backend/upload.rs`, `file_move_transaction.rs`, `copy.rs`, `deletion.rs`, journals, `recovery*.rs`) | objects, staged objects, backups, multipart sessions, four journals in the bucket, registry of pending journals | upload, conditional upload, move, copy, delete, activate, recover | lost answers, a store without transactions, other clients | `S3Transactions` |
| S3 directory operations (`s3_backend/directory_transaction*`) | journal with stages, objects, trash | copy, move, delete, create, replace a directory, recover | many objects and one journal that is written in batches | `S3Directory` |
| Direct uploads (`direct_upload.rs`, `s3_backend/direct.rs`) | bounded store of sessions, command channel, result, flags | start, sign, complete, cancel, expire | a handler and an owner task that can each disappear | `DirectUpload` |
| Listings (`directory_snapshot.rs`, `directory_listing.rs`) | snapshots, builds with waiters, permits, generation | claim, build, wait, publish, evict, invalidate, cut a page | invalidation beside scans, waiters of a build that dies, pages across changes | `DirectoryListing` |
| Requests on files (`storage/*conditions.rs`, `storage/response.rs`, `object_read.rs`, `archive.rs`, `webdav*`) | archive tickets, publication guards | conditional write, transfer, download, resume, archive | checks before the body, HEAD and GET apart, minutes between preparation and download | `FileRequests` |
| Sessions and login (`auth*`, `login_security.rs`, `totp.rs`) | sessions, tokens, failure records, blocks, used codes | log in at five doors, log out, change credentials, enrol a second factor | a credential snapshot used after a slow computation; clients that leave while a code is spent | `Accounts` |
| Configuration (`config/`, `state.rs`, `bootstrap.rs`) | configuration file, backup, initial credentials, retired-storage index, and their copies in memory | edit, delete and activate storages, other settings, settle retired connections, start | several files replaced one after another, unconfirmed renames, a worker beside edits | `Configuration` |
| Traffic (`traffic*`) | ledger, journal, snapshot, queue of charges | charge, group commit, compact, replay | group commit, cut tail, failure in the middle of a group | `TrafficLedger` |
| Bandwidth limiter, relay budget | token bucket, semaphore | wait, acquire | none that TLC could decide | - |
| HTTP, WebDAV, administrator interface, front end | none of their own | parse, format, route | - | through the modules above |

Interaction: a request obtains a backend from the registry (`StorageRegistry::get` ->
`admitted`), every mutation runs as an owned task (`owned_mutation`). A local mutation
takes the mutation gate of `StorageService`, drives a transaction of `TransactionPaths`
and reports each of its boundaries to an accounting guard, which drives the
`CapacityTracker`; an S3 mutation takes the mutation gate of its backend, keeps a journal
in the bucket and registers it with the recovery worker. Every change of the tree
invalidates the directory snapshots. Settings calls interrupt, drain and replace
backends and publish the configuration; deleted connections pass to the retired index,
which a worker settles with the S3 recovery. Downloads are admitted by the traffic
ledger chunk by chunk. The upload ticket learns outcomes from the call's result or,
later, from receipts; a direct upload is such an upload whose bytes do not pass through
the server.

What makes the parts correct: no acknowledged content is lost or resurrected, receipts,
tickets and answers tell the truth, startup recovers from every crash, exclusive work is
really exclusive, admission reopens, usage called accurate is the truth, limits hold,
sessions end with their credential, listings and bodies are of one time.

## 2. Modules

| Module | Models |
|---|---|
| `LocalTransaction` | transactions, deletion, cleanup, receipts, the item of a ticket, recovery, crashes and I/O errors |
| `StorageLifecycle` | admission, interruption, edits, re-enabling, recovery admission, the S3 gates |
| `CapacityAccounting` | the tracker, its ledger, the tasks and reconcilers that use it |
| `UploadTicket` | one upload ticket: registry, persistent index, requests, executors, confirmation, retirement, restart |
| `S3Contract` | what the object-storage backend promises: the abstract specification of `S3Transactions` |
| `S3Transactions` | uploads, moves, copies and deletions of files in a bucket, their journals, activation and recovery |
| `S3Directory` | directory operations in a bucket, their journal and its recovery |
| `Accounts` | logins, credentials, sessions, tokens, second factor, failure records |
| `Configuration` | configuration, backup, initial credentials, retired index, the requests and the worker that change them |
| `TrafficLedger` | charges, group commit, compaction, replay, metered bodies |
| `DirectoryListing` | the snapshot store and the traversals that use it |
| `FileRequests` | extends `DirectoryListing` with the requests that change or read the directory's files |
| `DirectUpload` | the sessions of direct uploads, their owner tasks and handlers |
| `LocalTransaction_proofs`, `StorageLifecycle_proofs`, `CapacityAccounting_proofs`, `UploadTicket_proofs`, `DirectUpload_proofs`, `Configuration_proofs` | inductive invariants and theorems of these modules |
| `S3Transactions_books`, `S3Transactions_proofs` | the two layers of the invariant of `S3Transactions`, and its refinement of `S3Contract` |
| `MC_*` | instances for TLC: scenes, casts, bounds, symmetry |

Definitions named `...Early`, `...Unchecked`, `...Blindly` and the like, each introduced
by a comment starting with "mutant:", are wrong variants of the definition that follows;
they are not part of any specification. `PROJECT.json` says which property each of them
must break and which source lines each definition stands for.

### LocalTransaction

All changes of the user tree happen under one mutation gate, so a single control
location `pc` is the position of the gate's holder; `ret` is the continuation of
`settle_publication` and of `stage_delete` when it is called for a backup. Staging
(`Stage`, `Abandon`, `CleanAbandoned`) happens outside the gate. A transaction is a
record of `info`; the file it makes is named by its id, so contents can be compared.

The filesystem has two parts: `disk`, what the process sees, and `crash`, the images a
power failure may leave. Metadata operations are atomic and reach the disk in order;
syncing a directory makes its last operation, and all before it, durable. Each action is
one call with its change and names the directories the code syncs next (`dirty`), which
the following action settles first; an error in between leaves a change visible and not
durable. Data blocks are not modelled: the code syncs a file before it is renamed.

| Actions | Code |
|---|---|
| `Commit, Admit, Reject, TakeOwnership, LinkAnchor` | `publish`, `commit_file_with_operation` |
| `Transfer, CopyStaging, DirectChange` | `transfer_with_capacity`, `copy_admitted`, `move_path`, `create_directory` |
| `WriteJournal ... Retire, Done` | `publish_replacement` |
| `RenameFails ... RollbackCompleted` | its rollback |
| `Delete ... DeleteDone`, `Cleanup*` | `stage_delete`, `cleanup_pass` |
| `Settle, Settled` | `settle_publication` |
| `Confirm, Prune` | `confirm_unknown_outcome`, `prune_receipt` |
| `Boot, RecoverOnline, Scan, Judge ... RecoveryDone` | `recover`, `read_recovery_inventory`, `recover_replacement` |
| `Fail`, `Crash` | any call returning an error; power loss |

A behaviour starts in one of `Scenes`, which says which operations, transactions and
faults it may use and whether the filesystem has hard links.

`allowed` and the component `seen` of an image are history variables: what a client may
find at a path, and which publishing renames are in an image. `window` holds the unknown
items that `upload_recovery` may confirm in its present pass: it confirms the items of a
storage only after that storage's recovery ended without an error.

### StorageLifecycle

One action per point at which another task can interfere: an atomic load, a lock, a
permit. `rq` walks a request through `storage_backend`, `get`, `admitted` and
`owned_mutation`; `gd` walks a `StorageEditGuard` through `begin_interruption`, `drain`,
`Drop` and `reopen_after_interruption`, or through `edit_guard` (locations `e_...`).
What a guard holds is a function of its location (`EditingOf`, `OwnersOf`, `GateOf`,
`RecoveryOf`, `CapacityOf`). `fg` says whether a settings call still owns the guard:
dropping it (a timeout, an error, the end of the call) leaves a background drain.
`gen` and `cut` stand for the transfer token: a new token is a new generation.
`plan`, `mine`, `saved` describe the one settings call that holds `storage_updates`.
The tokio `RwLock` and `Semaphore` are external: they are fair, so a queued writer also
stops later `try_read`s.

### CapacityAccounting

Byte counts are numbers and paths are dropped: an operation replaces any number of the
stored bytes. A task `o` goes through reservation, streaming, gate, preparation, rename,
accounting, persistence and the destructors; `acct` is the pair of flags of its
accounting guard. `stored` is what a scan would find, `parked` what recovery may put
back. The three reconcilers are the wake-up worker, the six-hour sweep and the scan
after a failed move.

### UploadTicket

A critical section of the registry mutex is one action. What the code does outside of
it, under the ticket's `transition` lock, is the write of one item record: it is either
confirmed (renamed and the directory synced), unconfirmed (renamed only: `undo` keeps
what a power failure may bring back) or not written. A record and the registry's entry
that follows it change in one action: the entry is lost in a crash, and a handler dropped
between the two is the same as a write that lands right after the disconnection.
A dropped handler releases the lock and leaves its blocking write in `late`.
Restarts lose everything but the files; `Load` may find the ticket's own expiry before
or after the registry's, because a record can carry a longer one. `truth` is a history
variable: whether the item's upload changed the storage; `Resolve` is the storage's
recovery, which `LocalTransaction` models in detail.

| Actions | Code |
|---|---|
| `Begin, Decide, Admitted, AdmissionFails, Revoked` | `begin` |
| `UploadEnds, Interrupted, Settle, Settled, Drop, Dropped` | the execution task, `finish_with_status`, `UploadExecutionGuard` |
| `Cancel, CancelDecides, CancelOne, CancelFails` | `cancel` |
| `Disconnect, LateWrite` | a dropped handler and the write it leaves behind |
| `Inspect, Confirm, ConfirmEnds` | `upload_recovery`, `confirm_unknown_outcome` |
| `Invalidate, Expire, Retire, Remove..., Forget, RetirementFails` | `invalidate_storage`, `prune_expired`, `retire_batch`, `BatchPersistence::remove` |
| `Restart` | `load_persistent` |

### S3Contract and S3Transactions

`S3Contract` has no store, journal, gate or worker: an operation is asked for, takes
effect at most once, and is answered `committed`, `failed` or `unknown`; `failed` is a
promise that it never takes effect, `committed` that it has. A move has two effects,
because the backend's moves are not atomic. `S3Transactions` implements it with
`content` mapped to the writer of each object (`KeepsContract`).

In `S3Transactions` each action is one request to the store with the bookkeeping around
it. `run[o]` is the position of the operation's executor, which is the request's task or,
for `run[Rec]`, the recovery worker or activation. A request fails without effect, takes
effect and is answered, or takes effect and loses its answer (`Touch` and the actions'
alternatives); `known` is the ETag the executor has learnt. A crash clears everything but
the bucket. An object is a body and a generation of its ETag: a server-side copy keeps or
changes it (`Keeps`). A journal is registered with the worker before it is written and
forgotten after its confirmed removal (`pending`).

| Actions | Code |
|---|---|
| `Start, Lock, Interrupt` | admission by the gates, an upload cut off by an edit or its client |
| `WriteIntent, StageSingle, OpenSession ... AbortSession, Inspect, Abandon` | `single_upload`, `multipart` and its session record, `internal_upload_intent` |
| `Check, WriteTransaction ... Publish, Confirm, Restore, Remark, Clean` | the transaction of `upload_file_scoped`, `conditional_publish`, rollback and cleanup |
| `CopyFile, ConfirmCopy, DeleteFile, ConfirmDelete` | `copy_file`, `delete_file` |
| `BeginMove, MoveCopy, MoveLost, MoveMark, MoveDrop, MoveEnd` | `execute_file_move_transaction`, in the foreground and in recovery |
| `RecoverIntent, RecoverParts, RecoverUpload, RecoverFinish` | recovery of each kind of journal |
| `WorkerWakes, WorkerEnters` | `recover_runtime_transactions` |
| `Activate, Probe..., ActivationStep` | activation probe and `recover_transactions` |
| `ForeignWrite`, `Crash` | another client of the bucket, the end of the process |

### S3Directory

`Write` is the PUT of the journal, one per stage and per batch of `Every` items; `mem` is
the executor's copy, `journal` what is in the bucket. `CopyOne`, `CreateMarker`,
`DropOne` and `Clean` are requests on single objects. The executor is the owned task of
the request, the worker or activation (`exec.who`); `Recover`, `Open` and `Activate`
resume from the stage the journal names, with the checks of `validate_transaction_progress`
(`ValidProgress`) and of the source snapshot. An operation can carry a replacement: the
old target goes to the trash first and is restored when the operation fails.

### Accounts

A credential is a generation number, so "the same password hash" is equality of numbers.
`attempt` walks a login through the stripe lock, the block check, the snapshot, the slow
password computation, the second factor, the second check under `auth_transitions` and
the issue of a token; `change` walks an administrator's request through
`update_config` and the revocation of sessions under the same lock. `Write` and `Publish`
are apart because a dropped handler does not stop its blocking write. `records` is the
list of failure records, bounded by `MaxRecords` with eviction; memory and disk agree,
since `persist_state` comes first. `wrong` and `spent` are history variables. A TOTP
period is one tick of `clock`; `consumed` keeps a used period for two more of them, by the
clock of the call that spends one (`Retained`), and `spent` remembers when each proof was
spent.

### Configuration

`dir` is the sequence of directory contents since the last directory sync; a power loss
keeps one of them. `job` is the publication that holds `config_updates`: `Rotate, Rename,
Sync, RefreshBackup, Published, Refused` are the stages of `publish_with_backup`. `op` is
the storage request (`Stage ... Install`), `setting` another settings request, `pass` the
worker of `bootstrap.rs` over retired connections. `Start` loads the primary or falls back
to the backup, rebuilds the retired index and refuses what the code refuses. A connection
owes work (`owing`) from the first write through it until a pass or a drain that settled
it.

### TrafficLedger

`TakeGroup` collects the charges of a commit group; `Consider` tries them one after
another, each by the clock of its own moment, and a refused one leaves the candidate
ledger advanced without a record (`Refused`); `Conclude` drops a ledger nobody was granted
on, and `AppendRecords, PublishSnapshot, TruncateJournal, Settle` are
the writes of the group with their failures (`Latched` stops the runtime for good);
`LoadLedger, LoadPublish, LoadTruncate` are the start. A stream charges a chunk before it
passes it on and may leave at any time. The clock may go back. The writer holds the
configuration's read lock while it considers, so `EditCycle` waits for it.

### DirectoryListing and FileRequests

`DirectoryListing` is a parameterised component: the snapshot store (`Claim`, `Wake`,
`SortEnd`, `Abandon`, `ScanFails`), the scan of one entry after another, the page cut out
of a snapshot or gathered by the bounded collector, and traversals of several pages. A
name is its rank, so sorting is comparison of numbers. `FileRequests` extends it with the
operations that change the same directory and adds its own reads. A change is one step:
the modules above say how it is committed. `Plan ... AnswerWrite` is a mutating request
with its early precondition, its guard at the moment of publication (a browser's upload
asks there that nothing is in its place) and the invalidation before its answer; `Get,
GetObject, Chunk, Break` a download that is resumed or revalidated; `Prepare ... CopyPart`
an archive from the choice of its parts to the end of its stream.

### DirectUpload

`owner` is the task that a `start` spawns: it begins the ticket's item, runs the upload
pipeline with the command loop inside, stores the result, finishes the item and clears
`active`; `Interrupt` ends it early and its guard's destructor runs. An upload that was
not published ends `failed`, or `pending` when its cleanup is left to recovery, which an
interruption by an administrator's edit brings about (`multipart.rs:54`): both are told as
not committed, but `pending` leaves the item Unknown (`StatusOf`,
`upload_batch/item.rs:83`) until recovery has confirmed it; on S3 the absence of an object
proves nothing, so `Confirm` can only find it committed. A failed abort or HEAD at the end
of a multipart upload is one of these two as well: what `multipart.rs:90` calls Unknown
becomes not committed with a pending cleanup in `upload.rs:169-185`. The handlers are
`rq`: `start` under the store's mutex and `config_updates`, `sign`, `complete` and
`cancel` over the bounded channel, `wait_result` as its separate steps (register, look at
the result, look at `active`, sleep). `cancel` waits like `complete` but throws the result
away and answers success, also after a commit, so only `complete` adds to `told`.
`DropHandler` drops a handler at any of them. The store bounds its sessions and the active
ones, and has no limit per path; how many of an account may be active is a policy that the
administrator may change at any time (`SetConcurrency`) and that is only looked at when
one is added.

## 3. Runs

| Run | Instance | Shows |
|---|---|---|
| `local` | seven scenes with 1 to 3 transactions, 2 paths and up to 2 tracked items; up to 2 crashes and 1 error | visible content is allowed, items and receipts tell the truth in every image a crash may leave, crashes alone never block startup, debt covers the trash |
| `lifecycle` | 1 request, 2 guards, 1 permit, S3 gates, 2 interruptions, fair | exclusivity, succession, running mutations are of the current generation, admission reopens |
| `capacity` | 2 tasks, 3 reconcilers, a limit of 1 or none, 1 byte, 1 fault, fair | usage and ledger are true, the limit is never overcommitted, uncertain usage is measured again |
| `ticket` | 2 items, 2 requests, 1 disconnection, 2 faults, 1 restart, expiry and pressure | exactly one executor, truthful states, final results |
| `s3_files` | 2 operations of 6 kinds on 2 files, multipart for one, 1 fault, 1 crash, 1 foreign write | the contract, no orphaned object, refusals only for a cause |
| `s3_move_replay` | a move and a copy back, no fault | a disagreement, section 5 |
| `s3_directory` | 1 operation of 5 kinds with or without replacement, 2 directories, 2 items, 2 faults, 1 crash, 1 foreign write, fair | no body lost, true answers, kept results, ended journals |
| `accounts` | 2 logins at 5 doors, 1 credential change, 1 failure allowed, 1 failure record, 1 fault, 1 restart, 2 clock ticks; or 2 administrator logins from 2 addresses over 4 ticks, 1 fault | current sessions, proofs spent once while they are remembered, failures limited |
| `configuration` | 1 storage id, 2 connections, 2 edits, 1 other setting, 1 worker pass, 1 fault, 1 power loss, 1 damaged file | owed connections, readable initial passwords, accepted changes |
| `traffic` | 2 bodies of 2 bytes (guest; account or administrator), limits 2 and 1, compaction after 2 records, 1 clock step, 1 edit of the cycle, 1 fault, 1 crash, fair | exact replay, durable release, hard quotas, answered charges |
| `requests` | 8 casts: traversals beside changes, conditional writes, transfers, downloads, an archive; local and S3 | fresh and complete pages, served listers, conditions, bodies of one version, whole archives |
| `direct` | 2 handlers, 1 file, 2 sessions, 1 part, a channel of 1, 1 dropped handler or interrupted owner; or 2 starts of one account on 2 files under a limit of 1 or 2 that may change; fair | true answers, every handler and session ends |

Bounds. Two crashes are the least that interrupts a recovery; a local scene has at most
two faults together: two crashes, or an error and a crash on either side of it. The
scenes of `MC_Local` divide what one instance cannot hold: each has the operations that
meet in the code on one path (an attempt and its retry, an upload beside a recovery, a
replacement beside a deletion), and its own bounds. Two guards are a foreground edit
beside a background drain (`editing` admits no third); the safety properties are proved
for any number of requests and permits. One byte of limit makes each reservation
decisive; `MC_Capacity!Bound` keeps a second task, a fault and a lifted limit apart.
For a ticket, two requests are an executor and its retry or a cancellation, two faults an
unconfirmed write and the failure of the next, and two items make a cancellation that
ends half-way. Two S3 operations are one whose journal is left and one that meets it;
more than two would only add journals, which recovery takes one after another. A
directory of two items is the least that a batch, a crash or a lost answer can divide.
One failure record makes every eviction happen, one allowed failure every block. A used
period is forgotten at the third tick after it, and a login from a second address is
needed to spend one beside a login that waits, for the stripe lock of an address admits
one at a time; `MC_Accounts!TwoAddresses` has both, for administrators alone.
`MaxRetired = 1` makes the retired index full at once. Compaction after two records falls
between two groups and inside one. The casts of `MC_FileRequests` pair the clients that
touch the same state; a page of one entry, one snapshot and one build put every cache and
gate at its limit. `MC_DirectUpload!Bound` lets one fault happen and separates it from
the retry; `MaxSigns` bounds the part addresses a browser asks for. That one is a bound
on more than the instance: each request restarts the timer of `s3_backend/direct.rs:79`,
so a browser that keeps asking holds its session, and `DirectUploadsEnd` is about browsers
that stop. In all other cases only clients, administrators and faults are held back, never
a step the code owes.

Byte sums are natural numbers: the code's `u64` additions saturate and stay far below
2^64 on a real disk, while subtraction, which does meet its edge, is modelled as
saturating.

Deadlock is checked in the lifecycle and capacity runs. Elsewhere it is not, because the
system may stop there: a storage that refused to start, clients that have nothing left to
ask for, a ticket whose life has ended.

Fairness. `StorageLifecycle`: spawned drains, destructors, settings calls and gate holders
go on, and a running mutation ends, because its payload stream is cancelled by the token.
A request need never end by itself: revocation does not need it. `CapacityAccounting`:
spawned tasks go on; tokio's mutex is FIFO, hence strong fairness for a queued scan; the
sweep is an interval task. Without the sweep `UncertaintyEnds` does not hold (section 5).
`S3Directory`: the owned task of an operation goes on, the worker retries while anything
is pending, and a closed storage is opened again (somebody asks for that: `JournalsEnd` is
about storages in use). `TrafficLedger`: the writer is a task of
its own. `FileRequests`: a page request that is not given up goes on, and a sort on the
blocking pool ends; clients owe nothing, and the other requests need no fairness.
`DirectUpload`: handlers that are not dropped and owner tasks that are not interrupted go
on, and the upload timeout is a timer that fires. The other modules state safety only.

Type correctness is proved for the modules of section 4, and no run repeats it.

## 4. Proofs

Proofs are for arbitrary constants under the named assumptions of the modules
(`LifecycleAssumption`, `CapacityAssumption`, `ActorsAssumption`, `TicketAssumption`,
`DirectAssumption`, `ConfigurationAssumption`, `OpsAssumption`, `ConstantsAssumption`,
`VoidAssumption`, `ScenesAssumption`): identities differ from each other and from `None`
or `Void`, a new transaction id names nothing that existed before, and bounds are natural
numbers. The
bounds on faults, crashes, requests and steps are constants too, so the
theorems hold for any number of them. TLC evaluates every assumption.

| Theorem | States |
|---|---|
| `GateIsExclusive`, `SuccessorIsAlone`, `ReopeningIsClean` | `ExclusiveMeansQuiet`, `SuccessorAlone`, `RunningIsCurrent` |
| `InterruptionIsUnique`, `GuardedPolicy` | one guard interrupts; a policy saved under its own interruption finds no live token |
| `UsageIsTrue`, `LedgerIsCurrent` | `AccurateIsTrue`, `LedgerFollows` |
| `OneExecutorAlways`, `TruthIsReported`, `ResultsStayFinal` | `ExactlyOneExecutor`, `ReportsTruth`, `ResultsAreFinal` |
| `AnswersAreTrue`, `StoreIsBounded`, `PolicyIsFollowed` | `DirectAnswersAreTrue`; `StoreIsWithinBounds`; `AdmissionFollowsPolicy` |
| `OwedStaysRecorded`, `PasswordsStayReadable`, `ChangesStay` | `OwedIsKept`, `InitialPasswordsStayReadable`, `AcceptedChangesStay` |
| `BooksInOrder`, `NothingIsLostFromSight` | `Bookkeeping`; `NothingIsOrphaned` |
| `RefusalsAreExplained`, `ContractIsKept` | `RefusalsHaveACause`; `KeepsContract`, the refinement |
| `TransactionsAreExplained` | the inductive invariant of `LocalTransaction` |
| `DebtAlwaysCovers`, `OutcomesAreAlwaysTrue` | `DebtCoversTrash`; `OutcomesAreTrue` |
| `ImagesAreAllowed`, `VisibleIsAlwaysAllowed` | `Shown`: what every image shows clients; `VisibleIsAllowed` |
| `LifecycleTypeOK`, `CapacityTypeOK`, `TicketTypeCorrect`, `DirectTypeCorrect`, `ConfigurationTypeCorrect`, `S3TypeCorrect`, `TypeCorrect` | type correctness |

`StorageLifecycle_proofs` proves the type invariant, `ExclusiveMeansQuiet`,
`SuccessorAlone`, `RunningIsCurrent`, and two facts that no run repeats:
`OneInterruption` and the action property `GuardedPolicyCancels`. None but the type
invariant is inductive. The argument: `editing` is the claim of exactly one guard
(`Claimed`); from its cancellation to its reopening the current token
is cancelled (`Cancelled`); it takes all permits before it revokes leases, so a running
mutation never loses its lease (`OwnersQuiet`, `Leased`); a revoked lease belongs to a
token that stays cancelled because reopening installs a newer generation than any token
handed out (`TokensBehind`); hence a running mutation is a reader, which the write lock
excludes (`GateQuiet`). `Replacing` and `Succeeded` tie a successor to a drained or a
retired instance.

`CapacityAccounting_proofs` proves the type invariant, `AccurateIsTrue` and
`LedgerFollows`. The two properties are broken for a moment inside the gate, so the
inductive invariant says who is inside (`Holders`), what tasks and scans measured there
(`Measured`), how far usage lags behind the disk after a rename (`Truth`) and who still
has to write the ledger (`Written`).

`UploadTicket_proofs`. One executor per item is not inductive: two requests may both have
found the item free, and only the ticket's lock keeps the second from believing it. The
invariant says who holds the lock (`LockHolders`), that what was found under it stays true
until it is released (`Decided`), that whoever will store an item's result owns the item
alone and, while no client has disconnected, that an item in progress has such an owner
(`Owners`). `Verdicts` says that what is about to be stored agrees with `truth`. The rest
is about the files: no record a restart may find claims more than happened (`DiskIsTrue`),
a write whose request is gone meets an item nobody executes (`LateIsHarmless`), and a
restart does not forget an upload that changed the storage (`DiskRemembers`).
`ResultsAreFinal` is an action property and follows from the invariant step by step.

`DirectUpload_proofs`. An answer of `complete` is the session's result, the result is the
outcome of the upload, and the outcome is that of the bucket (`Results`, `Outcome`);
between them stands the ticket's item, which belongs to one session as long as that
session's upload runs, was interrupted or left its cleanup pending (`Items`).
`StoreIsWithinBounds` needs `Room`: a start is admitted long before its session is
inserted, and there is still room because it keeps the mutex of the store; the policy it
was admitted under is still in force because it keeps `config_updates`, from which
`AdmissionFollowsPolicy` follows step by step. That the active sessions of an account stay
below the policy is no invariant: it may be lowered under them. TLC checked
both with three sessions on two files before they were proved; no run repeats them.
The lemmas about cardinalities rest on `FiniteSetTheorems`.

`Configuration_proofs`. Everything is said of every directory a power loss may leave
(`Reach`), not only of the present one. `Mains` and `Directory` say which configuration
each of them can hold before, in and after the job that publishes; `Backups` that the
backup names the same connections, unless a refresh was lost; `Intent` and `Publication`
that a storage request and a settings request, each of which works on a copy taken
earlier, change nothing of each other's. `Kept`, `Readable` and `Accepted` then carry the
three properties over a rename, a failed sync, a crash and a start.

`S3Transactions`. The invariant has two layers. The books
(`S3Transactions_books!Bookkeeping`) do not depend on what the files hold and are inductive
by themselves: who is at work (`Doors`), what each location says of the request (`Plans`)
and of private objects and journals (`Held`, `Worked`), and that every private object has a
journal and the worker knows of it (`Traced`). For each action one lemma says what it does
(`...Effect`) and one that it keeps the books (`...Books`, `...Recovers`); what a step of
one operation leaves alone of all the others is shown once, for the foreground
(`ForegroundBooks`) and for recovery (`RecoveryKeepsBooks`).
The truth (`S3Transactions_proofs!Truth`) is about the files: whose body each holds
(`Bylines`), which operation has taken effect by the time it is where it is (`Effects`),
the object an upload found and its backup (`Found`), what a move's journal has seen
(`Halfway`), what the files of a journal look like as long as nobody else wrote them
(`Undisturbed`), and why a journal was refused (`Refusals`). From both, `ContractStep` maps
each step to a step of `S3Contract` or to a stutter; the mapping gives an object's writer
for its content. The contract has no fairness, so the refinement is a matter of the
initial states and of single steps.

`LocalTransaction_proofs`. Everything a property says of what a power failure leaves has
to hold of every image in `crash`, and a crash at any later point may bring back an image
in which the transaction in the gate looks different from what the process sees. So the
invariant (`Inv`) says of each image what it says of `disk` (`ImageOK` through `CrashOK`):
what it holds was started by a transaction (`StartedOK`), content in the trash has its
record (`DebtOK`), a published mark tells the truth and an unmarked publication is still
where it was put (`MarkOK`, `PlaceOK`), one attempt of an operation is published and no
other then has a journal (`OnceOK`), receipts are true (`ReceiptOK`). A step adds at most
one image to those that are left (`FsStep`), so most lemmas are about one image. The other
conjuncts say why the next image is good too: one attempt of an item runs at a time
(`ActiveOK`); up to its publishing rename nothing of its operation is published
(`LiveOK`, `PublisherOK`); the one publication whose mark is missing is `pending`, and
all others are in every image (`PendingOK`, `UnsettledOK`); what recovery has judged is
what happened (`RecoveryOK`); an item is told a result only when every image agrees
(`ItemOK`). `ControlOK` ties the subject of each location to the disk.
`OutcomesAreTrue` is not inductive without these: two attempts of one item are kept
apart by the item, by the journals, by the pending publication and by recovery in turn.
`VisibleIsAllowed` speaks of an idle gate and of the present disk; what carries it through
a crash at any step is a second layer over `Inv`, `Shown`. Every image shows at each path a
content that is allowed there, or the path is empty and an unpublished journal has such a
content parked (`ShownIn`). Two kinds of steps endanger it. A step that moves something
must leave the new image good: what is about to leave was announced (`AimOK`), what is
overwritten is a free name or was parked under a journal (`JournaledOK`), what was
published is in its place until the gate is left or it is settled (`PlacedOK`), what a
rollback takes out of `allowed` was never published (`UnpublishedOK`), and recovery stages
a backup for deletion only if its destination is there or was published (`MendedOK`). A
step that answers a change forgets what was allowed before, so no older image may remain:
the last sync rules out every image that does not look like the present one (`AnsweredOK`).
A path that an unresolved journal still claims keeps what was allowed.
TLC checked `Inv` and `Shown` on three further instances each, with up to three errors and
up to two crashes, before they were proved.

Only model-checked:

- liveness, because fairness and ENABLED are out of the prover's reach;
- `NoOvercommit` (a sum over all tasks), the properties of `TrafficLedger` (replay folds
  the journal), of `Accounts` (eviction filters a list of records) and of
  `DirectoryListing` (pages and sorted order): each asks what a fold or a filter computes,
  which needs induction over data;
- so far, `CrashesNeverBlockStartup` of `LocalTransaction`, which needs an invariant about
  every set of journals that a first crash may leave together (`Ambiguous`,
  `Unverifiable`), and the safety properties of `S3Directory` and `FileRequests`.

## 5. Findings and observations

`s3_move_replay` (`s3_backend/file_move_transaction.rs:157`). A move that was verified
is answered as committed although its journal could not be removed within half a second
(`committed_cleanup.rs`). A move journal has no stage for a finished move, so the worker
runs the last steps again: it sees the destination it recorded, and deletes the source
if the source has the recorded ETag. When the user has copied the file back meanwhile,
that deletes the new file, on a store whose copies keep ETags. `docs/backend-design.md:192`
promises that slow cleanup does not reverse a verified result. `S3Directory` records its
final stage first, so that its recovery deletes nothing; it has the same gap only when
that record itself is lost (`directory_transaction.rs:339`), which `RecoveryKeepsResults`
excludes by `lost`.

Three more disagreements are conditions of properties: each property below is violated in
its run when the condition is taken out, and TLC then shows the trace described.

Recovery (`storage_transaction/recovery.rs:335`; run `local`). For an anchored upload that
was renamed and not yet marked, recovery writes the receipt, removes the anchor and then
the journal. After a second crash between the last two, the journal demands an identity
proof nobody can give any more, and every later recovery refuses (`recovery.rs:275`),
although its own receipt says committed; only a receipt that says rolled back is looked at
first (`recovery.rs:227`). `README.md:13` promises automatic recovery of interrupted
uploads. `CrashesNeverBlockStartup` excludes it by `crashes > 1`.

Second factor (`totp.rs:24`; run `accounts`). `consume` forgets used periods by the clock
of its own call, while the period it is asked to spend was verified earlier
(`auth.rs:200`), before a wait for `auth_transitions` (`auth.rs:221`). A login that waits
there until the third period after its code's, while another one spends the same code,
forgets that use itself and spends the code again. `totp.rs:20` promises that a counter is
marked as consumed for this process. `ProofsAreSpentOnce` states what does
hold: no proof counts twice as long as its period is remembered, and no recovery code ever
does (`Forgotten`).

Traffic (`traffic/commit.rs:74`; run `traffic`). Requests of a group that are refused
advance the candidate ledger and leave no record. If an edited cycle takes effect in one
of them, and a later request of the group is granted just after the old boundary, the only
record with the new cycle is the later one: memory changed the boundary before it passed
and keeps the counters, a replay finds the old boundary passed and clears them. A restart
then forgets usage, against `README.md:193`. The window is one group; what it leaves
behind stays until the next snapshot or reset. Without an edit, a refused request only
moves forward the time, and with it perhaps a reset, which the journal then does not know
of; `ReplayIsExact` allows exactly that (`Sums`). It and `QuotaIsHard` exclude the edit by
`unrecorded`.

Observed while modelling, and excluded from the properties by the conditions named there:

- Local storage. An item is Complete as soon as the rename returned
  (`upload_batch/item.rs:83`), also when the directory sync or the receipt failed.
- Lifecycle. A policy edit that finds a drain pending relies on it
  (`lifecycle.rs:136`); if that drain reopens before the policy is published, a transfer
  admitted in between goes on. The theorem about policies is for edits under their own
  interruption.
- Tickets. A cancellation whose client disconnects gives up the ticket's lock while its
  write is under way (`upload_batch/persistence.rs:489`); a later begin runs, and the late
  write records Cancelled, which a restart believes. An unconfirmed admission is settled
  in the request's own future (`upload_batch.rs:785`), and a disconnection leaves the item
  without an executor. `drops = 0` in the properties excludes both. A retired ticket is
  removed file by file; a crash in between brings completed items back as cancelled.
- Capacity. `begin_reconciliation` returning false counts as success and a failed scan
  does not wake the worker, so limited writes may be refused until the next sweep. The
  gate of `capacity.rs:169` is a second lock for writers of a local ledger, who all hold
  the storage's gate; `LedgerFollows` is about the order of mark, persist and scan under
  that one, not about two persists that race.
- S3. A journal kept after a verified commit becomes ambiguous once another operation
  changes the destination (`s3_backend/recovery.rs:447`), and recovery then refuses; the
  same on stores whose copies change ETags, after a copy whose answer was lost. Both are
  among the causes of `RefusalsHaveACause`, and so is a conditional publication whose
  answer was lost. After a pass of recovery that failed, the model starts no operation
  until the journals have ended; the real worker sleeps outside the gates, and operations
  may run in between.
- Accounts. A torn last line of the login event log is tolerated
  (`login_security.rs:608`) but not removed, so that the next line is glued to it and the
  start after that is refused (not modelled: the log is display data until then). A login
  in flight lifts a restriction that an administrator just set (`record_success`). The
  store of used TOTP periods does not survive a restart.
- Configuration. When a crash leaves an extra entry in the retired index and its
  connection is deleted while a pass is finishing it (`bootstrap.rs:101`), `finish` removes
  the entry that the deletion found and relied on (`retired_storage.rs:90`): `raced`. The
  same follows an unconfirmed `finish`, and a connection that is put back into service
  between the pass's look at it and its end (`quiet`). An edit that points a disabled
  storage at a retired connection skips the check that an enabled one makes, and enabling
  it passes. The backup that a damaged primary falls back to is one generation older, also
  in its passwords; after an interrupted refresh it may also name other connections, until
  the next confirmed publication (`cut`). A publication whose directory sync failed is
  reported and not repeated; what a power loss then undoes is left out of the properties
  (`warned`, `lost`).
- Traffic. Edits of the reset cycle have no effect while every charge is rejected
  (`traffic/commit.rs:119`). The first start creates the journal before the snapshot
  (`traffic.rs:430`), and a crash in between makes every later start refuse: `origin`.
- Requests. The local archive check compares size and second; a local 304 is right to
  the second; on S3 a replacement of the same size between the archive's check and its
  request goes unnoticed. Another client's changes of the bucket are seen after the 30
  seconds of a snapshot. A plain S3 overwrite by MOVE or COPY that fails half-way leaves
  the destination absent until recovery.
- Direct uploads. The comment at `direct_upload.rs:116` says that a registered session
  keeps edits out, but `ensure_idle` is compiled for tests only; edits interrupt the
  transfer instead. `cancel` answers success whatever became of the upload
  (`direct_upload.rs:370`). `wait_result` can answer "unknown" although the result was
  stored between its two looks. A `complete` dropped between its flag and its command
  makes later ones wait for the upload timeout, whose end completes the upload.

Proof attempts that failed were the last source of corrections. In `Configuration` the
invariant was not inductive because a publication that had rotated its backup was taken to
have refreshed it, and because a pass was taken to settle a connection somebody uses
again; the history variables now say what the code guarantees. In `S3Contract` the
refinement failed where recovery copies an unfinished move once more because its
destination has gone meanwhile, which takes more operations than the run has
(`Duplicate`). The contract was also too weak: a write of another client was allowed at any
time and could explain any return of an older body, a wrong restore included (`Foreign`
now asks for an unanswered conditional upload of that file). `UploadTicket` needed
`LateWrites` to say which writes a dropped handler can leave behind. In `LocalTransaction`
an item could be confirmed after a recovery that had failed: with two I/O errors and a
crash, beyond the run's bounds, a receipt then outlived the journal it contradicted. The
code goes to the next storage when a recovery fails (`upload_recovery.rs:62`), so
the model now has `window`, and the theorem holds for any number of errors.

## 6. Not modelled, and the plan

Not modelled: request parsing and formatting, presentation, the syscall wrappers of
`linux_root.rs`, physical disk reservation, malformed or foreign entries in the reserved
directory, legacy version-1 journals, inventory limits; copies above 5 GB, object sizes
and journal authentication on S3; the login event log and sessions' age; encryption of
secrets, migrations, path overlaps of shares and locks; the day series and the second
direction of the traffic ledger; the bandwidth limiter (`transfer_limit.rs`, a token
bucket over real time) and the relay budget (a semaphore); PROPFIND truncation and
directory sizes; the browser and administrator front end.

Next, in this order:

1. Proofs. Done: lifecycle, capacity, tickets, direct uploads, configuration, S3 file
   operations, local transactions but for `CrashesNeverBlockStartup`. Next `FileRequests`
   (conditions and bodies), `S3Directory` (`NothingIsLost`), and of `Accounts` and
   `TrafficLedger` what does not rest on folds: current sessions, durable release.
2. `UploadPlanning`: planning gates, name reservation and the limits over all tickets
   (`upload_batch.rs:1191`), binding and the fair cursor of `upload_recovery.rs`.
3. An abstract transaction that `LocalTransaction` implements, as `S3Contract` is for S3,
   composed with `UploadTicket`.
4. The S3 accounting guard with its scheduled scans; the login event log with its torn
   lines; the front end's upload queue.

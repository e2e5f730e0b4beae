# A TLA+ verification project for Shensi (神思)

Shensi is a desktop writing tool: an Electron shell starts a local HTTP server
(`server.mjs`), a renderer (`src/app.js`) keeps the state of a work and saves it
through that server, and works are ordinary directories of Markdown files that
other programs (Obsidian, another Shensi process, a synchronisation client) open
too. What can go wrong in such a program is rarely in one function: it is in a
save that stops half way, in two processes that meet at one file, in an answer
that comes after its question has been given up. These modules model those
parts, TLC explores them on small instances, and TLAPS proves for every instance
what matters most about the two exclusion protocols, the save transaction (its
refinement of a register included), the recovery checkpoints, the media jobs,
the agent service, the synchronisation with Nutstore and the user's data across
updates.

Paths below are those of `PROJECT.json`: `src/server.mjs` is the repository's
`server.mjs`, `src/src/server/x.mjs` its `src/server/x.mjs`.

## 1. Inventory

| Component | State it keeps | Operations | How it interacts | What is hard | What makes it correct |
|---|---|---|---|---|---|
| **Workspace store** (`workspace.mjs`, 5807 lines; `document-transaction-service.mjs`, `document-prewrite-history.mjs`) | document files, `manifest.json`, `current-state.json`, `history-isolated/`, `recycle-bin/`, `transactions/<id>/` | load, save (full and delta), rollback, recovery, import, rename, recycle bin | called by every request that changes a work; runs under the workspace lock | many files per save, crash and I/O failure at each, a second pass over what the first one left, external editors | a save happens whole or not at all; nothing committed vanishes; an external edit is not overwritten unseen; recovery always gets through |
| **Workspace queue and lock** (`workspace.mjs` 715-771) | a promise chain per workspace, `workspace.lock` with a pid | enqueue, create, judge, remove, release | brackets every save and every recovering load, in each process | file operations of processes interleave; owners die | one writer at a time; nobody is refused for ever |
| **Update write barrier** (`update-write-barrier.mjs`) | `update.lock`, `mutations/*.lock`, counters and a freeze flag in memory | begin/end mutation, exclusive update, drains, stale-file removal | every mutating request and media worker brackets its writes; the updater excludes them | check-then-act on files, timeouts, crash of either side | no update beside a write; the freeze ends |
| **Update data guard, update manager** (`update-data-guard.mjs`, `update-manager.mjs`) | one journal, a verified snapshot, a data version marker | prepare, mark installer state, roll back, recover, start-up guard | runs behind the barrier; the installer is another process | crash at each phase, a record whose write may fail | the data is either the new version's or the snapshot's |
| **Nutstore synchronisation** (`nutstore-sync/`) | baseline per file, outbox, operations, conflicts; the remote's data, metadata and tombstones | scan, plan, upload, download, delete, merge, resolve, pause, switch account | several devices through one WebDAV store | everything is stale by the time it is used; conditional requests; two files per remote entry | no text lost unless one side replaced the version it had seen |
| **Conversation task queue and agent runs** (`conversation-task-queue.js`, `app.js`, `conversation-agent-service.mjs`) | queue and cards in the window and on disk; a record per run, a lane per conversation | send, drain, dispatch, accept, nack, edit, delete, supplement, recover at start-up; start, run, settle | the window calls the service, which runs one agent per lane | the answer of a start is lost, window or service end at any moment, what is on disk is older than what is in memory | an instruction is given once, none is forgotten, the queue goes on |
| **Media jobs** (`generation-job-store.mjs`, `media-generation-worker.mjs`, `media-worker-manager.mjs`) | one JSON record per job, locks with owner pid | create, transition, heartbeat, cancel, replace, complete, recover | server, worker process and provider | unknown submission outcomes, cancel against late result, stale detection outside the lock | never paid twice; a stopped job stays stopped |
| **Text attempts and runtime records** (`generation-attempt-store.mjs`, `generation-runtime-store.mjs`) | one record per request: candidates, review, receipt | begin, update, fail, recover | orchestrators and the renderer | late updates after a terminal status; restart recovery | receipts belong to the adopted candidate |
| **Mutation undo store** (`mutation-transaction.mjs`) | manifests and content-addressed objects | capture, solidify, undo, maintain | maintenance beside captures | a collector that runs between object and manifest | an undoable change keeps its images |
| **Autosave and recovery checkpoints** (`app.js`, `recovery-store.mjs`, `recovery-checkpoint.js`, `workspace-conflict.js`) | the page's texts, revision, list of changed documents, timers; one checkpoint per client | edit, checkpoint, save, rebase, retry, reload, commit, restore | the page and the server through requests that outlive the page | edits during a save, commits and checkpoints out of order, revisions that start again | no save takes an edit off the disk, the newest unsaved work survives, everything gets saved or the author is told |
| **Task sessions, structured memory** | per-task records; facts derived from texts | begin, update, complete; projections | orchestrators | little beyond read-modify-write | |
| **Orchestrators, providers, gateways** (`shensi-orchestrator.mjs`, `codex-agent-provider.mjs`, ...) | conversation state, child processes | call models, run tools, land texts | land texts through native document transactions, i.e. one workspace save | answers of external programs | |
| **Skill and experience stores, Dreamina profiles, book sources, import/export, CLI launchers, HTTP server, renderer, desktop shell** | files of one writer; UI state | validation, conversion, network reads, routing | | mostly data | |

`PROJECT.json` lists every one of them with its status, and under `hazards` the
places where each can go wrong, modelled or not.

## 2. Modules

| Module | Models | Checked by | Proved by |
|---|---|---|---|
| `WorkspaceTransaction` | `saveWorkspaceState` with both passes of `saveWorkspaceStateCore`, journal, rollback, recovery, loads | `workspace_save`, `workspace_atomic`, `workspace_liveness` | `WorkspaceTransactionProofs` |
| `AtomicWorkspace` | what a workspace promises: a register with compare-and-swap | (refinement target of `workspace_atomic`) | `WorkspaceTransactionProofs` |
| `WorkspaceLock` | `enqueueWorkspaceWrite`, `withWorkspaceFileLock` | `workspace_lock` | `WorkspaceLockProofs` |
| `UpdateBarrier` | the whole of `update-write-barrier.mjs` | `update_barrier` | `UpdateBarrierProofs` |
| `NutstoreSync` | one path between devices: scan, plan, upload, download, deletion, merge, conflict | `nutstore_sync`, `nutstore_converge` | `NutstoreSyncProofs` |
| `ConversationDispatch` | queue, gate and cards of a window; start, record and lane of the agent service | `conversation_dispatch`, `conversation_ends` | `ConversationDispatchProofs` |
| `MediaJobs` | job record, user requests, worker pass, provider | `media_jobs` | `MediaJobsProofs` |
| `UpdateDataGuard` | the update transaction over server, worker and installer helper | `update_data` | `UpdateDataGuardProofs` |
| `RecoveryCheckpoints` | autosave, checkpoints, conflict rebase, reload and restore of a page | `recovery` | `RecoveryCheckpointsProofs` |

`MC*` modules name constants and symmetry. How the modules compose:
`WorkspaceTransaction` assumes what `WorkspaceLock` is for, one writer at a time,
and `WorkspaceLock` shows under which condition (`~ stolen`) that holds;
`AtomicWorkspace` is what a save looks like from outside, and
`RecoveryCheckpoints` uses a save in just that form, as one step with a stamp;
`UpdateDataGuard` lets media workers write whenever nobody holds the barrier that
`UpdateBarrier` models.

### 2.1 WorkspaceTransaction

One save goes through these program points (`pc`), in this order: `recover`
(5371-5417) - `request` (checks, 5445-5477) - `journal` - `history` - `apply`
(status "applying") - `begin`, then `batch` (no manifest yet, 4951-4965) or
`docs`/`write`/`bins` (4966-5063) - `manifest` - `current` - `isolated` (the
history is rewritten, 5207) - `verify` - `commit` - `clean`. A failure of the
first pass starts a second one (`mode = "retry"`), a failure of that one the
rollback (`mark`, `mode = "rollback"`), which runs the same pass over the rollback
snapshot; for a workspace that did not exist it wipes what was written (`wipe` is
the action `WipeFresh`). A failed rollback leaves the journal (`pending`), and the
recovery of the next load or save repeats it (`mode = "recovery"`).

State and code:

* `file`, `manifest`, `current`, `hist`, `tx` are what is on disk. A text is a
  number: 0 means no file, every request and every edit writes a number of its
  own; hashes are compared as those numbers. `current.trash` are the recycle
  bin's entries, which carry the texts of the dropped documents in
  `current-state.json` (5186). `tx` has both snapshots: documents, bin and
  history of the save (`desired`, `trash`) and of what it would be undone to
  (`undo`, `undoTrash`); the full before-images of the history (`hist`) are the
  same in both (5495-5499).
* Every pass ends by making the history what its snapshot says
  (`RewriteHistory`); what the snapshot does not name is pruned. `Histories` says
  why before-images stay in it although the window's list may lack them.
* `req`, `mode`, `todo`, `checked` are locals of the running call; a crash
  (`Dies`) loses them. `checked` is the pair the loop has read and judged but not
  yet replaced: an editor may write in between, as in the code.
* `loose` are the atomicWrites of a first save's `Promise.all`: if one fails, the
  others stay in flight and land later, even after the rollback.
* `win` is what each window loaded, including the external edits it was shown.
  The renderer always sends `expectedStateStamp`; callers inside the server do
  not always: `strict` is that choice.
* `Fault` fails the file operation of the current step, at any step; `Crash` ends
  the process at any step; `CrashInGap` ends it inside `atomicWrite`, between the
  two renames, when no file has the name (560-603).
* `edits`, `lost`, `once` are history variables: versions of the editor, how one
  was overwritten without being kept, and texts some answered save committed.

Abstractions: a document keeps its path (renames and folders are left out). The
archives under `recycle-bin/` and their manifest are left out: no document is read
back from one (4925-4934 skips the managed paths, and the windows restore the text
in the entry), and each pass removes the archives without an entry before it writes
a document (4920-4936). Entries leave the bin, taken out or expired, with a save
only (`AcceptSave`). A load reads atomically; an external program edits
files and does not delete them (loads recreate a missing file as an empty
document); imports, legacy migrations and the journal statuses of old versions
are left out, and so is the retention of histories (only full before-images are in
`hist`, which are kept).

### 2.2 WorkspaceLock

Each file operation is one action: `Create` (open "wx"), `FindLock` (EEXIST),
`RefuseTask`/`JudgeDead` (the read and its verdict), `RemoveDead` (rm, at most
twice), `Sign` (the pid is written), `Finish`, `Unlock` (rm by path). `Sign`
writes through the descriptor: a file that has been removed meanwhile stays
removed, as on POSIX systems. A pid is never reused. The migration mode is not
called anywhere in the repository and is left out.

### 2.3 UpdateBarrier

`pc[p]` is the synchronous function process `p` is inside, `upd[p]` the await of
its `withExclusiveUpdate`. Every file operation is a step; timers are
nondeterministic (`DrainTimeout` may win the race against the last release).
The age fallback of `removeIfStale` is a choice (`aged`), except that nobody is
two hours late inside the synchronous call that writes the pid.


### 2.4 NutstoreSync

Per device: its file (`local`), the hash it last agreed on (`base`), the texts
kept for merging (`kept`), its recycle bin and conflict copies (`trash`) and
whether a conflict is on record. On the store: the file with its ETag (`data`),
the entry (`meta`), the tombstone (`tomb`) and what a rotation left behind
(`backups`). `pc` and `job` belong to tasks `<<device, "run">>` and
`<<device, "resolve">>`; each request to the store and each local file operation
is one action, so that everything a task has read can be stale when it uses it.
`StateFree` stands for the queue in front of the state file. `setting` is the
kind of the path together with what the server supports, which decides between
conditional move, `If-Match` and rotation. `lineage` (which text was built on
which), `discarded` (what a user gave up), `hasty` (what was typed while the
device was at work) and `mistaken` (what was in a file that an upload took for its
own, because it has the same size, or that a run deleted from the store after a
resolution had brought it back to the device) are history.

Left out: the bookkeeping of outbox, operations and log, pausing, switching
accounts, manual resolution (an edit followed by `use_local`), the structured
merge's data, entries and tombstones listed at different times, clocks that
differ, stores without ETags, the rename fallback on Windows.

### 2.5 ConversationDispatch

One conversation of one window. The window keeps `queue`, `cards` (pending
answers) and one `gate` (the `sendMessage` under way); `Save` copies queue and
cards to disk at any later time, `Close` loses what is not there, `Open` and
`Startup` read and repair it. A dispatch draws a source id, from which the service
derives the id of the run (`runIdFor`); that is what makes a repeated start
harmless. The service has the starts inside it (`starts`, one step per await), the
runs in memory and on disk, and the lane. Answers of starts and of supplements may
be lost, the service may restart. `owner`, `given`, `gone`, `excused` and
`crossed` are history. What the code does to the queue by filtering, splicing and
sorting is said by the places that are kept and the order they get (`InOrder`,
`Filter`, `InFrontAgain`): a place has as its rank the number of places that are
not after it, so that no definition is recursive and the proofs can use them.

Left out: leases (the gate keeps a dispatch from outliving its own), the texts,
questions an agent asks, switching works, dispatches of the media, cockpit and
inline kinds, attachments; a cancelled run ends like any other (`EndRun`).

### 2.6 MediaJobs

`job[j]` is the record of a job, with its fields abbreviated as the module says;
the status "polling" stands for "running" too. `pass[j].pc` is where the worker
that holds the job's lock is, `by` whether the server started it for the job
(`own`) or the scan found it (`scan`; scans never submit). Every update of a
record is a step of its own: `Update` is unconditional, `UpdateRunnable` refuses
stopped jobs, `RecordFailure` is the worker's `updateActive`; `Apply` is the
report of a window that a result has its card, which the store takes for stopped
jobs too. Requests to the provider are answered by `Reach` and `Finish`, perhaps
long after the worker has given up or died.

Left out: waiting for credentials or storage, image jobs without a task driver,
the capacity limit, replacement of records of old versions, text jobs of the
client, a task id typed in by the user, the deadline of connection retries, the
order and grace of a scan, polling times, the files of results.

### 2.7 UpdateDataGuard

`proc` has the place, errand and locals of the three processes: `j` is the local
copy of the journal (the code decides on it, not on the file), `aim` the phase a
mark is about to write, `left` what is still to be moved or copied, `away` the
quarantine of the restore under way. The data root is a set of top-level entries
with a version each. Every file operation of the transaction may fail and every
process die at each step; taking a whole snapshot, wiping, putting back and
returning are atomic, since their parts only matter through what a failure
leaves. Restrictions: one server (the shell's single-instance lock), and one
slot each for a helper and a worker. The ids of transactions are used again.
A start may meet a live process that an earlier run has left: it rolls the
transaction back that a helper or a worker is at work on (`Recover`), or, before
there is a journal, spawns a second worker beside the first (`CheckVersion`).
The code excludes neither (section 5). Both set `overtaken` and the behaviour
ends there: all properties of this module speak of the time before.

Left out: download and verification of installers, the store of snapshot objects
and how many are kept, checks of links, disk space, times.

### 2.8 RecoveryCheckpoints

A text is the set of edits it contains, an edit is `<<document, serial>>`, and
`savedAt` and stamp of a work are one number. `page` goes from "closed" through
"loading" (`Load`) to "restored" or "starting" (`Hydrate`, with or without the
checkpoint); bootstrap's `persist()` (`Startup`) takes it to "flushing" or
"opening", what was restored is saved at once (`Flush`, `Flushed`: "awaiting"),
and the end of bootstrap (`Settle`) makes it "up". The author can edit in all of
these but the first two. `mem`, `base`, `known`, `rev`, `dirty`, `ids` and
`protected` are `state.documents`, `state.savedAt` with `activeWorkspaceStamp`,
`workspaceDocumentHashes`, `workspaceRevision`, `workspaceDirty`,
`workspaceDirtyDocumentIds` (all documents when they are unknown) and
`recoveryCheckpointRevision`; `editTimer` and `saveTimer` are the two timers
between an edit and its save. `wire` holds the requests, those of a page that is
gone or has stopped waiting included. An answer is one step with what the server
does where nothing of the page can come in between that matters: the checkpoint,
the commit and the refusal with its rebase; the save itself is not. Another window
or an agent saves as `Foreign`.

`givenUp` is what the author has given up, or what the code is known to lose:
edits of a checkpoint that a start ignores; edits of a document replaced by a
rebased save; checkpoints met by a request of an earlier life (`Harmed`), because
revisions start at 0 again with a page and with a reload; restored edits not yet
listed as changed when a document is named before bootstrap's `persist()`.
`overlooked` is what the end of bootstrap takes for saved although it is not: with a
local model it clears `workspaceDirty` (app.js 72756), long after the page could be
edited. The properties hold for everything else; only `EditsGetSaved` exempts
`overlooked`.

Left out: `persist()` without a document id apart from start-up (it sends more,
never less), switching works, deleting documents, the merge of conversations,
whiteboard drafts, the keepalive flush at the end of a page, checkpoints of other
clients (read only when there is no own file), the gap between the two renames
of a checkpoint, empty baselines, resume state, and files changed by other
programs.

## 3. What the runs check

Every run passes; TLC finishes each of them.

| Run | Instance | Shows |
|---|---|---|
| `workspace_save` | 2 documents, 1 window, 2 saves (also back to an older text), 1 external edit, 1 failing operation, 1 crash; 4.8 M states | `Coherent`: whatever failed, a settled workspace has one story in its three places. `TextsSurvive`: a committed text is at every moment in its file, the history, an entry of the bin, or the rollback snapshot of a transaction that will be undone, unless a save that commits gives it up. `SavesKeepEdits`: a forward save does not replace an editor's version that its hash check could see |
| `workspace_atomic` | 2 documents, 2 windows, 2 saves, 2 failing operations (in a new workspace after its first save), 1 crash, existing and new workspaces; 5.2 M states | `ImplementsAtomicWorkspace`: the machinery, the parallel first batch and the wipe included, refines the compare-and-swap register of `AtomicWorkspace` |
| `workspace_liveness` | existing and new workspaces, 1 save, 1 edit, 2 failing operations, 1 crash, 1 crash in the gap; 380 k states | `RequestEnds`: passes, rollback and recovery come to an end |
| `workspace_lock` | 3 processes, 3 tasks; 34 k states | exclusion while no lock in use has been removed; a lock with a live pid is in use; every queued task runs or is refused |
| `update_barrier` | 2 processes, 2 mutations each; 68 k states | exclusion of updates and writes, of updates and updates, marker survival, drain, and that waits and orphaned locks end |
| `nutstore_sync` | 2 devices, 3 texts, 2 edits or deletions, 1 conflict decided, 1 failed request or crash, three kinds of store; 1.6 M states up to symmetry | `TextsSurvive`: no text vanishes by synchronising; it, or a text built on it, is somewhere |
| `nutstore_converge` | 2 devices, 2 edits at rest, up to 5 texts, no faults; 10 k states | `EventuallyConsistent`: devices and store end with one text and no conflict |
| `conversation_dispatch` | 2 instructions, 3 sources, 3 runs, 1 end of the window, 1 of the service, 1 lost answer, 1 supplement; 1.5 M states | `GivenOnce`, `NothingForgotten`, `OneAtATime`: an instruction is given to an agent once and never forgotten; two agents never work in one conversation |
| `conversation_ends` | 3 instructions, 2 edits, 1 deletion, no faults; 70 k states | `EveryInstructionEnds`: the queue goes on |
| `media_jobs` | 1 job of either kind and a newer one that may replace it, 3 actions of the user, 1 death of a worker, 1 failing request, 1 retry; 0.75 M states | `PaidOnce`, `PaidTasksKnown`, `StopHolds`, `EveryJobEnds` |
| `update_data` | 2 entries, 2 updates, 1 write, 2 failing operations, 1 crash; 0.55 M states | `NothingLost`, `ServesLatest`, `RestoresAlone`, `MarkedMeansMigrated`, `StartsSucceed`, until a start overtakes a live process |
| `recovery` | 2 documents, any four of 2 edits, a foreign save, a failure, a reload and a closed page, which counts for two (`Budget`); 0.9 M states | `WorkOnlyGrows`: no save takes an edit off the disk. `ProtectedEditsSurvive`: an edit in a checkpoint stays there or in the page until it is on disk. `EditsGetSaved`: it is saved or the author is told |

**Bounds.** Two documents are enough for a save that is half done, and one that is
replaced beside one that is dropped. Two saves let a second one meet the leftovers
of a first. Two failing operations are what it takes to reach the rollback (one
per pass): `workspace_atomic` and `workspace_liveness` have them; the third one
needed to make the rollback itself fail is replaced by the crash, which leaves the
same journal. One edit suffices because the two places where an edit can hide
(before a check, between check and replacement) are alternatives. For the lock,
three processes are needed: an owner, one that judges it dead and one that takes
the lock in between. Two devices are the two sides of every comparison. They are
not enough for everything: to lose a text in one of the two ways named by
`mistaken` takes three, one that makes the mistake, one whose edit is built on
what the store really had and one that brings it there, and some fifty to seventy
steps. Both were found while an inductive invariant was looked for, not by the
run, and confirmed by TLC on that one schedule each; an instance of three devices
is out of its reach. In `conversation_dispatch` three sources let an instruction
be dispatched again after another one. One media job suffices since jobs of a card
meet only where one replaces another. Two failing operations in `update_data` are
an operation and its undoing. In `recovery` two edits can be on either side of
each of two events, and one edit meets three; a closed page, which brings a whole
start with it, takes the place of two (`WithinBudget`). Documents being alike, the
first text written is of `d1` (`FirstIsD1`).

`MaxGaps = 0` in the safety runs of `WorkspaceTransaction` is a real restriction:
with gaps, `Coherent` fails, because two crashes (one in the middle of a pass, one
while the recovery rewrites `journal.json`) leave no journal under its name, and
recovery then drops the directory together with the snapshot. `TextsSurvive` fails
too: with the journal goes the snapshot that had a dropped document's text, whose
archive nothing reads back; and a `current-state.json` that is gone for a moment
makes the next save a first save, which forgets the bin's entries and whose rollback
empties the bin and the history. A new workspace
(`Origins` with `{}`) is left out of `workspace_save` because writes of its first
batch may land after the wipe. `NewFaults = 0` in
`workspace_atomic` lets operations fail only once the new workspace has been
saved, because a write of a failed first batch may land after the wipe, or after
a later save has been answered; the hazards name both places. `nutstore_converge`
has no deletions, no faults and no edits during a run, for the reasons of section 5.

**The abstraction function** of `ImplementsAtomicWorkspace` is `Durable`: while
the journal says "applying" or "rollback_pending" the value of the workspace is
the rollback snapshot, otherwise what the manifest names. A save therefore takes
effect at `Answer`, not at the commit record: when the clean-up after that
record fails, the code runs the second pass or the rollback on a save that was
already committed. If the process dies after the record, it takes effect there.

**Fairness.** Nowhere are users, edits, failures or crashes fair.

* `WorkspaceTransaction`: weak fairness of the writer's own steps; the code
  awaits each operation and Node resumes it. `WorkspaceLock`: the same for each
  process's running task (`Work`).
* `UpdateBarrier`: weak fairness of each synchronous function and timer, and
  strong fairness of the poll (`ReadMarkerDirectory`, `ExternalTimeout`), which is
  disabled for a moment whenever its process is inside another function: the
  timer fires once its time has come, and the deadline stays in the past.
  Mutations and update tasks may last for ever.
* `NutstoreSync`: strong fairness of each task's steps, because the queue in
  front of the state file is first come first served; weak fairness of the timer
  that starts runs, and of a user who settles a conflict that stays in favour of
  the local text, without whom no conflict would ever end.
* `ConversationDispatch`: timers fire, requests are answered, agents end, an edit
  that was begun is sent, a closed window is opened again.
* `MediaJobs`: workers go on, the watchdog scans for ever, a stop is closed after
  thirty minutes (`Expire`), the provider finishes what it has taken. No worker
  has to be started or terminated.
* `UpdateDataGuard`: each process goes on, also after a failure, and the user
  starts the server again.
* `RecoveryCheckpoints`: as long as a timer of a save, start-up or the server has
  something to do, one of them does something (weaker than fairness of each).
  Neither checkpoints, nor a reload, nor the author's "try again" have to happen.

Deadlock checking is on in the runs of `WorkspaceTransaction`, where a window can
always load, and off in the others: their processes may all have died, or the
system comes to rest with nothing left to do.

## 4. What is proved

All proofs are checked by TLAPS (Z3, Zenon, LS4) for every set of processes,
documents, windows or jobs and every bound. They live in modules of their own.

| Module | Theorems | Property |
|---|---|---|
| `UpdateBarrierProofs` | `TypeCorrect`, `UpdateExcludesWrites`, `UpdateExcludesUpdate`, `MarkersSurvive`, `DrainIsComplete` | `TypeOK`, `WritesExcluded`, `OneUpdater`, `RunningMutationIsMarked`, `OwnWritesDrained` |
| `WorkspaceLockProofs` | `TypeCorrect`, `WritersExcluded`, `RefusedForAReason` | `TypeOK`, `OneWriterUnlessStolen`, `SignedMeansUsed` |
| `WorkspaceTransactionProofs` | `TypeCorrect` | `TypeOK`, without any hypothesis |
| | `StoryHolds`, `TextsStay`, `EditsSpared` | `Coherent`, `TextsSurvive`, `SavesKeepEdits`, if `Undisturbed` |
| | `Refinement` | `ImplementsAtomicWorkspace`, if `Alone` |
| `RecoveryCheckpointsProofs` | `TypeCorrect`, `WorkKept`, `PromisesHold` | `TypeOK`, `WorkOnlyGrows`, `ProtectedEditsSurvive` |
| `MediaJobsProofs` | `TypeCorrect`, `PaymentsBounded`, `PaymentsRemembered`, `StopsHold` | `TypeOK`, `PaidOnce`, `PaidTasksKnown`, `StopHolds` |
| `UpdateDataGuardProofs` | `TypeCorrect`, `Alone`, `KeepsTheData`, `ShowsTheData`, `MarkerIsTrue` | `TypeOK`, `RestoresAlone`, `NothingLost`, `ServesLatest`, `MarkedMeansMigrated` |
| `ConversationDispatchProofs` | `TypeCorrect`, `NeverTwice`, `NeverLost` | `TypeOK`, `GivenOnce`, `NothingForgotten` |
| | `AloneAtWork`, `StartedOnce` | `OneAtATime`, `OneRunPerSource` |
| `NutstoreSyncProofs` | `TypeCorrect`, `TextsKept` | `TypeOK`, `TextsSurvive` |

`UpdateBarrierProofs`. The inductive invariant `IInv` joins the types with:
`OnlyUp` (a process that is not up holds nothing), `Phases` (where a process can
be in each phase of an update), `Closures` (a release closure stands for exactly
one marker and `activeMutations` counts them), `Owned` (who holds `update.lock`
created the file that has the name) and `ScanAhead` (a scan that has seen
nothing alive still has every running mutation before it). The last one is what
exclusion hangs on: the marker is created before the second look at
`update.lock`, so a mutation that was admitted is in the listing of any scan
that starts after the lock exists. `Owned` and `ScanAhead` hold until a live
lock is removed (`stolen`); `MarkersSurvive` and `DrainIsComplete` hold without
the condition.

`WorkspaceLockProofs`. `OneWriterUnlessStolen` is not inductive: two writers
could already be past the creation of the lock. `UserOwnsLock` strengthens it:
as long as nothing was stolen, whoever is between creation and release is the
creator of the file that has the name, so a second user would need a second
file. `RefusedForAReason` needs `OnlyTheLivingWork`: a process that is not up
runs nothing, and no file names one that has not been up.

`WorkspaceTransactionProofs`. Two hypotheses on the constants appear, and the
runs of those properties satisfy them. `Undisturbed`: no file vanishes between the
two renames of `atomicWrite` (`MaxGaps = 0`), and if the workspace may be new
(`{} \in Origins`), no operation fails until its first save is through (`NewFaults =
0`) and no editor writes into it (`MaxEdits = 0`). TLC finds `Coherent` and
`TextsSurvive` violated without any one of these. `Alone`: besides, nobody edits the
files from outside whatever the workspace (`MaxEdits = 0`). The invariant grows
with the property:

* `Sensible` is `TypeOK` made inductive. Types of a bounded set of versions are
  kept only if no version is made beyond the bound, so they are stated for a set
  of versions (`Holds(V)`, here those given out so far, `Given`), with the counters
  (`Counted`) and the request and pass at each program point (`Places`).
* `Orderly`: how far the journal is at each program point. `Told`: only in the
  states "applying" and "rollback_pending" may the files tell two stories, and
  "committed" and "rolled_back" name the right one. `Ahead`: a pass leaves behind
  it documents that have the text it is to write, unless an editor came later;
  this is what makes manifest and `current-state.json` true when they are written,
  whatever an earlier pass left. `Asked`: how request, manifest and rollback
  snapshot hang together, the before-images in the history included. `Steady` is
  all of these, inductive together, and implies `Coherent`.
* `Kept` for `TextsSurvive`: a committed text is in two places, whichever way the
  transaction ends. If nothing is to be undone: in the history, in an entry of the
  bin, or in its file with the manifest naming it. If there is a transaction: in the
  history or in its rollback snapshot. A save puts a text into the first place only
  when it commits (`CommitKeeps`: what it does not give up, `GivenUp`, is a document
  it keeps, an entry, or one of its before-images, `Images`, which its snapshots
  name), a rollback only when it ends. `Told` therefore says that the histories of
  the snapshots have all that is in the history: the rewriting prunes none of it.
* `Judged` for `SavesKeepEdits`: what a pass is about to replace was, when it
  looked, no version of the editor's, or one the window has seen, or is in history.
* `Stamped` for the refinement: every `savedAt` is given out once, so a window that
  has the current one has the current documents, and while a save is served the
  rollback snapshot is what its window believes. `DurableKept` shows that no step
  but an answer and the end of a request changes the value of the register;
  `LoadSimulates`, `AnswerSimulates` and `GivingUpSimulates` map the other steps
  to `Load`, `Save` and `Save` without an answer of `AtomicWorkspace`.
* `Fresh` for a new workspace, instead of `Steady`, until its first save is through:
  nothing was saved or loaded (`Unsaved`), and the one transaction is in the order
  `Begun` describes. Up to "applying" nothing was touched; then each file is missing
  or has its text, the writes in flight being those that are left, so that a crash
  leaves nothing the wipe would miss; with "committed" everything is there. The
  answer, or the recovery of a save that died after its commit record, leads to
  `Opened`, which implies every invariant above (`FreshKept`, `OpenedSteady`); all
  other steps stay in `Fresh`. For the refinement the first save is one `Save` from
  the empty value, and the wipe and its repetitions are stutters
  (`FreshSimulates`).

`RecoveryCheckpointsProofs`. `GrowthInv` for `WorkOnlyGrows` relates what the page
has and knows (`Held`, `known`, `base`) to what is on disk and to every request on
the wire: a save that would still be accepted, because its stamp is the current
one, contains all the disk has (`OwnSave`, `NothingStale`). `PromiseInv` adds for
`ProtectedEditsSurvive` that a document with an unsaved edit is listed as changed
(`ChangesListed`), that a save of some revision has all that a checkpoint of that
revision or an earlier one has (`SavesCover`: the reason a commit may mark the
checkpoint clean) and where promised edits are (`Promises`). The proof failed at
first, and for a reason: a save of revision 0, as "try again" sends it after a
reload, is compared with no revision and wipes whatever checkpoint it meets. No
bound of the run reached that; the model names it now (`Wiped`), and section 5 too.

`MediaJobsProofs`. `Sensible` has the types and that a worker and a record hold
only tasks of their own job. `Steadfast` adds that what a failed pass has read
before it writes still agrees with the record (`Remembered`): with it a stop stays
(`StopHolds`). `Thrifty` is an argument by budget: a job that may still be
submitted (`Entitled`: by its record, by the record a failed pass writes back, by
a worker on its way, by an error that says no task exists) has one task less than
it may have, so the submission is paid for in advance (`Budget`); and unless
somebody answered for a new submission, every live task is in the record or the
record says that the outcome is unknown (`Known`). `PaidTasksKnown` came out
stronger than it was: a task whose answer the worker still holds is no exception.

`UpdateDataGuardProofs`. Four layers. `Sensible` is the types with what a process
has at hand where it uses it. `Roles` says who does what when: at most one process
holds a transaction (`OneHolder`: from the snapshot to the end of its errand), the
journal names that one's transaction (`Held`), a live helper keeps worker and
server away from it (`HelperRole`), and no server serves or prepares an update
beside a live worker (`WorkerRole`: the server waits for its own, and a start that
finds one of an earlier server overtakes it). Only a start that overtakes leaves
`Roles`, and the model ends there (`Guarded`). `Safe` is about the data. In
`Known`, what was written last is either later than the snapshot of the
transaction, or is the snapshot's if there is an open transaction to restore it
(`Backed`), or in the data root. A holder in a place from which the transaction
may be closed has the two agree (`Settled`), which is why closing loses nothing;
and what a restore finds under a name it has cleared is its own or was written
meanwhile (`Cleared`), so that wiping and undoing lose nothing either. A step of
the holder has to be looked at for the holder only (`SafeByHolder`), since nobody
else touches journal or snapshot; most steps are instances of three frames
(`SafeByIdle`, `SafeByTurn`, `SafeByClosing`). `Stays` is about the migration.
`Has` says of any entry that it is in the data root or will be when the open
transaction is restored, and once true it stays true; `Worked` follows the one
worker from its validation to its marker, beside which nobody touches what it
works on (`Bystanders`). A harmful migration is found out because the snapshot has
every entry of the user's (`Has` again) and no write restores a version by chance
(`Numbered`).

`ConversationDispatchProofs`. A first invariant, `IInv`, is about the service
alone: the window may ask for any source at any time. `Kept`: what was given out
as a start has a record on file, and an agent that has not left has one in memory
too, so a repeated start finds it, in whichever of the two. `Alone` holds until
two starts meet inside the service (`crossed`): there is one start at most, what
it has read stays true until it ends, and while an agent is at work it has the
lane and no start is inside. An agent that is at work after its record says it
ended (the bookkeeping of `execute`) may not give up a lane it no longer has; this
is where the proof needs that there is one run per source.

The second, `QInv`, takes the window in. Lemmas on the lists say what is in a list
that was filtered, sorted, appended to or had its dispatches put back, and that no
instruction is in it twice (`Proper`; `Ranks` is the counting argument behind
them); after that a list is only the set of its items (`Of`). The parts:

* `Owned`: a source belongs to the instruction it was drawn for, and an item, a
  start or a run names a source of its own instruction. `Known`: what was accepted,
  taken or recorded is in an agent's hands, so an acknowledgement loses nothing.
* `Told` is `NothingForgotten` with the saved copy for a window that is closed.
* `Once`: an instruction that is not excused has one source, a source one start
  that is still in the service, and none that has seen no record once it was run.
  This has to speak of starts that windows closed long ago had sent.
* `Again`: what is pending knows its source, or would be dispatched under a second
  one; nor is it what a supplement is under way for, once the window that sent it
  is gone. `Apart`: what was taken as a supplement is in no dispatch or start.

Most actions draw, give and excuse nothing (`Calm`): `CalmQInv` proves them at once
from what they do to the gate, the supplement, the queue and the records, and only
dispatches, starts, supplements and `Close` are looked at part by part. The attempt
failed at first at `TakeSupplement`: a supplement may be taken while a start of the
same instruction, sent by an earlier window, still reads its record, and that start
then gives the instruction a second time. TLC confirmed it on one schedule of 54
steps with four instructions and four windows; `excused` names it now, as section 5
does.

`NutstoreSyncProofs`. A text stands for the texts it was built on, its lineage;
a file may be replaced or removed when all it stands for is in what replaces it
(`Within`), or stored elsewhere. `Typed` is `TypeOK` made inductive: texts are
built on texts written before, and a task is at a label only with the locals that
label needs (`Shaped`: a download has a listed file, a conditional request the
ETag of its plan). `Known` is what makes each step safe:

* of the entry: its text is stored, and as long as its ETag is the file's the file
  stands for nothing else (`EntryKnown`). Every new file gets an ETag nobody
  remembers (`EtagFresh`, where the proof needs finitely many devices), so an ETag
  a task has kept never comes to mean another text (`RenewedShows`).
* of a device: its baseline and kept bases are stored and covered by its file
  (`DeviceKnown`), which is why an upload planned against the baseline loses
  nothing.
* of a task, at each of its labels (`TaskKnown`): what nobody can spoil (`Lasting`:
  what was listed is stored, what is sent covers what it replaces unless the user
  decided so), what holds while it has the device's state (`Holding`, `OneHolder`:
  the file is within what will replace it), and what it needs of a resolution or
  a run of its device that replaces the file meanwhile (`Later`, `Beside`).

A store without conditional requests loses no file but by a user's decision, so a
device may leave texts to it; where runs replace and remove files by themselves,
only to what is excused (`Safe`).
Lemmas about two views of the state, before and after (`LastingStays`,
`HoldingStays`), settle all tasks but the one that steps, so that each action is
looked at for its own task (`KnownStep`). The attempt failed at first, at `Verify`
and at `Erase`: a file taken for another of its size, and a removal that overtakes
a resolution, lose texts, in behaviours longer than those of the run. The model
names both now (`mistaken`), and section 5 too.

Assumptions: the typing of the constants and bounds (`LockAssumption`,
`MaxMutationsAssumption`, `WorkspaceAssumption`, `BoundsAssumption`,
`MediaAssumption`, `GuardAssumption`, `DispatchAssumption`, `SyncAssumption`), which
TLC evaluates in the runs, and the two hypotheses above.

Only model-checked: all liveness (TLAPS does not handle `ENABLED` and fairness
here).

## 5. What the code is known to do wrong

No run expects a violation. Where the code was seen to go wrong while it was
modelled, the property names the case it exempts, and `hazards` in `PROJECT.json`
has the line. The list:

* **Workspace.** The lock file is empty for a moment, and a process that reads it
  then takes its owner for dead and removes it: two writers (workspace.mjs 744,
  760, 764). A rollback overwrites what an editor wrote while the save was under
  way, and keeps it nowhere (5018). Each pass removes the archives of entries that
  were taken out of the bin before it writes a document (4920-4936), and nothing
  brings them back when the save is undone: the entries return with the texts they
  carry, but unmanaged files that had been archived with their folder (5065-5137)
  are gone. A crash between the record "rolled_back" and the removal of the
  transaction makes every later load and save fail (5407). The file of a document
  that a failed save created stays and blocks the next attempt (5368). A save that
  brings an older text back over an accepted external edit keeps no before-image
  of it. A crash between the two renames of `atomicWrite` leaves no manifest or
  journal under its name (578).
* **Update barrier.** An update refused because another one is under way leaves
  its process frozen for ever (150-152: `frozen` is set before the `try`). Judging
  a lock stale and removing it are two steps (35).
* **Nutstore.** What is typed while the device synchronises is lost to a download
  (sync-engine.mjs 210), a merge (233) or a remote deletion (199). A local
  deletion that meets a remote edit ends every run with a TypeError (308), although
  app.js:8083 promises eventual consistency. An edit or a fault between the steps
  of an upload leaves data without its entry, and the path stays refused
  (remote-repository.mjs 175); so does an upload between the two steps of a
  deletion (199, 201). A resolution of a conflict does not wait for the run (484).
  The check after an upload compares sizes only (175): if the file holds another
  text of that size - another device's, or the one a resolution had brought to
  the local file before it was staged - the entry names the text of the plan
  with the ETag of the other one, and later a merge takes one for the other and
  drops an edit. A run that has scanned the file as deleted deletes it from the
  store even when a resolution ("use remote") has brought it back to the device in
  between (484, remote-repository.mjs 192): the entry keeps the old hash if the
  run then fails, and the next upload of another device replaces the text. A
  deleted path that is created again conflicts with its tombstone. A run completes
  every pending outbox item, also those noted while it ran (359). A
  crash while a file is rotated leaves none (154).
* **Conversations.** A window that ends before a dispatch is saved dispatches it
  again. Two starts of one id inside the service both execute. A supplement that
  is accepted while the queue dispatches the same instruction is given twice, and
  so is one that is accepted while a start of the same instruction, from a window
  that has ended since, is in the service (conversation-agent-service.mjs 273, 322):
  nothing compares the two. A supplement that an agent has accepted and whose answer
  is lost, or not sent before the service ends, leaves its item in the queue
  (app.js 34387-34391, "仍保留在排队队列中"): it is dispatched later, and the
  instruction is given twice. A
  refused start puts its instruction back without waking the queue (app.js
  36018-36022). The pending card of a conversation that is not shown is not looked
  after (32120). An edit after a lost answer is ignored.
* **Media.** A failure of `list_task` whose code counts as "known" submits again
  (media-provider-drivers.mjs 151). A failed job can be resumed beside a newer one
  for its card (generation-job-store.mjs 920). A late settlement may reopen a
  stopped job, and a late `RecordExit` marks a job as exhausted that another
  worker works on. A server that restarts in the middle of a stop leaves its
  release pending.
* **Update data.** A start asks only for the pid of a running installer (758). A
  worker that has outlived its server and has no journal yet is not noticed at
  all: the next start spawns another beside it (785-831,
  startup-data-version-guard-runner.mjs 39, server.mjs 457-466). The first one may
  later fail its validation on what users have written meanwhile and restore its
  snapshot behind a server that serves, under a marker that says migrated. A
  failed record "rolled_back" and a crash leave a journal without its snapshot:
  no start succeeds any more (728). A restore holds no write barrier, and a
  quarantine that cannot be put back is removed (546-548). A parent that never
  exits leaves the helper waiting and itself frozen.
* **Recovery.** Revisions start at 0 again, so that an older page's requests are
  compared with a newer page's numbers (recovery-store.mjs 180, 239), and
  `activateProjectState` resets `workspaceRevision` but not
  `recoveryCheckpointRevision`: new edits count as protected (app.js 39163). A
  checkpoint written during the page's own save is ignored at the next start
  (5639). An edit made during a rebased save is replaced in memory (4899). Edits
  between hydration and bootstrap's `persist()` drop what was restored from the
  list of changes. The end of bootstrap clears `workspaceDirty` and shows "saved"
  after several awaits (72754-72757) while the work can be edited since 72680: the
  timers of an edit made before then find nothing to save (4980, 4990), and it
  stays in memory, and in a checkpoint if one was written, until the next edit. A
  save that failed is not tried again by itself (4966), although the comment at
  5238 says that autosave keeps retrying. A save that lands after its 90 seconds
  makes the author's next one a conflict with himself.

Seen in components that are not modelled: an update of a text attempt does not
look whether it is already over (generation-attempt-store.mjs 501), and the
collection of undo objects may meet a capture between object and manifest
(mutation-transaction.mjs 303).

## 6. Not modelled, and the plan

Left out for good: user interface, prompt assembly and model calls, format
conversions, network readers, packaging. They have no protocol of their own, or
it lies in external programs. They are most of the repository's lines: the
renderer alone has 72 765 in `app.js`, of which the modules model the autosave
and the dispatch of instructions. What is left out of a modelled component is
named in its part of section 2.

Still worth modelling:

1. **MutationUndo**: capture beside maintenance; an image that is named stays.
2. **Text attempts**: late updates after a terminal status, restart recovery.
3. Loads beside a save of another process, and file deletion, in
   `WorkspaceTransaction`.
4. What follows an overtaken transaction, in `UpdateDataGuard`.
5. Switching works, in `RecoveryCheckpoints`.

Worth proving next: of `ConversationDispatch`, that the instructions of a
queue are dispatched in the order they were sent where nothing is put back.

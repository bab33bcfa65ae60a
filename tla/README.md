# Turns, prompts, queue, sessions, jobs and rewinds of Reasonix, in TLA+

Reasonix is a coding agent written in Go. Every frontend (terminal, desktop,
HTTP, bots, ACP editors) drives one `control.Controller` per session. The
controller decides which turn may run, and keeps user messages that cannot run
now in a durable queue (the *inbox*), from which a dispatcher starts follow-up
turns and from which guidance is steered into a turn that is already running.
A turn starts sub-agents and background jobs, which share slots and claims on
files, asks the user before it acts, saves its session under a lease, and can be
rewound, files included. This directory models that core: the turn gate, the
inbox store and the controller code between them, approvals and questions, the
session lease, background jobs with their scheduler, and the rewind transaction.

## Inventory

| Component | State | Operations | What is hard | What makes it correct |
|---|---|---|---|---|
| Turn gate (`internal/control/admission_guard.go`, `synchronous_turn.go`, `turn_finishing_boundary.go`, parts of `controller.go`) | flags running, finishing, rotating, closed under `c.mu`; cancel function; parked turns | admit, spawn, finish, end of window, cancel, rotate, close | two critical sections per turn end, callbacks outside the lock, teardown in between | one turn at a time, exclusive swaps, FIFO handoff, silence after close |
| Inbox store (`internal/sessioninbox`) | manifest file, one body file per item, keys and receipts | enqueue, update, discard, move, pause, claim, set state, acknowledge, retry, convert, recover | two files per commit, crashes, other processes, damaged files | no accepted item is lost, no entry without body, foreign in-flight work waits for the user |
| Inbox controller (`internal/control/inbox*.go`) | active and admitting items, `admissionMu`, dispatcher, retry timer | dispatch, steer, settle, and the frontends' commands | everything between two store transactions interleaves | no lost wakeup, no orphan, nothing acknowledged unrun, nothing run twice |
| Agent steer queue (`internal/agent/agent.go`) | queue, run-active flag | `SteerItem`, `consumeSteer`, close intake, flush | a steer racing the end of the run | every accepted steer is applied or reported |
| Session lease and write authority (`internal/agent/session_lease.go`, `session_write_authority.go`, `session_removal.go`, `session_lock_*.go`) | lock files, registries of the process, lease with its generation and count of saves | acquire, reclaim, release, issue authority, guarded save, convert to a removal guard, restore, remove | other processes, files removed while somebody has them open, saves in progress | one holder, one writer or remover, a save keeps its lease |
| Session log and writer (`internal/agent/session*.go`) | message log, revision | append, snapshot, load | torn writes, stale revision | nothing committed is lost or overwritten |
| Background jobs (`internal/jobs`) | job table, records on disk, completion notes, evidence | start, kill, finish, collect and commit evidence, destroy, close, load | completion against kill, close, death and the next manager | every recorded change is reviewed, a destroyed session stays empty |
| Sub-agent scheduler, write claims (`internal/agent/scheduler.go`, `write_claims.go`) | counters, claims, waiters | acquire, release, parent write | queueing, cancellation after a grant | caps respected, claims exclusive, nothing waits for free capacity |
| Rewind transactions (`internal/checkpoint/transaction.go`) | manifests, temps, backups, recovery copies, workspace | commit, undo, compensate, recover | crashes between renames, failing file operations, the user's edits | all files or none, edits kept |
| File locks, workspace leases (`internal/filelock`, `internal/workspacelease`) | lock files | lock, unlock, renew | stale owners | mutual exclusion |
| Approvals and questions (`internal/control/approval.go`, `write_access.go`, parts of `controller.go`) | posture and gates, grants, two maps of pending prompts, prompt lock and emission lock | request, re-check, register, emit, answer, drain, grant, time out, clear, attach | a lock held while a user thinks; switches, Stop, teardown and other clients in between | nothing goes ahead unentitled, one prompt at a time and once to every stream, nobody waits for what cannot come |
| Frontends, providers, tools, plugins, memory, catalogs, desktop, site | mostly I/O and views | | | |

Interaction: a frontend calls the controller. The controller asks the gate, and
the gate starts a goroutine that runs the agent; the agent emits events through
the inbox sink, which changes item states in the store; the end of a turn
settles its items and kicks the dispatcher; the dispatcher reads the store,
claims an item and asks the gate again. The store is shared by all processes
that open the session directory, under a file lock held for one transaction.
A turn's save presents the authority its controller got from the session lease.
A turn starts jobs through the job manager; a job and a foreground sub-agent ask
one scheduler for a slot and a claim, and the parent's own write tools reserve
their files there. What a job changed waits as evidence until a turn that has it
in its ledger is delivered. A tool call of the turn passes the permission gate and
may end in a prompt; prompts of tools, plans, questions and extensions share one
lock, and Stop, close and a change of posture reach into their maps.

## Modules

| Module | Models |
|---|---|
| `TurnAdmission` | the turn gate |
| `TurnAdmissionProofs` | theorems about it |
| `Entries` | filtering an ordered list by position; used by the next two |
| `InboxManifest` | the manifest and its operations, as operators |
| `SessionInbox` | the store on disk: transactions, crashes, several processes |
| `DurableQueue` | what the store promises: an atomic, bounded queue; `SessionInbox` implements it |
| `InboxManifestProofs`, `SessionInboxProofs` | lemmas about the manifest operators; theorems about the store |
| `InboxController` | dispatcher, steering, settlement and commands; extends `TurnAdmission` and `InboxManifest` |
| `InboxControllerProofs` | theorems about it |
| `SessionLease` | lease, lock files, removal guard, guarded saves |
| `SessionLeaseProofs` | theorems about it |
| `SubagentScheduler` | slots, claims and the queue, as actions of a caller |
| `BackgroundJobs` | jobs, records, evidence and turns; extends `SubagentScheduler` |
| `BackgroundJobsProofs` | theorems about the scheduler under everything the jobs do |
| `RewindTransaction` | rewind and undo of files, compensation and recovery |
| `RewindTransactionProofs` | theorems about it |
| `UserPrompts` | permission gate, approvals, questions, Stop and switches of posture |
| `UserPromptsProofs` | theorems about it |
| `MC...` | sets and symmetries for TLC |

### TurnAdmission

An action is one critical section of `c.mu`, or the lock-free step between two.
`Ask` is the write-authority check made *before* the lock; `AdmitStart`,
`AdmitPark` and `AdmitDrop` are the outcomes of `admitGuardedTurn` and
`runSynchronousTurn`; `Spawn` is the `onStart` or `onAdmitted` hook. An
asynchronous turn ends in two sections (`BodyEnds` replaces running by
finishing, `Delivered` ends the window and hands the gate to the oldest parked
turn); a blocking one ends in `SyncEnds`, which opens the gate, and settles its
items afterwards (`SyncSettled`). `kind` is the entry point: `guarded`
(`runGuarded`), `orpark` (`runGuardedOrPark`), `inbox` (`runGuardedInbox`),
`sync` (`runSynchronousTurn`); a caller always comes through the same one. The session lease and the generation gate appear
as two flags that can be lost.

### InboxManifest and SessionInbox

A manifest is a record of ordered items, idempotency keys, completion receipts,
the pause flag and the run id that wrote it. A receipt is kept under its key with the
item, the body and the time of its completion. What completes in one batch has one
time, and which of several oldest receipts the cap drops is open, as in the code,
which sorts the entries of a map (`pruneReceipts`); `ReceiptsExpire` is the age limit.
The operators compute the next manifest the way the Go methods do on their clone. `SessionInbox` runs them as
transactions: `Begin` takes the file lock and loads (a missing, damaged or
foreign manifest is initialised, salvaged or recovered first, and committed),
`Operate` stages one operation, `WriteBlob`, `CommitManifest` and `Cleanup` are
the three disk steps, `Crash` and `WriteFails` may interrupt any of them,
`CorruptManifest` damages the file between transactions. A body is a model
value, a content hash the body itself; an `UpdateItem` writes a new body file
before the commit and removes the old one after it. `scenario` is fixed at the start:
the processes, the number of bodies, the intents, the keys and the faults of a
behaviour.

`DurableQueue` hides all of that. Its entries have an id, a text and one of four
states; its actions are accept, edit, leave, move, start, mark, pause and
recover. The refinement mapping of `SessionInbox` reads the queue off the
manifest on disk: a transaction that has not committed is invisible, a commit is
one abstract step, a load that recovers is one `Recover`. The promise ends when the
file is damaged (`Damage`): salvage gives up keys and order, which is no operation of
a queue. The queue shows nothing from then on, so the refinement is about behaviours
with damage as well.

### InboxController

One store transaction is one step here. The steps follow the order of the code
across locks: the dispatcher looks at the gate, scans, takes `admissionMu`,
reads the body, claims, asks the gate, and rolls back if it is refused;
`TrySteerInboxItem` marks the item durable before the agent sees it and makes it
active under `c.mu`; `onInboxTurnDone` captures the active set, acknowledges
item by item (each acknowledgement may fail) and only then drops ownership. With
`"badwrites"` every write that changes an item's state may fail (`Tried`): the code
pauses and goes on, or ignores the error, and `unsaved` remembers the item. With
`"prompts"` a prompt may be pending when the dispatcher looks; it goes idle then
(`asleep`). `RunInboxTurn` reads and blocks an item before it takes any lock, in steps
of its own (`runner`). The variable `front` is fixed at the start to one of `Frontends`: the commands it issues
(`Ops`), how many items it queues, the kinds of its chat turns and the bodies it sends (`Bodies`): plain text, another text, one with images (which cannot be steered), one whose
references do not resolve.

Simplifications, all visible in the module: the kick that ends a command is
taken with the command's last transaction; one steer call and one other
multi-step command are in progress at a time; a blocking frontend runs its own
items one after the other; `DeleteItem` and the read that follows it are one
step; the look at the gate in `TrySteerInboxItem` is one step with the mark that
follows, because nothing that moves the gate reads the manifest.

### SessionLease

The lock files are inodes with names: `Open` yields the inode a name is bound to
now (or a new one), `TakeLock` locks the inode that was opened, `Unlink` removes
whatever has the name (Unix) or marks the opened file, which disappears with its
last handle (Windows). Where Windows cannot mark it, the file is removed by its name
after it was unlocked (`RemoveByPath`), whoever has it by then. An attempt (`Lease`) acquires, reclaims after its own
process lost a lease without releasing it, takes a removal guard, or sweeps
stale lock files; `Plans` says which attempts a run makes. Each line of
`TryAcquireSessionLease`, `Release` and `TryConvertToRemovalGuard` that touches
the file system or a registry is a step. A save takes the save lock, then checks
and counts itself against the lease (`BeginSave`), and the last one wakes a
parked `Release`. The history variable `orphaned` records that a lock was
granted on a file that had lost its name, or that a locked file lost its name to a
remove by path; `fellback` that there was such a remove.

### SubagentScheduler and BackgroundJobs

The scheduler's mutex is held while it walks its waiters; the walk is one waiter
a step (`PumpStep`) and everything else that needs the mutex waits for it. A claim
is the set of workspace regions it covers, so overlap is intersection and a
writer without known paths claims every region.

`BackgroundJobs` gives each caller a life: foreground and nested runs and write
tools belong to the turn, a job has a goroutine with the steps of
`StartForSession`, down to the order in which it publishes evidence, record, note,
status and `done`. `disk` is the metadata files, `mem` the table of each manager.
`Close` and `Crash` end a manager; the next one walks the records one by one
(`ReadRecord`, then `DeferRecord` or `RepairRecord`), which is where records of
live owners must be left alone. A directory that cannot be listed counts as loaded
(`ListRecords`) and a record that cannot be read is passed over (`ReadRecord`); `missed`
are the jobs the load did not get to see. Turns lease evidence at their start, collect more
while they run, and commit after delivery, job by job. `scenario` chooses which
callers and faults a behaviour has.

### RewindTransaction

One action per durable step: a manifest write, a rename, a remove, or the
failure of one. A rewind captures the forward image of each file while it stages
temps; the manifest then says `committing`, each file's intent is written before
its two renames, and `committed` is the commit point. A failure compensates in
reverse order and leaves the manifest `committing` unless all of it worked;
opening the store does the same for what it finds, and discards what was only
prepared, if that can be written. A look at a path may fail too. A file holds no image, the
checkpoint's, the agent's or the user's. `odd` records what the properties
except: an edit, a compensation cut between its remove and its rename, a rewind
started over a pending one.

### UserPrompts

A request is one goroutine that may need the user: a tool call, a plan, a
question, or a question of an extension. `world` fixes its class (what decides
about it), its owner (the turn or connection whose context it waits under) and its
scope (what a session grant covers). `pc` follows the code from the gate
(`Begin`), through pre-approval (`Check`), the guardian (`Review`), the prompt
lock (`Lock`), the second pre-approval (`Recheck`), the hook (`Hook`),
registration and emission under `promptEmitMu` (`Register`, `Emit`) to the wait
(`Receive`, `GiveUp`). A question is registered before it queues and may leave the
queue; its goroutine then still wants the lock (`ghost`). The other side takes an
entry out of the map in one step and replies in another (`Answer`, `Send`;
`SetMode`, `SendDrained`), which is why an entry that is gone may still be
answered. Cancel and close are three steps: read the cancel function, `ClearAll`,
`CallCancel`. `human` and `seen` are history: what the user answered, and which
postures and helpers a request met.

Classes are what the code's decision functions tell apart: a tool under the
fallback rule, one under an explicit ask rule, a shell command that needs a
person, memory tools without an ask rule, sandbox escape and managed configuration
(one class, same treatment), trust of a read-only command, plans, write access,
questions. Allowing for the project (written to disk) is treated as allowing for the session. The
pre-approval made when a request reaches `requestApprovalDecisionWithOptions` is
one step with the one before it, unless the guardian's review lies between.

## Runs

| Run | Question | Bounds |
|---|---|---|
| `gate` | Is the gate exclusive, silent after close, and are parked turns handed over in order until all have left? | 3 callers, each of any of the 4 kinds, 2 rotators: one turn delivering and two parked behind it can coexist, two swaps can compete; no symmetry because of liveness |
| `store` | What survives a crash, a failing write or a damaged manifest at any step? Is a key deduplicated while its receipt can be remembered? Does the store implement the queue? | two scenarios: 2 processes, 2 bodies, 1 crash and 1 write error; and 1 process, 3 bodies, 2 keys, 1 receipt kept (so the cap is reached) and 1 corruption; a queue of 2; symmetric in names, processes and keys |
| `inbox` | Is a wakeup lost, the item of a live turn taken away, or an item acknowledged unrun, run and steered, applied again or left in flight? | 2 turns, 2 retries; eleven frontends: with two items one that dispatches (pause, retry, rotate, prompts) and one that steers; with one item one that dispatches and closes, one that steers and closes, one that deletes and rotates, one that re-steers and retries, one with edits, retries and stop with discard, three whose store writes fail (dispatching and steering, deleting, stopping with discard), and a blocking one with references that fail |
| `blocking`, `editrace` | violations, see below | 2 turns, 2 items |
| `lease` | Is the lease exclusive, and writing exclusive of removing? | 2 attempts in one process or two, both platforms, 4 lock files in existence, 1 authority per lease, 1 crash |
| `lease_unlink` | violation, see below | 3 attempts on Unix, no crash |
| `jobs` | Do claims, slots, evidence and removal hold when jobs outlive turns, managers and processes? | 2 slots, 2 jobs, a foreground run, a nested run, a write of the parent's, 2 managers; four scenarios: competing, queueing, surviving (kill, close, crash, plan turns, failing turns and disk), clearing |
| `jobs_evidence` | violation, see below | 1 job, 1 crash |
| `prompts` | Is whatever goes ahead entitled to, do prompts come one at a time and once to every stream, and does a stopped turn end? | 3 requests, 1 stop or close, 1 change of posture, 1 stream; the worlds pair each class with another under the postures and helpers that matter to it, two requests of one class in one scope, questions and tools in the queue at a Stop, and, with a timeout, two turns and an extension |
| `prompts_overtaken` | violation, see below | 2 requests of two turns, 1 stop, no timeout |
| `rewind` | Is a rewind all or nothing, and are edits kept? | 2 files (one changed, one created or deleted), 3 transactions (a rewind, its undo or retry, and one more), 2 crashes, 2 failures, 1 edit |

Each inbox item has a fresh name (`newItemID` draws random ids), so the number of
names bounds how many items are ever enqueued; two are enough for one item to
run while another waits, is steered or is discarded. The races concern one or
two items and at most two turns: a finishing one and its successor. Completed
items and finished turns leave no state behind except receipts, so longer
histories repeat the same configurations. The runs of `InboxController` do not
report deadlock, because a controller with no names left and nothing to do is at
rest; `AtRest` is the state the two resting properties speak about. For the same
reason those of `SessionLease`, `BackgroundJobs`, `RewindTransaction` and
`UserPrompts` do not: their attempts, jobs, transactions and requests are finitely
many.

Two attempts on a lease exhibit every pair of a holder and a contender; the third
one matters only for the window of `lease_unlink`, which needs a holder that
leaves, one that opened before and one that creates anew. In `jobs` two slots for
up to four callers make both caps bind; the writer cap equals the total cap there,
so it binds only with it. In `rewind` two files are the least for a half-done
rewind, and a second crash falls into the recovery from the first. In `prompts` one
request holds the prompt lock, one queues, and a third (a question) leaves the
queue. There a second turn and an extension come with a timeout, which ends what they
strand. Without one, Stop can strand a wait of the next turn (run `prompts_overtaken`),
and an extension's question can keep a stopped turn from ending (the table under
Findings).

Some properties name what they except: frontends (`NoLostWakeup`, `NoOrphansAtRest`, and
through `Heedless` `LiveTurnItemRunning`, `AppliedNotRerun` and `NotRunAndSteered`), items
a write about which failed (`unsaved`) and a prompt that was pending (`asleep`), records
that were missed or repaired from a stale read, a lock on a file without its name, and
blocking callers (the gate's handoff properties). The code does not keep the promise to
those, as the table under Findings shows.

The type invariants of the larger modules (`ITypeOK`, `JTypeOK`, `PTypeOK`) are not
listed in the configurations; `PTypeOK` and `ITypeOK` are theorems, `JTypeOK` holds
in these runs when named there.

The real bounds are larger: `MaxItems`, `MaxReceipts` and
`MaxDispatchRetries` stand for the code's constants.

Fairness is used by `gate`, `jobs` and `prompts`. In `gate`, `WF_vars(TurnStep(t))` says that
a goroutine that can take its next step does: the Go scheduler runs every runnable
goroutine, `c.mu` is held for short sections only, and a turn body ends because
the model's turn returns or is cancelled. `WF_vars(EndRotation(q))` says a swap
returns (its callers release it with `defer`). Nothing makes a caller ask, a
user cancel, or the controller close. In `jobs`, `JFairSpec` lets the scheduler's
walk finish, a job's goroutine take its steps (its run is taken to return in the
end: every run has a context and a bounded number of rounds), and a foreground
run or write tool that holds something let it go (`defer release()`). Nothing
makes a turn start, a job be collected or a manager close. In `UserPrompts`,
`FairSpec` lets a request's goroutine take its steps (a mutex is handed on, a hook
and a review return because both have a timeout or the turn's context, an
approved plan's execution ends), a resolver send what it took, a Stop or a
switch that began complete, and the body of a cancelled turn return once its
requests have. Nothing makes a user answer, stop or switch, or a sidecar exit.

## Findings

* **A blocking turn acknowledges its successor's item** (run `blocking`).
  `runSynchronousTurn` opens the gate and then calls `onInboxTurnDone`, which
  settles whatever is active. If another item was claimed in between (a steer
  into the next turn, or the next queued item), it is acknowledged and deleted
  without having reached the model.
* **An accepted edit is dropped** (run `editrace`). `TrySubmitInboxItem` and
  `RunInboxTurn` read the body before they claim the item. An edit, or a
  collect-mode append, committed in between is reported as accepted, but the
  turn runs the older text and settlement removes the item.

* **Two holders of one session lease** (run `lease_unlink`). On Unix the lease file
  is unlinked before it is unlocked, and an acquirer that opened it before the
  unlink locks the inode it opened without looking at the name again. A third
  acquirer creates the file anew and locks that one. The comments in
  `session_lock_unix.go` and `session_removal.go` say this cannot happen. On
  Windows it takes a file system that cannot mark the file, where it is removed by
  path after the unlock (`session_lock_windows.go:133`; `ExclusiveUnlessOrphaned`).
* **A change made by a job that died is not reviewed** (run `jobs_evidence`). The
  record written when a job starts carries the current evidence version and no
  summary. After a crash it reads like that of a job known to have changed
  nothing.
* **Stop clears the prompt of the next turn** (run `prompts_overtaken`). `Cancel` and
  `close` read the cancel function, release `c.mu`, clear the maps and then call it.
  When the turn ends in between and its successor asks, the successor's prompt is
  dropped and nobody cancels its context: it waits for an answer that cannot be
  delivered. The comments at `controller.go:5464` ("so approval/ask waits always
  unblock") and `controller.go:2050` say otherwise.

Further weaknesses were met with the same models. They have no run of their own;
each is reproduced by one change of a configuration:

| Where | What happens | Change |
|---|---|---|
| `controller.go:6113` | an extension's question waits under its connection's context and holds the prompt lock; Stop drops its entry, so it cannot be answered, and does not cancel it; the turn's own approval sits in `promptMu.Lock`, which has no context, and the stopped turn does not end | `Worlds <- Extension`, `Switcher = {}` in `UserPrompts_prompts.cfg`, with only `NothingStuck` |
| `controller.go:5576` | two changes of posture at once leave the executor's or the sub-agents' gate on the one that lost | `Worlds <- Competing`, `Switcher = {1, 2}`: `GatesFollowMode` |
| `controller.go:6145` | a request that was re-checked and is still in its hook when YOLO is switched on is not drained, and is put to the user | `Worlds <- Impatient`: `YoloAsksNothing` |
| `inbox.go:505` | `CancelWithInboxItems` unpauses without a kick; if the turn settled meanwhile, queued items wait for an unrelated event | drop `"cancelwith"` from the exception in `NoLostWakeup` and add it to `Dispatching` in `MCInboxController` |
| `synchronous_turn.go:42` | the end of a blocking turn does not drain turns parked behind it | drop `BlockingApart` from `NothingParkedAtIdleGate` or `ParkedTurnsLeave` |
| `controller.go:953` | a sink that panics in the TurnDone fan-out makes the turn finish twice | `SPECIFICATION SpecWithPanics` in `TurnAdmission_gate.cfg`, with only `OneTurnInFlight` (`RotationExclusive` fails too) |
| `store.go:175` | a crash between moving a damaged manifest aside and committing the salvaged one hides the bodies for good | `"crash"` in `faults` of `Damaged` in `MCSessionInbox`: `AcceptedWorkSurvives` |
| `inbox_dispatch.go:66` | a dispatcher that finds a prompt pending goes idle, and the answer to the prompt kicks nobody | drop `~asleep` from `NoLostWakeup` |
| `inbox.go:706` | rollback, settlement and the unapplied hook (also lines 636, 684 and 728) give an item up when the write that puts it back failed, against the comment at line 693; it stays in flight until a snapshot recovers it | drop `unsaved` from `NoOrphansAtRest` |
| `inbox_steer.go:155` | a steer, or a delete of one, whose second write fails leaves the item queued and kicks nobody | drop `unsaved` from `NoLostWakeup` |
| `inbox.go:385` | an edit whose references cannot be frozen blocks the item after the dispatcher has claimed it and its turn runs | `"badref"` in the bodies of `Commanding` in `MCInboxController`, and drop the last disjunct of `Heedless`: `LiveTurnItemRunning` |
| `inbox.go:474` | deleting an accepted steer resets an item that was claimed meanwhile | drop `"delete"` from `Heedless`: `LiveTurnItemRunning` |
| `inbox_run.go:30` | `RunInboxTurn` blocks an item it read before, without the lock, also when its turn runs by now | `InboxController_blocking.cfg` with only `LiveTurnItemRunning`, and drop `"runitem"` from `Heedless` |
| `inbox.go:728` | an unapplied steer that is steered again loses its owner | drop the exception of `NoOrphansAtRest` |
| `session_lock_windows.go:138` | the remove by path takes the file of whoever locked it after the unlock | drop `~fellback` from `ExclusiveUnlessOrphaned` |
| `jobs.go:1540` | a directory that could not be listed counts as loaded, and records that could not be read are passed over (line 1554): what they say waits for the next process | drop `j \notin missed` from `MutationAwaitsReview` |
| `jobs.go:1552` | a record is judged from a copy read earlier: an owner that finishes and is released in between has its evidence overwritten | drop `~staleRepair` from `MutationAwaitsReview` |
| `jobs.go:1640` | a job of an earlier manager that is still closing is no target of `BeginDestroySession`; it writes its record after the artifacts were removed | `"destroy"` in `ops` of `Surviving` in `MCBackgroundJobs`: `RemovedStaysRemoved` |
| `transaction.go:1026` | compensation is not idempotent: cut between its remove and its rename, the next start takes the missing file for the user's doing and the rewind stays pending for good | drop `"split"` from `CompFails` and `Crash`: `AllOrNothing` |
| `transaction.go:1215` | a rewind may start while another is pending; the next start compensates the earlier one over the later one's files | drop `"overpending"` from `CommitRewind` and `UndoRewind`: `AllOrNothing` |

Read in the code and outside the models: a new controller has a new scheduler
while jobs of the old one may still unwind, so their claims do not exclude each
other (`boot.go:1027`); a session adopted from disk starts without the write
authority its predecessor had (`controller.go:4065`); a file that changes between
the look at its path and the rename that follows is moved to the backup or
overwritten (`transaction.go:936`); a question whose turn has ended and that is
answered with nothing selected cancels the turn that runs then
(`controller.go:2509`); an answer that loses against the timeout leaves a receipt
that says allowed (`approval.go:56`); a session grant is recorded after the prompt
lock is released, so a second request of the scope may be put to the user
(`controller.go:6082`); trust and write-access requests are not looked up again
after they queued (`controller.go:5874`, `write_access.go:184`).

## Proofs

TLAPS proves what the runs check on small instances for every value of the
constants that satisfies the modules' named assumptions. Seven modules hold theorems,
`InboxManifestProofs` only lemmas. No property is inductive as it stands: each
module defines the invariant that is, as a conjunction of named parts, and its
preservation proof has one lemma per action and one step per part, or the other way
round where an action disturbs few parts.

| Module | Theorem | Property | Invariant |
|---|---|---|---|
| `TurnAdmissionProofs` | `OneTurn`, `CancelReachesItsTurn`, `SwapsAreExclusive`, `DeliveryIsShielded`, `ClosedStaysQuiet` | the safety of run `gate` | `GateInv` |
| | `NobodyStranded`, `ParkedFirst` | its two handoff properties | `HandoffInv` |
| | `TypeCorrect`, `CloseIsFinal` | types; what holds of a closed controller | `GateInv` |
| `UserPromptsProofs` | `OnePromptAtATime`, `CardsSentOnce`, `AllowsAreJustified` | `OneLivePrompt`, `EachCardOnce`, `AllowJustified` | `PromptInv` |
| `BackgroundJobsProofs` | `WriteClaimsDisjoint`, `NoSlotLeaks`, `NoCapacityIdle` | `ClaimsDisjoint`, `SlotsAccounted`, `NoIdleCapacity` | `SchedulerInv` |
| | `MutationsAwaitReview` | `MutationAwaitsReview` | `EvidenceInv`, `SeenInv` |
| | `EvidenceWasReviewed`, `ClearedStaysCleared` | `CommittedWasReviewed`, `RemovedStaysRemoved` | `EvidenceInv` |
| `SessionLeaseProofs` | `LeaseIsExclusive`, `WritesKeepTheirLease`, `WritersAndRemoversExclude`, `RegistriesTellTheTruth` | `ExclusiveUnlessOrphaned`, `SaveKeepsLease`, `OneWriterOrRemover`, `RegistrySound` | `LeaseInv` |
| `SessionInboxProofs` | `StoreIsConsistent`, `InFlightIsTheWriters`, `AcceptedWorkIsKept`, `ForeignWorkIsResumed` | `StoreConsistent`, `InFlightBelongsToWriter`, `AcceptedWorkSurvives`, `ForeignWorkNeedsResume` | `StoreInv` |
| | `StoreImplementsQueue` | `ImplementsDurableQueue` | `StoreInv`, `QueueOK` |
| `InboxControllerProofs` | `TurnKeepsItsItem`, `AcksFollowRuns`, `RunOrSteered`, `RestLeavesNothing`, `NeverAppliedTwice` | `LiveTurnItemRunning`, `AckAfterRun`, `NotRunAndSteered`, `NoOrphansAtRest`, `AppliedNotRerun` | `Orderly` |
| | `NoWakeupLost` | `NoLostWakeup` | `Alert` |
| | `ControllerTypeCorrect`, `GateKeepsItsPromises` | types; the safety of the gate with the inbox on top | `Typed`, `GateInv` |
| `RewindTransactionProofs` | `ManifestsAreSound`, `EditsAreKept`, `RewindIsAllOrNothing`, `OthersAreRolledBack` | `ManifestsSound`, `EditsSurvive`, `AllOrNothing`, `OthersRolledBack` | `RewindInv` |

The assumptions say that the constants have their kinds: bounds are natural
numbers, the values that stand for "none" are outside the sets they complete,
`Kinds` names entry points, the processes that share a store are finitely many.
Nothing bounds the number of callers, requests, items, files, transactions, crashes
or failures.

**Turn gate.** `GateInv` joins the five safety invariants with `TypeOK`,
`QueueMatchesCallers` (whoever is in the queue is parked, and once: so the turn a
window hands over to was not in flight) and `OneDelivery` (a live controller has at
most one turn in its finishing window: so a second window cannot close while the
first still needs it). `HandoffInv` adds `NothingParkedAtIdleGate` itself,
`ParkedAreAsync` (whoever is parked will end in a finishing window) and
`DrainerIsAsync` (so will the turn it is parked behind), with the lemma that a
caller's entry point never changes. The two handoff properties carry a condition of
their own, `BlockingApart`: the steer fallback (`runGuardedOrPark`), the only entry
that parks behind a running turn, does not share the gate with blocking callers. It
is needed, as the table above shows. `NoStartAfterClose` and `NoOvertaking` follow
from the same invariants step by step.

**Prompts.** One prompt at a time is the prompt lock (`LocksHeld`): who has been
shown holds `promptMu`. That an answer is used once is not a matter of one lock. A
resolver takes an entry out of the map and replies later, so `EntriesLive` says who
may have an entry and `SettledOnce` that a request for which an answer was taken,
sent or drained never gets one again. `AnswersJustified` follows an answer from the
person or the switch of posture that gave it to the request it releases, and
`SeenTracks` that the postures a request met contain the one in force.

**Sub-agent scheduler.** The theorems are about `JSpec`, the whole of
`BackgroundJobs`: a lemma shows that jobs, turns, managers and crashes touch the
scheduler only through its own operations. The counters are right because the lists
of claims are (`ClaimsListed`, `HoldersCounted`). No idle capacity needs the walk:
`WalkedCannotStart` says that the waiters a walk has passed still cannot start, which
holds because a walk only gives capacity away.

**Job evidence.** What a mutation is worth depends on who may still write a record
about it, so `EvidenceInv` is mostly about that. `StepOK` ties a goroutine's step to
its manager: a manager that is released or dead has only jobs that are `Quiet`, which
have ended, or were cancelled before they changed a file and will not run. `HomeOK`
says what the manager of a job has in memory at each step (evidence before status,
status before `done`); `TombOK`, `FileOK` and `WalkOK` that what other managers have in
memory, what is on disk and what a load has read in between is of a job that had come
to its end, and is `Sound`: it has the evidence of every mutation that is on record
and not reviewed. `LeaseOK` says that a lease of the turn is merged in its ledger or
has nothing to consume. So a commit consumes only what was reviewed, and a repair
replaces only a record that said running, unless the read it judges was stale
(`staleRepair`). `SeenInv` is about the walk: a manager that has loaded knows every
record of earlier managers but those in `missed`, and during the walk one it does not
know is still to be read, has been found, or makes the load end unfinished. These two
are the exceptions the property names. `ClearedStaysCleared` is proved for
a session whose managers are not closed while jobs go on. With a closed one it is
false: the table above has the row (`jobs.go:1640`).

**Session lease.** Which files an attempt or a save has open and locked is told by
the step it is at (`LeasesTracked`, `SaversTracked`), and the operating system locks
an inode once. So two holders have two inodes; `LockedIsNamed` says that without an
orphan every holder that has not begun to remove its file has it under its name,
and there is one name. The orphan (run `lease_unlink`) is the exception the property
names; on Windows none arises without a remove by path (`WindowsNamed`), and what such
a remove does to a file that is locked again is an orphan by definition. A parked `Release` always has a save
that will wake it (`ParkedReleaseHasWaker`).

**Inbox store.** `InboxManifestProofs` shows what each manifest operator preserves
of a manifest that is well made: items with distinct ids and bodies, and keys only on
listed items. `StoreInv` follows a transaction stage by stage: the body is written
before the manifest that names it, and what cleanup removes is named by no manifest
(`StageOK`); the transaction works on what is on disk, under the run that wrote it
(`LoadedOK`); in flight is only what that run put in flight (`FlightOK`); an inbox
with items of another run is paused or was resumed by this one (`ResumeOK`); what is
owed has its body and is listed, or about to be (`OwedOK`). `AcceptedWorkIsKept` has
the hypothesis `Covered`: the manifest was never damaged, or there was neither a crash
nor a failing write. So it covers any number of crashes and failing writes, and any
number of damaged manifests, but not both: a salvage cut short loses the bodies, as the
table above shows (`store.go:175`).

`StoreImplementsQueue` is the refinement. The abstract queue is what the manifest on
disk shows (`MappedQueue`), and the abstract step is the rename of a manifest into place.
`QueueOK` says that the manifest a transaction is about to commit is one operation of the
queue away from what the disk shows, also after the recovery and the pause that a load
put into it. Every other step (bodies, staging, cleanup, loads, crashes, failing writes)
leaves what is shown as it is. Damage is the abstract `Damage`, after which the queue
promises nothing; until then the manifest is `Intact`. So the theorem needs no
hypothesis about what may happen to the file.

**Inbox controller.** A manifest is read item by item (`StatusIn`, `TextIn`): a first
group of lemmas says what each operation does to one item and that it leaves the others
alone, a second one which item each step moves and from which state. `Typed` and
`GateInv` are inductive whatever the frontend does, so the gate keeps its promises with
the inbox on top of it. `Orderly` adds `Own`, which follows every item in flight from
hand to hand. `InFlightHeld` is its centre: an item in flight is held by the dispatcher
(`Claims`), by a steer command (`Commands`), by the turn that owns it and has not
settled it (`Settling`), or by nobody because a write about it failed (`unsaved`). It needs the lock that keeps dispatcher and steer command apart
and the admitting set that covers the gap before ownership (`Locks`), the path of an
item from the dispatcher to the turn body (`Carried`), the agent's steers, each listed
once and still accepted (`Lists`, `Guided`), the finishing window that belongs to one
turn (`DeliveryAlone`), and what has run and is not in the queue (`History`). From it
follows that orphan recovery, which any reader of the inbox may start at any moment,
finds nothing to recover in a live controller (`NothingOrphaned`).

The five theorems from `Orderly` have the hypothesis `Plain`: a frontend that sends no
blocking turns, runs no items itself, deletes none, steers none a second time, and does
not edit an item into one whose references cannot be frozen. It may chat, queue, steer,
pause, retry, edit, stop with discard, rotate and close, with any number of items,
prompts pending at any time, and any write failing. The first two and the last make
properties false: a blocking turn opens the gate before its
items are settled (run `blocking`), and the edit has its row in the table above.
Deleting and steering again take an item away from its owner, which the properties
except where it shows; there `Orderly` does not hold, and run `inbox` is what is known.

For `NoWakeupLost` the invariant says that somebody is awake for every queued item of an
unpaused inbox, unless the dispatcher went idle at a prompt (`asleep`) or a write about
the item failed (`QueuedWoken`): the dispatcher before its next scan or with a note to
scan again, a scheduled retry, the command that is still queueing the item, or whoever
keeps the gate shut. `BusyKept` is the step that matters: whoever opens the gate kicks the
dispatcher. `Answered` closes the other gap: a dispatcher that was turned away and is about
to leave was turned away by a gate that is still shut, or has been kicked since. The
hypothesis is that no turn is a blocking one, which opens the gate and kicks nobody.

**Rewind.** `RewindInv` has two halves. `StructureOK` holds always: what the process
works on is what its manifest says (with the two steps at which they differ), every
manifest restores the checkpoint or what its parent replaced, numbers are used in
order, a backup is written once, and what the user wrote is at the path, in a backup
or in a durable manifest (`SavedOK`). `EditsSurvive` and `ManifestsSound` follow from it.
The other half is about the files the user left alone, as long as no compensation was
cut in two and no rewind began over a pending one (`Calm`): at most one transaction
is pending; each of its files is untouched, in the window between the two renames,
published, or being rolled back (`FileOK`); how far a commit or a compensation has
come is what the process thinks (`ProgressOK`, `RolledOK`); and with nothing pending
the workspace is what the settled manifests promise (`RestOK`). The exceptions are the
ones `AllOrNothing` names, and the last two rows of the table above show why.

Only model-checked:

* Liveness under fairness (`ParkedTurnsLeave`, `QueueDrains`, `NothingStuck` and the
  like): out of the prover's reach.
* `DeduplicatedWhileRemembered`: which receipts the cap may drop depends on how many are
  older, and counting them through a sequence of completions needs induction over data.
* The properties of `InboxController` for frontends that delete items, steer them a
  second time or run them themselves (`Plain`).

## Not modelled

* Store: byte limits, revision numbers, schema migration and the
  read-only mode for newer schemas, closing, rebinding and moving directories.
  After salvage keys and order are lost, as in the code; deduplication is
  claimed without corruption only.
* Inbox controller: an inbox that cannot be opened, rotations that change the session
  path (`rebindInbox`), moving an item (a plain store operation, modelled in
  `SessionInbox`).
* Agent: the model call, the tools and the transcript. A turn body is one step
  that ends at any time; what was applied is a history variable.
* Lease: the keeper in the control package that rebinds a controller's lease, the
  info file beside the lock file, the bytes a save writes.
* Jobs: output buffers and cursors, `Wait`, the stalled-job monitor, moving
  artifacts to another session path, several sessions in one manager. How paths
  become claims (`write_claims.go` normalisation) is taken as regions.
* Rewind: capture of checkpoints, the generation barrier and plan tokens, the
  conversation half, blob collection, older layouts; a change of a file between a
  look and the rename it allowed.
* Prompts: the recovery gate's Auto Guard cards and their rotation, replay to every
  sink at once, the ordinary permission that a write-access prompt can include,
  directories that need no prompt for other reasons, controllers without a user,
  the low-risk memory that is saved without asking, goals that Stop ends when there
  is no turn, decision receipts.
* Not modelled at all: session log and writer, file locks and workspace leases,
  the frontends (the models let a user issue their commands in any
  order), providers, tools, permissions, memory, skills, plugins, catalogs, the
  desktop shell, site and benchmarks. Most of the repository is user interface,
  configuration and I/O of this kind; it keeps little shared state, and the map
  covers a small part of its lines for that reason.

## Plan

1. Proofs: `Orderly` for frontends that delete items or steer them again, with the
   ownership those lose as part of the state.
2. The session log and writer on top of `SessionLease`: compare-and-swap on the
   revision and recovery of a torn tail.
3. The checkpoint barrier and plan tokens; file locks and workspace leases; Auto
   Guard cards on top of `UserPrompts`.

# Verification of studio-web

TLA+ modules of the parts of studio-web whose correctness rests on ordering,
failure and concurrency, the TLC configurations that check them on small
instances, and TLAPS proofs of the results that matter most. Paths below are
relative to the repository (`src/`).

To check a run: `tlc -config TaskRuns.cfg MCTaskRuns.tla`. To check the proofs:
`tlapm TaskRunsProofs.tla`, and likewise the other
proof modules (about ten minutes for `WorkspaceJobsProofs`, a few at most for each other).
A leaf that takes a prover several seconds names it, with a limit far above what
it needs, so the result does not hang on how fast or busy the machine is.
`PROJECT.json` lists the runs, what each definition
translates (`map`), the mutations that break each property, and the hazards.

## 1. The system

One Rust process, `studio-backend`, holds every backend component as a "gear";
several replicas of it run on one Postgres. The portal (`studio-frontend`) and
the IDE (`theia`) are its clients. The IDE has a Node process of its own
(`theia/studio/src/node`) that works on the Git repositories of a workspace: it
keeps the configured sources in step with their remotes, and publishes saved
documents. It keeps its state in append-only files beside the workspace.

| component | state it keeps | operations | what makes it correct |
|---|---|---|---|
| studio-tasks (`tasks/`) | one row per run; an outbox message per attempt to work on it (library `toolkit-db`); in memory, the handler registry and a ready flag | enqueue, cancel, retry, dispatch, retention sweep | no accepted run is forgotten, no handler is called more often than allowed, what succeeded is not repeated, one idempotency key is one run |
| studio-scheduler (`scheduler/`) | one row per schedule; an advisory lock | tick, fire, create, patch, delete, run now | each instant is fired once or counted as skipped; the concurrency policy holds; what is due is fired |
| studio-events, server (`studio_events/`) | a cursor row and a log per tenant; in memory a queue to the writer, and per tenant a watermark and a broadcaster | publish, append, poll, prune, stream, page | a number names one event; the window is whole; broadcasts ascend |
| studio-events, browser (`FetchEventSource.ts`, `StudioEventsApiService.ts`, `followRuns.ts`) | a cursor, held frames, replays in flight | connect, receive, replay, give up, close | exactly once, in order, nothing passed over, nothing after the end |
| workspace jobs: queue and orchestrator (`workspace-job-queue.ts`, `workspace-sync-orchestrator.ts`) | in memory an array of jobs per source, a drain per active source, confirmations by job and batch; in the journal the latest record of each job | start, confirm, cancel, retry, drain, recover | no queued job is out of sight, no job says running without a drain, git runs only under a confirmation that still holds, every job comes to rest |
| workspace jobs: git (`workspace-git-service.ts`) | none; the source's repository | inspect, clone, reconcile, fast-forward, forced update | nothing is discarded unasked, in step means in step |
| journals (`workspace-job-journal.ts`, `operation-journal.ts`) | a file of JSON lines and what was read from it | append, sync, read back | what was acknowledged is served after a restart, under its number |
| publishing of saves (`repository-operation-queue.ts`, `git-publish-service.ts`) | in memory a queue per repository; in the journal the state of each operation | enqueue, retry, pull, commit, push, recover | one commit per save, what reads pushed is at the remote, every save comes to rest |
| studio-session | a cache of IDE sessions; the truth is in Docker or Kubernetes | create, get, stop, reap, meter | not modelled (6) |
| notify, presence | none; heartbeats and inboxes in memory | deliver; beat, post, drain, forget | not modelled (6) |
| the other gears, the portal's screens, the IDE's widgets, deployment | rows behind single statements, Git, external services | CRUD, imports, queries, user interface | `PROJECT.json` names each with the reason it is left out |

How they interact. The scheduler enqueues through `TaskQueue` with an
idempotency key made of the schedule and the instant; it reads the state of the
run it enqueued last and cancels it. The task dispatcher publishes the progress
and the end of a run on studio-events, and queues a `notify.deliver` task when a
run that asked for it ends. The browser reads the tenant's event cursor, starts a
job, and follows the stream from that cursor. Everything durable of the backend is in
Postgres; row and outbox message are written in one transaction only by enqueue
and retry. In the IDE the orchestrator hands jobs to the queue, which records
them in the journal and calls the orchestrator back to execute each; that asks
the git service to inspect and then to act. A save goes from the editor to the
operation queue, whose executor is the publish service. The user, other tools
and colleagues use the same repositories meanwhile.

What is hard in it:

- **Two records of one fact.** A run's row and its message are settled
  separately, the row best-effort. A crash, a failed statement or an expired
  lease can fall between.
- **Reads that are old when used.** `cancel`, `retry`, `find_waiting`, a tick
  and `patch` all read, decide, and write by id.
- **Replicas.** Numbers are taken and rows written by separate statements of
  several writers; an advisory lock can be lost under its holder.
- **Asynchronous calls that outlive their reason.** A replay of a broken
  connection is not cancelled.
- **Commands of git, one by one.** Between a check and the act it allows, and
  between two acts, the user edits, commits or switches, and the remote moves.
- **A record behind its fact.** A journal line lands after the change it tells,
  in the order of the calls; a crash loses or cuts the last.
- **Bounds.** Attempts, missed instants, schedules per tick, the writer's queue,
  the broadcaster's buffer, the event window.

`hazards` in `PROJECT.json` gives each at its line with the properties aimed at it.

## 2. The modules

| module | models | composed of |
|---|---|---|
| `RunLedger` | what studio-tasks promises of a run, without queue or process (abstract) | |
| `TaskRuns` | `tasks/dispatch.rs`, `service.rs` (cancel, retry), `sweep.rs`, `mod.rs` | implements `RunLedger` |
| `TaskRunsProofs`, `TaskEnqueueProofs`, `SchedulerProofs`, `EventStreamProofs`, `SourceSyncProofs`, `JobJournalProofs`, `SaveOperationsProofs` | proofs | the module of that name |
| `TaskEnqueue` | `tasks/service.rs` enqueue, `find_waiting`, `attach_key` | |
| `SchedulePlan` | `scheduler/policy.rs` plan, `cron.rs` next_after (pure) | |
| `Scheduler` | `scheduler/ticker.rs`, `service.rs` | `SchedulePlan` |
| `StudioEvents` | `studio_events/` hub, pump, store | |
| `EventStream` | the browser's stream on that server | `StudioEvents` |
| `WorkspaceJobs` | `workspace-job-queue.ts`, `workspace-sync-orchestrator.ts`, what the queue asks of the journal | |
| `SourceSync` | one job on one source: the orchestrator's plan, `workspace-git-service.ts` by git command | |
| `JobJournal` | the file under `workspace-job-journal.ts` and `operation-journal.ts` | |
| `SaveOperations` | `repository-operation-queue.ts`, `git-publish-service.ts` | |
| `MC...` | constants of the instances TLC checks | |

### TaskRuns

A run is `state`, `cancelRequested` and `notice` (the row and what its IDE was told);
the queue is `runOf`, `pending`, `attempts`, `deadLetters`; `worker[p]` is the one
call of `TaskDispatcher::handle` a partition can have, with its program counter.
The steps follow the code's awaits: `Deliver` (hand-over by the queue, which
counts it), `Read` (everything up to the record of `running`: the missing, settled,
cancelled, unhandled and gave-up answers), `StartHandler`, `HandlerReturns`,
`CheckCancelled` (with the outcome's meaning, `Conclude`), `Record`,
`TellTheEditor`, `Acknowledge`. `ContextFails` is the answer between the read and the
record of `running`: the context of a handler cannot be built, the message is rejected and
the row left as it is. `Crash` drops every call and the registry;
`LeaseExpires` drops one from the handler on, which is the only long part.
`CancelCheck`/`CancelWrite` and `RetryCheck`/`RetryWrite` are two steps each,
as their statements are, and `Prune` is the retention sweep. A database call
may fail at every place where the code handles the failure. `lost` is a history
variable: the runs whose ending was answered to the queue while the row could not
be written, which the code accepts (it logs). `contested` is another: the runs that two
retries had in hand at once, of which the code accepts the second whatever the run has
become (section 5, `RetriedTwice`).

Left out: progress reports, the poller that tells a working handler of a cancel,
leases shorter than the statements around a handler, and a message whose payload names no
run (`dispatch.rs:474-484`): it is rejected and there is no row it could speak of.

### TaskEnqueue

Each request is a process through `enqueue`'s statements: the lookup by key,
`find_waiting`, the decision between the run of that key and a waiting one, the
attach, the second lookup and the transaction. The unique index is `Conflicts`.
A request for a task type without a handler is refused at once (`Refused`).
A statement may fail, and a commit may succeed with its answer lost.
Runs start, end, are put back, cancelled, retried and pruned meanwhile.
`joinedLate`, `joinedDead` and `overlooked` are histories for the properties.

### SchedulePlan and Scheduler

Time counts in minutes. A cron expression is a grid on that clock; an interval
counts from the last firing. `Plan` is `policy::plan`: at most `MaxWalk` missed
instants, what to fire of them, what is dropped, where next. A replica's tick takes
the advisory lock, reads the due rows, and for each fires instant by instant:
judge the previous run, enqueue under `schedule:instant`, advance by id. The
lock can be lost, a call can fail (an enqueue also after its commit) and
the replica can stop between any two. `patch` reads and writes in two steps. A run is
its key: that one key is one run is what `TaskEnqueue` shows. A schedule in
`Unhandled` has a task type nobody handles any more. `outrun` is a history variable: the
schedules one of whose runs a later judge may not see, because a tick started it and
did not get to write it to the row, started it beside another from the same reading, could not ask
the run before it to stop, or lost the lock with the schedule on its list.

### StudioEvents and EventStream

`published`, `queue` and `writing` are the path of an event to the log; `cursor` and
`rows` the two tables; `mark` and `live` each replica's watermark and broadcaster.
The poller's read and its delivery are one step, since only the poller moves the
watermark. `prune`'s two statements are one: a mark read earlier deletes less.
Tenants share only the queue, so there is one.

`EventStream` adds one `FetchEventSource`: its connection, `seen` (its cursor), what it
is holding, and every replay in flight with its page. A page's read at the server
and its arrival are two steps. A stream is opened from a cursor (`FromGiven`, as
`streamFrom` does) or from now on. `Abrupt` lets a connection break mid-body;
without it connections end in order.

### WorkspaceJobs

One single-threaded process: an action is what runs between two awaits.
`jobs` is what the journal has, `appends` the calls of `appendSnapshot` that have not
landed, in the order they were made. `pending`, `order` and `drain` are the
queue's two maps: `processSource` iterates the array it took when it began, and
`dropPending` puts a filtered copy into the map, so a drain can be on another
array than the map (`shared`, `own`). `turns` is `enqueueTail`: a batch enqueues one
source after the other, and other requests wait. `drain[s].pc` follows one
job through `runJob` and `execute`: `starting` (the record of running is on its
way), `planning` (configuration loaded, confirmation looked up), `reporting`,
`mutating`, `finishing`. `AppendLands` continues whoever waited for the record.
`Restart` loses everything but the journal, fails what was running and queues
what was queued; `serving` is false until the queue has been idle, because the
orchestrator's `initialize` waits for that. What git answers is a choice.

### SourceSync

One source and the job at it, a step per git command: `Look` and `Count` are the
inspection, `Plan` the orchestrator's choice; then the steps of
`cloneMissingSource`, `reconcileExistingRemote`, `fastForwardUpdate` or
`forceUpdate`. A branch is the set of commits it reaches. Any command may fail, the
fast-forward, the forced checkout and the change of the remote's URL also after they took
effect; an inspection that fails ends the job or reads as a wrong remote (`Unreadable`). After a
new URL the source is inspected once more (`Confirm`), and settings of the repository that git
would run make that a conflict. Between any two steps the user edits, commits, switches branch,
detaches HEAD or fetches, somebody puts files at the path, the remote gets a commit or
loses one, the job is aborted, or the process dies. A forced checkout leaves untracked files
where they are, so the working copy may stay dirty. Commits on a detached HEAD, and a remote URL
the user changes by hand, are left out. A job starts only when the one before it ended, which is what
`WorkspaceJobs` shows of one source. `job.since`, everything the remote has been
since the job began, is history.

### JobJournal

The file is a sequence of pieces, one per append: whole or cut, with or without
the newline. `Write` and `Sync` are the two steps of `appendJsonLine`; either may
fail, a failed write leaving nothing or a part. A death of the process (`ProcessDies`) leaves
the file as it is, no more synced than it was, but for the write it dies in; a power failure
(`PowerFails`) leaves a first part of what was not synced, cut anywhere. A start serves both
kinds of record and syncs neither, so a record may be served and taken back later:
`ServedForGood` is not a property of this code (`workspace-job-journal.ts:279-294`).
`served` is what has been served and was not taken back. `Start` is `readPersistedState`:
garbage is passed over in the last line and refused elsewhere, and sequence numbers must count. `spoilt` is a
history variable: an append has gone behind a tail that was cut, or behind a record that was
written and not counted. The code does nothing to prevent either (section 5), and
the properties say what holds until then.

### SaveOperations

One repository and one document. A commit is who made it and what the document
holds after it; `local` and `remote` leave out the common start. `pending` is the
queue (an entry remembers the state it was queued in), `run` where
`runOperation` and `execute` are: `Check`, `Pull`, `Pulled`, `Hash`, `Add`,
`MakeCommit`, `PrePush`, `Push`, and `Record`, which writes the transitions of an
outcome one by one. A save whose enqueue fails is logged and forgotten by the editor
(`EnqueueFails`, `Lost`); any append may fail, the one of `validating` included (`RecordFails`);
a check or a look into git may throw (`StepFails`); a commit may be made and the look at it
fail or find a hook's files in it (`MakeCommit`). `git pull
--rebase --autostash` has its outcomes as far as one document shows them: nothing in common, a fast-forward with the unpublished save put back,
and a conflict. `MakeCommit` takes the content of the working tree at that moment
(`--only`). A push may go through unheard. The user saves, commits by hand, squashes, clears a
stopped rebase, edits the configuration; others push; the process restarts.

## 3. What the runs check

Bounds are constants of each `.cfg`; every one is a guard in the module and is
commented where it is declared.

| run | instance | shows |
|---|---|---|
| `TaskRuns` | one run, three messages, one fault, two attempts, two retries at once | `NothingLost`, `StartsBounded`, `CancelStopsStarts`, `SucceededIsFinal`, and that the gear implements `RunLedger` (`KeepsLedger`) |
| `TaskRunsLive` | two runs on one partition, one fault | `Settles`: each ends, the second behind the first |
| `TaskEnqueue` | four requests about the same work: a pair under one key, one under another, one without; three runs; one fault | `OneRunPerKey`, `AnswerIsFindable`, `KeyNeverMoves`, `JoinsWhatWaits` |
| `SchedulerFaults` | two replicas; a replace schedule with backfill over three minutes, a run by hand, three faults | `NoUnaskedOverlap`, `EveryInstantAccounted` |
| `SchedulerPolicies` | two replicas; a forbid schedule every minute and a replace schedule on an interval of one, over two minutes; two patches, so that one is disabled and enabled again; no faults | `NoUnaskedOverlap`, `DueIsFired` |
| `StreamResumes` | one aligned replica, a cursor, three events, a window of two, a failure | `NothingPassedOver`, `ReachesTheConsumer` |
| `StreamFaults` | two replicas, four events, a failure, a restart, broken connections | `InOrderOnce`, `NumberNamesOneEvent`, `WindowIsKept` |
| `WorkspaceJobs` | two sources, one slot, three jobs, two requests, a cancellation, a restart, an edit of the configuration | `QueuedIsListed`, `RunningIsDriven`, `TouchedWhenConfirmed`, `ConfirmedIsNotAsked`, `InOrder` |
| `WorkspaceJobsLive` | the same without the edit, batches of two | `Settles` |
| `SourceSync` | two jobs, three commits anywhere, crashes and failing commands | `LosesNothingUnasked`, `ForcedIsCurrent`, `InStepIsTrue` |
| `JobJournal` | five appends, four process deaths or power failures, two faults | `AckedIsServed`, `StartsAgain`, `NumbersStay` |
| `SaveOperations` | two saves, one each of a push by others, a commit by hand, an edit of the configuration, a restart, a fault | `RecordedIsThere`, `OneCommitEach`, `NothingLeftBehind`, `Settles` |

`TypeOK` is checked in `SchedulerFaults`, `StreamResumes`, `WorkspaceJobs`,
`JobJournal` and `SaveOperations`; that of `TaskRuns`, `TaskEnqueue` and `SourceSync` is
proved (section 4).

Why the bounds are enough. Two of anything that races (replicas, requests under
a key, retries, connections) is where each race appears. Two attempts is the
least at which "one too many" differs from "none". Three messages let a retry's
message stand behind an old one and be retried again. A backlog of three instants
exceeds `MaxCatchUpRuns`, two firings of the replace schedule are the least of which one can
be asked to stop, and a window of two is emptied by the prune while a number is
lost and another is in flight. A poller that falls a whole window behind loses rows
to the prune, and a replay then ends the stream or has nothing to miss; the
configured window is thousands.

`ConfirmedIsNotAsked` speaks of the first and the last job of a request, which in a batch of two is
every job; it was also checked, once, with three sources, two slots and four jobs (4.8 million
states). Of the jobs between it is false (`BatchOfThree`, section 5).

One slot makes the second source of a batch wait, three jobs let a batch of two
meet a third job of one of its sources, and one restart with records in flight is where a
journal and a queue can part. Three commits are one for the user, one for the
remote and one between check and act; a second job sees what the first left. Five
appends allow two on either side of a damaged one. With two saves one
overtakes the other at every step; the module was also checked, once, with three
saves and three contents and without commits by hand and configurations
(11.7 million states), and shows nothing more.

`CHECK_DEADLOCK FALSE` everywhere: an idle system stops, and so does a bounded one.

Fairness. `TaskRuns`: the start phase completes and each partition's call keeps moving,
which is the outbox's own loop; a handler need not return, since its lease
expires. Nothing is assumed of callers, outcomes or registration. `Scheduler`:
every replica keeps ticking and its statements complete; the clock is not assumed
to move. `EventStream`: the writer and the poller loop, the browser reconnects and
reads, requests are answered. `WorkspaceJobs`: a record on its way lands, a drain's
next step comes, the start of serving comes, which is one event loop and git
commands with time limits; users, edits and crashes may stay away. `SaveOperations`:
the runner of the queue keeps moving; the user need not retry. Each is weak fairness of an action the code runs in
a loop of its own.

## 4. What is proved

`TaskRunsProofs`, for every set of runs and partitions and every bound, from the
assumptions named in `TaskRuns` (the bounds are naturals, attempt limits at least one
and below the counter's ceiling, a run belongs to a partition):

- `Invariant`: `Spec => []IInv`.
- `TypeCorrect`: `Spec => []TypeOK`.
- `NothingIsLost`: `Spec => []NothingLost`.
- `SuccessIsFinal`: `Spec => SucceededIsFinal`. The property leaves out the runs two
  retries had in hand at once: `RetriedTwice` (section 5) is the counterexample with them.
- `LedgerIsKept`: `Spec => KeepsLedger`, with any number of retries at once. The ledger says
  which success may be reopened: that of a run two retries met on (`Contend`, `Again`).
- `CancelHolds`: `Spec => []CancelStopsStarts`.
- `StartsAreBounded`: `Spec => []StartsBounded`.

`NothingLost` is not inductive: a call that is about to acknowledge must already
have an ending on its row. `IInv` adds what a call in progress holds: `QueueOK`
(a message that exists names a run, one that does not is not pending), `Holds` (a
call's message is pending and of its partition), `WorksOnLive` (a call past the
read works on a run that was enqueued), `Agree` (the answer prepared agrees with
the state to be recorded) and `Dispensable` (a message about to be removed is of a
run that is not live, is written off, or has another message). One lemma per
action shows it keeps `IInv`; `Becomes` and `Put` say what a row update and a
post do, `Elsewhere` that a step of one partition leaves the calls of the others.
TLC checked `IInv` before it was proved.

The last three rest on invariants of their own, each kept by every action given `IInv`:

- `RetryHolds` (a run somebody is retrying has failed, was cancelled or is gone, unless two
  retries met on it): with
  it every step of the gear is a step of `RunLedger` or changes nothing there. A post
  makes the debt, and a message that leaves pays it only when no other message of the
  run is pending; `Dispensable` says that the run then has ended or is written off.
- `LateInv`: a run whose handler started under the flag did so once, has its flag
  still or is gone, and has no other call about to start it. A retry clears the flag
  and the count together.
- `CountInv`: as long as a run is live, and no ending of it was answered
  without being written, the delivery count of its foremost message is at least its
  handler starts, and more than them while a call may still start it. What the
  limit `HandlerMax` bounds is the count, so it bounds the starts; a message leaves
  the queue only with a run that ended, which starts from zero when it is retried.

`TaskEnqueueProofs`, for every set of requests, runs and keys, and any number of
failed calls:

- `Keyed`: `Spec => []KeyInv`; `EnqueueTypes`: `Spec => []TypeOK`.
- `OneRunForAKey`: `Spec => []OneRunPerKey`; `AnswersAreFindable`:
  `Spec => []AnswerIsFindable`; `KeysStay`: `Spec => KeyNeverMoves`.
- `WhatWaitsIsJoined`: `Spec => JoinsWhatWaits`.

`OneRunPerKey` speaks of answers only and is not inductive: `KeyInv` adds
`KeysUnique` (at most one row that exists has a key), `Stored` (a run that was never
stored has none, and what is owed or worked on is not over) and
`AnswerIsFindable` (an answer holds its key). Only the attach and the insert
change a key; `KeyStep` disposes of every other step. `JoinsWhatWaits` rests on
`JoinInv`: what a request could have joined all along is a run of its work that waits
now, and one without a key comes to its insert only when there is none.

`EventStreamProofs`, for every number of replicas, events, failures, restarts and
connections, assuming only that the bounds are naturals (`ChannelAssumption`):

- `Tables`: `Spec => []TableInv`; `NumberIsForever`: `Spec => NumberNamesOneEvent`;
  `OnceBelowTheMark`: `Spec => []WrittenOnceBelowTheMark`; `Window`: `Spec => []WindowIsKept`.
- `StreamTypeCorrect`: `Spec => []TypeOK`; `HandedInOrder`: `Spec => []InOrderOnce`.
- `NoneIsPassedOver`: `Spec /\ []Served => []NothingPassedOver`.

`TableInv` says that a number is with one writer or written and below the cursor
(`NumbersOnce`), and that an event is in one queue, with one writer or in one
row (`EventsOnce`). `TableSteps` shows that only five actions touch the tables:
publish, the two statements of append, prune and restart; the poller, the
browser and its replays leave them alone. Order rests on `ServerInv` (what a
broadcaster has sent goes up and stays at or below its watermark, whatever restarts do) and
`StreamInv` (what was handed over goes up and stays at or below `seen`).

That nothing is passed over is false in general: section 5 has four counterexamples. `Served`
excludes each by the one thing that goes wrong in it, and nothing else. `KeptUp`: the subscription
is never behind by more frames than its buffer has (`LaggardSkips`). `AlignedFirst`: while the
channel of an open connection is not aligned, a replay has not read its first page
(`AlignSkips`). `NoneBehind`: no replay outlives its connection (`ReplaysOverlap`). `NoneLate`: no
number is written below one that is written, or that the connection's broadcaster has passed
(`LateRow`). Replicas are as many as one likes, they restart, a connection breaks in the middle
and the next one goes to another replica, requests fail, replays are given up, numbers are lost
and the window is pruned. `PassInv` says where a row between the start and the cursor can be:
handed over, held, still to be sent on the connection, or in reach of the replay in
flight (`Owed`), whose pages begin where the last one ended (`Replaying`); and that what was sent
is written and ahead of the cursor only by rows that are owed (`Ahead`). TLC checked `PassInv`
under `Served` with two replicas, a restart, a failure and broken connections (1.9 million states).

`SourceSyncProofs`, for every number of commits and jobs, wherever one dies or a command fails:

- `TypeCorrect`: `Spec => []TypeOK`.
- `NothingLost`: `Spec => LosesNothingUnasked`; `ForcedWhereTheRemoteWas`:
  `Spec => ForcedIsCurrent`; `InStepWithTheRemote`: `Spec => InStepIsTrue`.

`LosesNothingUnasked` follows from the steps and `TypeOK` once it is known that only a
confirmed job is at the forced update, and that a path without a repository has no
branch to lose. `IInv` is `TypeOK`, `PlacesInv` (what is at the path and in the temporary
directory at each step) and `ForceInv` (a forced update is confirmed, is on the
configured remote from its inspection on, and after its own fetch the tracking ref, then
the revision it expects, is something the remote has been since the job began,
whatever the user fetches or the remote becomes meanwhile). `InStepIsTrue` adds
`StepInv`: the tracking ref a refresh compares with, and what a clone has brought, are
something the remote has been since the job began, a source found clean has it on
a branch until the job reports so, and a HEAD that was detached in mid-inspection stands where
a branch is.

`JobJournalProofs`, for every number of appends, crashes and faults:

- `TypeCorrect`: `Spec => []TypeOK`; `AcknowledgedIsServed`:
  `Spec => []AckedIsServed`; `NeverRefused`: `Spec => []StartsAgain`;
  `NumbersNameOne`: `Spec => []NumbersStay`.

`IInv` is `TypeOK`, `CallsInv` (no two pieces are of one append, and one append at a
time is between its write and its sync, with the next number) and `SoundInv`: until the
file is spoilt the i-th piece has the number i and all but the last are whole and
ended (`Aligned`); what was acknowledged is on the disk and synced
(`AckedOnDisk`), and what was served and not taken back is in the file (`ServedInFile`);
and what is served is the file up to the last number (`ServesFile`). `Aligned` is what makes the file readable after every crash.

`SaveOperationsProofs`, for every number of saves, restarts, foreign pushes, commits by
hand, configurations and faults:

- `TypeCorrect`: `Spec => []TypeOK`, in particular no operation is queued twice.
- `SavesCommitOnce`: `Spec => []OneCommitEach`.
- `RecordedStays`: `Spec => []RecordedIsThere`; `NothingIsLeft`:
  `Spec => []NothingLeftBehind`.

Between the look for an earlier commit and the commit lie a pull and whatever the user
commits by hand. `IInv` adds `NoneYet` (from that look until the commit the branch has
none of the operation), `CommittedOnce` (the branch has a save once) and
`PublishedIsShared` (a save the remote has lies in what both histories begin with).
The last is what lets a pull keep the other two: everything of a save that it brings
was on the branch already. `LongestAgreement` and `WhatIsShared` say that `Shared` is
the length of the longest common prefix, which a squash and a rebase keep.

`EndInv` is what the records are worth. An ending recorded, or about to be, is true
(`ResultInv`: what reads pushed is in the remote, what reads committed has its commit, and
the last save that ended leaves the document as HEAD has it); what is queued has not
ended, and where the runner is at the push HEAD holds the save (`TurnInv`); a commit of
others on the branch came from the remote with all below it (`OriginInv`); the document is
the last save or what HEAD has (`WorkInv`).

`SchedulerProofs`, for every set of schedules and replicas, every expression, policy
and bound, from the assumptions named in `SchedulePlan` and `Scheduler`:

- `Typed`: `Spec => []Types`; `SchedulerTypes`: `Spec => []TypeOK`.
- `NoInstantIsPassedOver`: `Spec /\ []BacklogsWalked => []EveryInstantAccounted`, when no
  patch changes an expression.
- `NoneGoesOnUnasked`: `Spec => []NoUnaskedOverlap`, with any faults, patches, backlogs
  and replicas.

`EveryInstantAccounted` rests on `OwedInv`: every instant that a row, stored or read, has
behind it is answered (`RowsAnswered`, `ListOwes`), and of those pending when a tick began
each is still to be fired, still to be logged as passed, or answered (`TickOwes`). That
needs the plan to be whole: it has all instants due as long as there are no more than
`MAX_WALK` (`MissedIsPending`; `BacklogsWalked` is the hypothesis, `WalkCut` of section 5 the
counterexample beyond), it skips none on its way to the next (`NextSkipsNone`), and
nobody moves the cadence under the tick (`PatchOverwritten`). Faults, lost locks and stopped
replicas are allowed. `NoUnaskedOverlap` rests on `OverlapInv`: of the runs of a schedule that is
not `outrun`, all that go on but the latest were asked to stop (`Alone`); the row, and what
any tick has read of it and not fired since, names that latest one (`RowIsTrue`, `ReadIsTrue`); whoever is
about to fire has found it ended or asked it to stop (`FiresJudged`); and only the holder
of the lock has such a schedule on its list (`Seen`). Faults that hit a schedule elsewhere, or before
anything was started, leave all of that. Those that hide a run from the judge put the
schedule into `outrun`, and `ForbidOverlaps` shows that the property needs it. `PendingIs` to
`FiresAre` are the facts about the plan these proofs cite.

`WorkspaceJobsProofs`, for every set of sources (finite or not), set of batches, number of slots
and bound, assuming that no batch is empty and there is a slot (`JobsAssumption`):

- `JobsTypeCorrect`: `Spec => []TypeOK`, in particular no more drains than slots.
- `QueuedStaysListed`: `Spec => []QueuedIsListed`; `RunningStaysDriven`:
  `Spec => []RunningIsDriven`.
- `TouchedIsConfirmed`: `Spec => []TouchedWhenConfirmed`; `StartsInOrder`: `Spec => InOrder`.
- `ConfirmedStaysUnasked`: `Spec => []ConfirmedIsNotAsked`.

`JobsInv` has three parts. `QueueInv`: the map has the keys of its arrays
(`KeysOK`), an array holds jobs of its source (`ArraysOK`), a drain awaits at most one record
and that of the job it is at (`RecordsOK`, `AloneOK`), the job it has started is not queued
(`PassedOK`), and the two properties themselves. `TurnsInv`: a request has one turn while it
has sources left, the one record of a new job on its way is of the request at its turn, and there is
room for all jobs to come. `GrantTypes` is types. A handler of the queue runs through
several of the source's functions, so the conjuncts are stated of values (`QueueOK(js, o, p, d, a)`)
and a lemma per function says what it keeps of what the caller has half done:
`ScheduleKeeps`, `AdvanceKeeps`, `DropKeeps`, `JoinKeeps`, `RelabelKeeps` (a record of a known job
lands), `RestoredKeeps`. The delicate case is a cancellation: it leaves the drain on
its old array (`HeldOf`), and a record of running called for earlier may land after it.

`GrantsInv` follows a confirmation from the request that gave it: whatever a job, a batch or a
drain at work holds was given by a request for that batch (`JobGrantsOK`, `BatchGrantsOK`,
`WorkOK`), the jobs a request made are of its batch (`MadeOK`), and past planning the
confirmation is of the revision the job has loaded. It is proved over `JobsInv`, which says
which job a drain is at: most steps only take confirmations away and leave a drain at its job
(`GrantsStay`, `MovesGrants`), and the three that give one out (`QueueBatch`, `Enqueued`,
`Started`) have a lemma each.

`OrderInv` is what makes a drain take the jobs of a source in turn. The array it reads
(`Line`) and the map's are rising; of a copy the map has, what the old array has not came before
all of that or after it (`Beside`); and a job still queued from before the one the drain is at
was cancelled, its record ahead of any start the drain has called for (`PastOK`, `Gone`).
Without the last part a drain at a cancelled job's successor could not be told from one
that has passed a queued job over. Records land in the order they were called for, so
what is on its way may only get nearer (`Goes`), and every action is shown to keep
that relation or to call for a start when no earlier job is left (`ScheduleOrder`,
`AdvanceOrder`, `NewOrder`, `CancelOrder`, `RestartOrder`). When a start lands, the
job before it would have its cancellation ahead of the head of the records (`RunIsFirst`).

`TrustInv` is why a confirmed job finds its confirmation. The first job of a request may read
only its batch's, until the last is made, which gives each its own. `BatchInv` is what protects
the batch's meanwhile, and holds with cancellations too: no job, no retry on its way and no other
request has a batch that has made nothing yet (`UnmadeOK`), so no ending of another job can drop
its confirmation (`FirstGrantOK`), and a request that joins an older batch makes one job, which is
the last (`SingleOK`). `Trusted` then follows the job to its plan: while it is queued it has a
confirmation to read, a drain that plans it has read one, no record on its way asks for one. A
queued job keeps its batch from being forgotten (`AllEnded`). Nobody may cancel: a record
of running that lands after the job's cancellation starts a job whose confirmation is gone
(`RunsQueued` is what fails). One lemma per action shows that it leaves a trusted job
its trust (`Steady`). The jobs in between have no such invariant: `BatchOfThree` is the
counterexample.

Only model-checked: the liveness properties (`Settles`, `DueIsFired`, `ReachesTheConsumer`),
since the provers do not reach fairness.

## 5. Where the code and its documentation part

The following disagreements were met while modelling. Each has its
configuration here, checked with the module named, in which TLC reports the
property named as violated. The runs of section 3 leave these cases out, by an
instance in which they cannot happen or a property that excepts them.

| configuration (module) | property | what happens |
|---|---|---|
| `RetrySwallowed` (`MCTaskRuns`) | `RetryIsAttempted` | a cancelled run is retried before its old message is acknowledged; after a crash the old message is given up and fails the row; the retry's message is then acknowledged as settled (`dispatch.rs:501`), no handler called; `dispatch.rs:453-454` promises a message of its own |
| `RunningForever` (`MCTaskRuns`) | `RunningMeansOwed` | the final record fails, the answer does not: the row stays `running` (`dispatch.rs:274`); `mod.rs:275` "A handler has it now." |
| `StartupBurnsAttempts` (`MCTaskRuns`) | `StartupCostsNoAttempt` | a Retry during startup (`dispatch.rs:531`) is counted by the queue (`516`); `523-524` "retry without spending an attempt on it" |
| `StaleNotice` (`MCTaskRuns`) | `NoticeTellsTheEnding` | the key `task-ended:{id}` (`dispatch.rs:387`) outlives a retry, so the second ending is not told |
| `RetriedTwice` (`MCTaskRuns`) | `SuccessIsNeverReopened` | two retries both read `failed`; the second resets the row after the first one's attempt has succeeded (`tasks/service.rs:338`), against the comment at `314` |
| `JoinsStarted` (`MCTaskEnqueue`) | `JoinsOnlyUnstarted`, or `JoinsOnlyOwed` in its place | the state `find_waiting` read (`service.rs:391`) is old, or was never recorded |
| `ForbidOverlaps` (`MCScheduler`) | `NoOverlapEver` | an enqueue commits and answers an error; the next tick judges the run before it (`scheduler/service.rs:388`) |
| `PatchOverwritten` (`MCScheduler`) | `NextIsOnGrid` | a firing advances by id after a patch moved the cadence (`scheduler/service.rs:451`), against `247-248` |
| `PatchInThePast` (`MCScheduler`) | `PatchMovesForward` | a shorter interval counts from the last firing (`cron.rs:64`), against `cron.rs:51` |
| `AskedTwice` (`MCScheduler`) | `AskingTwiceIsTwoRuns` | two asks at one instant share a key (`service.rs:504`), against `500` |
| `WalkCut` (`MCScheduler`) | `EveryInstantAccounted` | instants past `MAX_WALK` are neither fired nor counted (`policy.rs:115`), against `policy.rs:88-89` |
| `TickStarves` (`MCScheduler`) | `DueIsFired` | schedules that cannot fire stay the oldest and fill every tick (`ticker.rs:97`), against `ticker.rs:33-34` |
| `LateRow` (`MCEventStream`) | `NothingPassedOver` | a lower number written after a higher one was polled is never broadcast (`store.rs:83`, `pump.rs:97`) |
| `AlignSkips` (`MCEventStream`) | `NothingPassedOver` | a cold channel aligns past rows a new subscriber has not replayed (`pump.rs:91`) |
| `LaggardSkips` (`MCEventStream`) | `NothingPassedOver` | dropped frames are not recovered until a reconnect, and then not below the cursor (`hub.rs:133`), against `hub.rs:59-61` |
| `GapEndsStream` (`MCEventStream`) | `GapsAreHarmless` | a lost number at the head of a page ends the stream (`StudioEventsApiService.ts:102`), against `store.rs:40` |
| `ReplaysOverlap` (`MCEventStream`) | `NothingPassedOver` | the replay of a broken connection settles with the frames the next one is holding (`FetchEventSource.ts:246`), against `15-18` |
| `DeliversAfterDone` (`MCEventStream`) | `DoneIsTheEnd` | an old replay settles after `done` and still delivers (`FetchEventSource.ts:241`), against line 135 |
| `BatchOfThree` (`MCWorkspaceJobs`) | `NoneConfirmedIsAsked` | the first job of a batch of three ends while another request has its turn at the queue; all known jobs of the batch have ended, so its confirmation is dropped (`workspace-sync-orchestrator.ts:822-832`); the second is enqueued and starts before the last exists, which is when each job gets a confirmation of its own (`572-575`), and is sent back to the user who has just confirmed it |
| the same | `CancelledStays` in its place | a job is cancelled while its record of running is on its way; both land in the order of the calls, and the cancelled job runs (`workspace-job-queue.ts:233`, `336`) |
| `ForceDiscards` (`SourceSync`) | `DiscardsOnlyWhatWasSeen` | what is committed or edited between the last check and the forced checkout is dropped, and was not in the inspection the user confirmed (`workspace-git-service.ts:482`) |
| `AckedLost` (`JobJournal`) | `AckedSurvives` | a start passes over a cut last line and leaves it; the next append is glued to it, is acknowledged, and is garbage at the next start (`workspace-job-journal.ts:386`). After a failed sync the next record takes the same number (`476`), and the next start refuses the file. With `ServedForGood` in its place: a record read back after the process died before its sync is served, unsynced (`279-294`), and a power failure takes it back |
| `CommitOnly` (`SaveOperations`) | `CommitHoldsTheSave` | a save between the check of the staged content and `git commit --only` is committed under the earlier save (`git-publish-service.ts:176`) |
| the same | `IndexIsClean` in its place | an operation that ends between `git add` and the commit leaves the document staged (`git-publish-service.ts:162-170`, `401-403`), which blocks every later save until the user clears it |

One more has no configuration: an operation that fails in the pull before its fresh
commit is recorded as `committed` on its way to `push-pending`
(`repository-operation-queue.ts:222-229`), and no commit is there; the retry makes it.
And `RecordedIsThere` excepts a second commit by hand: HEAD is pushed as it is after the
check of what it holds, and two commits in between, the second squashing the first,
take the save away again before `pushed` is recorded.

`StreamResumes` takes one aligned replica with a
large enough buffer and orderly disconnects for the reasons above: in general the
property is false, one configuration per reason. `NoneIsPassedOver` (section 4) proves it wherever
none of the four reasons occurs, in any deployment.

A failing append of the workspace jobs' journal is worth a note of its own, since `WorkspaceJobs`
leaves it out. `runJob` records `running` before its `try`, so a failure there ends the drain,
which is scheduled again with the job at its head. A cancelled job whose record fails is
already out of its array and is not run until a restart; a job whose two final records fail stays
`running` until one. A batch that cannot be enqueued to its end loses its confirmation
(`workspace-sync-orchestrator.ts:566-570`), and the jobs that were enqueued ask for another.

## 6. Not modelled

- **studio-session**: what it knows is a copy of what a container runtime lists, and
  every step is a call to that runtime; a model would be of Docker's or
  Kubernetes' answers, which the source does not fix.
- **Cron and time zones**: `Cron::next_after` walks the minutes of a
  calendar; `SchedulePlan` has its result, a grid.
- **studio-presence, studio-notify, `followRuns.ts`**: maps under one lock, one
  provider call, and a reader that keeps nothing that decides what is delivered.
- **Progress and polling of handlers**, leases shorter than a statement,
  several tenants, several repositories and documents at once: they share nothing
  with what is modelled but a queue or a thread.
- **Idempotency keys of workspace jobs**, version 1 records of the operation journal,
  and a retry under a changed repository identity. That `enqueue` returns an operation that exists
  (`repository-operation-queue.ts:120-123`) does not happen to a save: its key holds the number of
  the attempt.
- **Appends of workspace jobs that fail**, and the catch of `queueBatch` that follows one
  (end of section 5). The conflict `confirmation-required` of a forced update
  (`workspace-sync-orchestrator.ts:364-378`) is not an outcome either: the job that gets
  there is planned with `forceConfirmed` set (`325`).
- **The two reads of a page** (`store.rs:104-112`), rows and newest number, are one step: a number
  read later is higher, and the browser asks for another page where it would have stopped.
- **Gears that are CRUD over single statements, clients of external services, the
  user interface and deployment**: no protocol of several steps; `PROJECT.json`
  gives each with its reason. They are most of the repository's lines, which is why
  the share of lines the map covers is small.

Every safety property of the runs is proved; what no theorem states is the liveness of section 4.

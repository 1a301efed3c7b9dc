# A verification project for Memax

Memax keeps a record of what a team has decided and learned. Agents and people
propose statements, people keep or reject them, a judge (a background job that
asks a model) folds, links and flags them, and compilers turn what stands into
files agents read, which a daemon keeps on people's disks. Every change is a
*receipt*, and receipts are sealed into a hash chain. This directory holds TLA+
models of the server's core (`src/packages/server/internal`), of the daemon's delivery
(`src/packages/cli`) and of two parts of the web app (`src/packages/web`), the TLC runs
that check them, and TLAPS proofs.

The repository is the reference: each definition that models code is mapped to
its lines in `PROJECT.json` (`map`), and where a comment and the code disagree the
model follows the code (see *Disagreements*).

## The system

| Component | State | Operations | Interaction | What is hard |
|---|---|---|---|---|
| Ledger record (`ledger/write.go`, `conflict.go`, `undo.go`, `forget.go`) | `v2.memories`, versions, links, sources, receipts, undo entries | remember, propose, edit, update, keep, reject, resolve a conflict, undo, forget | commands from HTTP, MCP and jobs; each a READ COMMITTED transaction under row locks | long sequences of legal commands; undoing one of several; what hangs off a memory |
| Judge (`judge/`, `ledger/judge.go`) | `v2.judge_verdicts`, River jobs | snapshot, model call, `RecordVerdict` | queued by writes, writes through the ledger | stale snapshots, repeated and skipped jobs, verdicts after the person acted |
| Lifecycle guard (`ledger/lifecycle`, migrations 028, 052) | a memory's lifecycle and flags | a trigger on every write | last word on every command | moves only Undo or the judge may make |
| Receipt sealing (`ledger/seal.go`, `sealer/`, `receiptchain/`, migration 039) | chain heads, checkpoints, sweep cursor, seal jobs | sweep, seal, finish, verify | reads every receipt, whoever writes it | transactions that commit out of order, deduplicated jobs, attempts that outlive their timeout |
| Policy (`ledger/policy`) | none | decide keep, propose or refuse | called by every command | (data) |
| Locks, retries, claims (`ledger/locks.go`, `retry.go`, `write.go`) | row locks, idempotency rows | one round of locks, retry, replay | under every command | deadlock, a set that moves while it is locked, two deliveries of one command |
| Compile coordinator (`compile/`, `ledger/compile_commands.go`, `jobs.go`) | `targets.dirty_gen`, `compiled_gen`, runs, jobs | bump, compile, record, deliver, observe, sweep | bumped by every command, calls the compile service, read by the CLI daemon | a bump while the unique job completes; freshness under constant writing |
| Forget propagation (`forget/`), index (`v2index/`) | tombstone steps, embeddings | purge each copy, retry | queued by Forget | copies made while the words go |
| Dream (`v2dream/`, `ledger/dream*.go`) | editions, actions | plan from a snapshot, publish, undo | writes through the ledger | a plan applied to a record that moved |
| Imports, stale sweep, briefs, gates, agents, machines, scope | their own rows | their own commands | same ledger | batches, time |
| Sessions and device codes (`sessions/`, `deviceauth/`) | sessions, retired tokens, codes | refresh, revoke, approve, collect | every client | rotation with a grace window |
| Quota, rate limits, meters (`quota/`, `ratelimit/`, `meter/`) | counters | check, consume | dream runs, asks | parallel runs at the limit |
| Chat stream (`chatstream/`) | none but Redis subscriptions | notify, poll | worker and handler | lost wake-ups |
| Daemon delivery (`cli/src/lib/daemon`, `ledger/targets.go`, `drift.go`, `holds.go`) | each device's files and what it remembers writing and telling; the target's baseline, observations, hold | poll, preview, judge, write, acknowledge, report; resolve, decide | polls the server, writes where people and git write | nothing is locked across steps; several devices; what a crash forgets |
| Review screen (`web/.../_places/review`, `_lib/undo.tsx`, `lib/v2`) | reducer, cached queue, undo stack, idempotency keys | keep, edit, reject, combine, retry, undo, click | commands to the ledger, refetches, the judge's wait | the person acts at every await; answers lost or late |
| Browser session (`web/src/lib/bff`, `app/api/auth`, `app/api/proxy`, `lib/auth.tsx`) | three cookies, refreshes shared in a process | forward, refresh, sign in and out, impersonate | the session store; every answer sets cookies | cookies that land in another order than they were made; several processes |
| V1 store, dreams, ingest; other screens, SDK, UI, compiler, docs | | | | presentation, pure functions, or being retired |

What makes each correct, in short: the record never contradicts itself (flags,
links, decision status, folds), a command that can be undone is undone exactly,
Forget takes everything that hangs off a memory, a proposal is checked before or
soon after a person sees it, no write breaks the lifecycle; and the log of
receipts has every committed receipt once, in an order anyone can re-read, and
only grows; files follow the record and a Forget reaches every copy; no hand edit is
written over unread, and none is left unasked about; the screen tells the person what
the server did; a browser is not signed out by its own refreshes. `PROJECT.json` lists every component with what is and is not modelled,
and the hazards, each at its line.

## The modules

- `Sealing.tla`: the receipt chain. `SealedLog.tla` is what it promises.
- `Record.tla`: the memory record of one space, with the judge.
- `Lifecycle.tla`: what the database lets any command do to a memory.
- `Compile.tla`: one target's compiles, and the Forgets that must reach the copies they
  store. `Generation.tla` is what compiling promises a target.
- `Delivery.tla`: one compiled file on several devices.
- `Review.tla`: the Review screen of one browser tab, over the server's proposals.
- `WebSession.tla`: the browser's session, the web server's handlers, the session store.
- `MCSealing.tla`, `MCRecord.tla`, `MCCompile.tla`, `MCDelivery.tla`, `MCReview.tla`,
  `MCWebSession.tla`: model values for TLC.
- `SealingProofs.tla`, `CompileProofs.tla`, `RecordProofs.tla`, `RecordUndoProofs.tla`,
  `RecordMarksProofs.tla`, `DeliveryProofs.tla`, `WebSessionProofs.tla`, `ReviewProofs.tla`:
  theorems about the module each is named for. The three of `Record` rest on one another in
  that order.

The modules also hold *mutants*, the operators `PROJECT.json` names under `mutants`: each is
a plausible bug in the code of one definition, with the run and the property that find it.
Nothing else uses them.

### Sealing

A receipt is its `seq`; `txidOf` and `spaceOf` are the columns that matter. Hashes
are collision-free, so the chain is the `position` of each receipt. Three kinds of
process interleave:

- *writing transactions* `Begin` (a first write takes the next txid), `WriteReceipt`
  (takes the next seq, in any transaction: seq and txid orders differ) and `End`;
- *seal jobs* on worker slots. `SealSpace` is split where another session can act:
  `LockHead` (`loadHead`, `FOR UPDATE`), `ReadBatch` (a new statement, so a new
  snapshot: only receipts below `pg_snapshot_xmin`), `WriteCheckpoint` (the commit,
  computed from what was read), then `LockCursor` and `FinishSeal` (the cursor
  `FOR SHARE`, the job completed in the same transaction or snoozed). An attempt may
  fail anywhere (`FailSeal`) or time out with its commit on the way (`TimeoutSeal`,
  `OrphanEnds`): then the job is retried while the old transaction still holds its
  lock, and may commit or not;
- *sweeps*. `unsealed_spaces` computes xmin in its declarations, before it waits for
  the cursor: `StartSweep`, `LockSweep` (waits for every holder), `MoveCursor` (moves
  it, queues one job per space, deduplicated against unfinished ones).

`job`, `attempts` and `discarded` are River's state of a space's job.

`SealedLog` is one variable, each space's log; a step appends a batch to one log and
never repeats a receipt. `LogSpec` says `Sealing` implements it, with the log read off
`position`.

### Record

A memory's row is `lifecycle, conflict flag, version, decision status`; its words are
a version number, and which words touch, repeat or contradict which is left open, so
every answer of the model and every wording a person may choose is a behaviour. A
command is one step, because it locks the memories it writes before it reads them and
runs again if the set moved (`locks.go`). The exception in the code is an exception in
the model: a Remember's sources are read without a lock, so `ReadSource` is a step of
its own. Refused, replayed and unchanged commands roll back and are stuttering steps.

An action builds a `Change` (rows, receipts' acts, links made and ended, jobs, the
undo entry) and `Commit` writes it, as `applyOnce` does. `Remember`, `Propose`, `Update`,
`Edit`, `EditThenKeep`, `Keep`, `Reject` are `write.go`; `JudgeNothing`, `JudgeFold`,
`JudgeLink`, `JudgeFlag` are the outcomes `recordVerdict` writes after checking, again,
that the verdict applies (`Done`, `Eligible`, `Returnable`); `ResolveForFlagged`,
`ResolveForDecision`, `ResolveOpen`, `ResolveBoth`, `HoldBoth` are `resolveConflict`;
`Undo` is `undoCommand` with `changedSince`, `checkUndoLinks` and `rejudge`; `Forget` is
`forget` with `carriedBy` and `endConflicts`.

Jobs stay in `jobs` once answered: River delivers at least once, so a job may come
again, and must find its verdict recorded. A job whose words are no longer current is
skipped and gone (`SkipJob`).

`Lifecycle` is the promise of the database's trigger (`memories_lifecycle_guard`), over
the memory's lifecycle, flag, version and receipts; `LifecycleSpec` says every step of
`Record` keeps it. It is not by construction: `Undo` writes whatever row its entry holds,
and the judge's return relies on checks made elsewhere (`returnable`, `CanRestore`).

### Compile

A command that changes the record bumps the target's generation and inserts its job in
one transaction (`markDirty`: `Keep`, `Supersede`, `requestCompile`, `Stop`, `Resume`, the
Forget). `Service.Run` is split at its calls: `TakeJob` (its snapshot), `PutArtifact`,
`RecordRun` (under the target's lock: recorded, behind, unchanged or stopped; a
Forget's words are refused there), `Settle`, and `EndJob`, where `Finish` completes
the job in the transaction that looks whether the target moved on, `Snooze` waits, and
`FailAttempt` spends an attempt. `Refuse`, `Err`, `Crash` and `LoseAnswer` are the failures; `Rescue`
and `Sweep` what picks up after them.

A Forget is `ForgetReads` (the held files, read before the locks), `ForgetCommits`
(with `StepGeneration`), then its job: `StartForget` compiles the file by the same
`Run`, `CheckFile` decides done, stopped or again, `ListArtifacts`, then `LoadArtifact` and
`SaveArtifact` for each (two calls to object storage), `FinishArtifacts`, `EndForget`. An
artifact is the set of memories its text cites.

`Generation` has three variables: on, the dirty and the compiled generation. `CatchesUp`
says `Compile` implements it with its fairness: while the target stays on, it does not stay
behind. Its safety half is proved (`ImplementsGeneration`).

### Delivery

A content of the file is a run's number, an edit, or nothing. The server's row is the
latest run, the compile on its way, the baseline (a run, or a file a person settled), the
hold and the open observation; `settledState`, `recordDelivery`, `recordObservation` and
`resolveDrift` are transactions and one step each. A device's `Sync` (`syncTarget` with the
poll), `Judge` (`judgeFile` of the preview against the disk), `Write` or `HoldWrite`, `Ack` and
`Report` are steps, because nothing is locked between them: another device acknowledges,
a person saves (`Save`) or resolves, git puts an older run back (`Git`), and the process may
`Crash`, keeping what its state file had. `Check` is the watcher's look at a changed file.
Two abstractions matter. `commitWrite`'s last look at the disk and its rename are one
step (`fs-atomic.ts` says the microseconds between them remain). And the list of past
runs a device asks for may be any earlier one (`Answers`; the code keeps it a minute).

### Review

`ui` is the reducer's state, and each `dispatch` is the operator of its action (`Seal`,
`Waiting`, `Restore`, `Unseal`, `Decided`, `Clash`, ...). A command is an async function: `runs`
holds each one's place between two awaits, so a press (`Keep`, `Reject`, `SubmitEdit`,
`Combine`, `KeepTheirs`, `Undo`) is the code up to the first await, `Serve` the server's
transaction, and `Applied`, `Busy`, `Clashed`, `Failed`, `Finish` what the code does with the
answer. `keyFor` and `settle` are the idempotency keys; `claims` what the server has
answered under each. The queue on the screen is a cache: `Refetch` reads it, `Fetched`
lands it. `Judge` and `Elsewhere` are everyone else. `hurried` is the model's own record of
two things the code allows and the properties except: a Keep left while it is under its
seal, or an edit tried again after it was closed (`seal`), and one command sent while the same
one is on its way (`twice`).

### WebSession

A request captures the cookies when it is sent (`Send`) and answers `Set-Cookie` when it
lands (`Land`), so two answers may land in the other order. A refresh is an entry of
`shared`, which the requests of one process join (`Joined`, `Opened`) and another process
races. `Refreshed` is `Store.Refresh`: rotate the current token, replay the successor of
one retired within the grace window, walking at most `MaxWalk` of them, or end the session for reuse. `Next_`
is the page's reaction to the status. Access tokens age and the signing secret may
change; `GraceEnds`, `AccessExpires` and `SecretChanges` are time.

## The runs

| Run | Instance | Checks | Distinct states |
|---|---|---|---|
| `sealing` | 2 spaces, 2 workers, 1 sweep, 2 transactions, 3 receipts, batches of 1, 2 checkpoints a job, 2 attempts, 2 failures | types; the re-read chain is the sealed chain; checkpoints tile it; no receipt is passed by; it implements `SealedLog` | 680 thousand |
| `sealing_live` | as above with 2 receipts and 1 failure | every committed receipt is sealed in the end | 40 thousand |
| `record` | 2 decisions (one standing), 1 fact, 5 commands, no Forget | types; a flag is there exactly when a conflict is; fold targets stand; one verdict a round | 305 thousand |
| `record_forget` | the same with Forget and without resolving | a contradiction is flagged; a forgotten memory is let go; what can be undone is as the command left it; a superseded decision has its cause; `Lifecycle` | 417 thousand |
| `record_jobs` | 4 commands, jobs skipped, one source being cited; words never replaced | a proposal has a verdict or a job | 186 thousand |
| `compile` | 2 memories, 1 forgotten, snooze cap 1, 2 attempts, 2 changes, 1 failure | types; who is behind has a job; the row's word; a Forget's copies and file stay clean; it implements `Generation`; every Forget ends | 908 thousand |
| `delivery` | 2 devices, edits on one, 1 edit, 2 runs, 1 resolution, 1 crash, lost answer or file from git | types; no edit is written over unread; the baseline never goes back; an edit that stays is asked about; what is due is delivered | 467 thousand |
| `review` | 2 proposals, 2 presses, 1 undo, 1 lost answer or outside decision, 1 ask of the judge | types; a mark ends with its command; a card's outcome is the server's; no clash with oneself | 2.2 million |
| `web_session` | 2 requests at once, 2 processes, 2 sessions, 3 sends, 1 lost call, 1 expiry, 1 new secret | types; reuse needs a loss; the jar's token is taken; signed out is over | 1.4 million |
| `record_undo_twice`, `compile_forgets`, `delivery_asked` | small instances | one property each, violated | |

Bounds, and why they are enough. Two transactions suffice to commit out of txid order
and three receipts to have one in each of two batches and one that arrives in between;
batches of one make every boundary (a full batch, a job that snoozes after its last)
occur; two attempts and two failures include a discarded job and its space written
again. One sweep is what River runs (a periodic job unique over its states); the model
and the proofs take any number. Symmetry is used between worker slots only, in the run
that has no liveness. In `Record`, two decisions and one fact give every shape of
conflict (a decision against another, a fact against one or both); five commands are the
longest history the properties relate (propose, flag, settle, undo one, undo the other),
and `MaxVersion` 2 leaves every edit a version to go back to. `CHECK_DEADLOCK FALSE` is
set for `Record`: a record nobody commands any more has stopped, which is what the bound
on commands makes of it. In `Sealing` the sweep never stops, so a deadlock there is an
error.

In `Compile`, two changes are one during a run and one while it ends; a snooze cap of 1
and two attempts (5 and 5 in the code) make the last snooze and the last attempt happen,
and one failure may be any of the four, at any step; a second forgotten memory is
what `compile_forgets` adds. In `Delivery` two runs are an older and a newer one, and with
one edit all the orders of edit, report, resolution and delivery on two devices occur;
edits on one device are enough for a settled edit to meet the other's acknowledgement. In
`Review` two presses and one undo are a command and what crosses it; only one of the two
proposals awaits the judge, and `Gestures` names the presses of the instance (each kind
of press on one of the cards, both cards for Keep and Undo). In `WebSession` `MaxWalk` is 4 (8
in the code): a token left further behind would end its session as reused, which
`ReuseNeedsLoss` shows does not happen unless something was lost; symmetry is between requests and
between processes, and no property there is temporal. `CHECK_DEADLOCK FALSE` is set for
these four too: an idle screen, browser or up-to-date target has stopped.

`ReuseNeedsLoss` and `JarRedeemable` except two cases the code cannot help: a rotation
whose answer never reached the browser, and an answer that landed out of order: a token it
carries was rotated meanwhile (a second press of Stop), or it is of a refresh that crossed an
impersonation's start. `MarksEnd` excepts a Keep left while it is still
under its seal, and an edit tried again after it was closed; `OutcomeHolds` excepts one
command sent twice at once and answered twice by its key, and `NoSelfClash` any command sent
twice at once (the clash one of them meets gives up the key the other landed with; it takes
more presses than the run has, and the proof found it): *Disagreements* says what
happens then.

Why the runs of `Record` are split: resolving and forgetting together square the state space,
and some properties are false of the code with one or the other. `ConflictFlagMatches` holds
without `Forget` (`RecordStuckFlag.cfg` shows it false with `Forget` and `Undo`); its half
`ContradictionsFlagged` holds of every history, so `record_forget` checks that one.
`UndoLosesNothing`, `ForgottenLetGo`, `SupersededForCause` and `LifecycleSpec` hold while
resolving is not among the commands (`record_undo_twice`, `RecordRevived.cfg`,
`RecordReturned.cfg` and `RecordTrigger.cfg` show each false with it), because a resolution
touches memories without leaving a receipt on them. `ProposalsJudged` needs that too, and
that words are never replaced, or their replacing never undone (`RecordUnjudged.cfg`). The
theorems about them (below) have the same hypotheses, and hold of histories of any length.

Fairness of `Compile` (`FairSpec`): River runs a queued job, ends and rescues it, runs the
sweep every 30 seconds and retries a Forget's job; a compile under way goes on; a Forget
that has read its files commits. Weak fairness is enough, since each stays possible until it
happens. Nobody has to change the record, and failures are never fair; they are
bounded, where River gives a Forget's job up after 20 attempts. Of `Delivery`: the queued
compile runs, a delivery begun goes on, and each device polls (strong fairness of
`Sync`, because a rescan that takes the device's serial queue disables it for a while:
`RepoDelivery.serial` is first come, first served) and looks at changed files.
Nobody has to resolve anything.

Fairness of `Sealing` (`FairSpec`, `sealing_live` only): transactions end (the database's own
timeouts), River runs queued jobs and the periodic sweep (weak fairness of each slot
and sweep), and PostgreSQL grants row locks in the order they were asked for (strong
fairness of `LockHead`, `LockCursor`, `LockSweep`: a lock may be free and taken again
between two looks). Failures are never fair, and `MaxFailures` stays below `MaxAttempts`
in that run: with as many failures as attempts River gives the job up and nothing is
promised until the space is written again, which `PassedHasJob` says.

## What is proved

`SealingProofs.tla`, for every set of spaces, workers and sweeps, any number of
transactions and receipts and every batch size (`SealingAssumption` is all they assume):

- `TypeCorrect`: `Spec => []TypeOK`. `TypeOK` is strengthened (`Typed`) with what a
  slot's last receipt is while it writes: a receipt, where `TypeOK` allows 0.
- `ChainCorrect`: `Spec => []ChainVerifies`, the nightly verification cannot fail. The
  property is not inductive: a checkpoint is written from what a worker read. `ChainInv`
  adds that a head's transaction has ended and none before it is unfinished
  (`HeadEnded`: nothing can commit into what is sealed), that whoever is past `LockHead`
  holds the lock (`Locked`), and that a reader's key, count and batch are still the
  head's and still a prefix of the receipts after it (`Readers`, `Batched`). The
  step that matters is `SealsChain`: ranks in the union of the old chain and the batch
  are the old ranks and the old length plus the ranks in the batch (`RankUnion`).
- `NonePassedBy`: `Spec => []PassedHasJob`. `SweepInv` adds that the cursor and the xmin
  a sweep read have only ended transactions behind them (`CursorEnded`, `SweepEnded`), so
  a receipt cannot turn up behind the cursor later, and that a worker that has read the
  cursor shares it and it has not moved (`Shared`).
- `CheckpointsCover`: `Spec => []CheckpointsTile`. Besides `ChainInv`, `Tiled` adds that a space
  without a checkpoint has nothing sealed (`FirstAtOne`), so its first one starts at 1.
- `ImplementsLog`: `Spec => LogSpec`. The log is read off `position`: each place up to the head
  has one receipt (`RanksFill`), `WriteCheckpoint` and `OrphanEnds` put their batch at the end
  (`SealsExtends`), and no step moves what has a place (`PlacesKept`).

`CompileProofs.tla`, for every set of memories, any number of Forgets of them, any caps,
attempts and failures (`CompileAssumption`):

- `Types`: `Spec => []TypeOK`.
- `RowTellsTheTruth`: `Spec => []CompilingIsBehind`, from `RowInv`: nothing is compiled, or
  being compiled, past the generation the record is at (`Ordered`).
- `ImplementsGeneration`: `Spec => Gen!Safe`, by the same invariant: each step is a step
  of `Generation` or leaves its three variables alone.
- `ChangesHaveJobs`: `Spec => []BehindHasJob`. `JobInv` adds `EndingOwes`: a job
  that ended and that River has yet to complete knew that the target was behind.
- `RewrittenFilesAreClean`: `Spec => []RewrittenIsClean`. A run is recorded by whoever
  locks the target first, so the invariant (`CleanInv`) says that nothing forgotten is kept
  (`Disjoint`), what a Forget's own phases are (`Phased`), that once a good run is past the
  generation a file waits for, it is clean (`Waiting`), and that a compile settles a
  generation without a new run only when the latest one cites nothing forgotten
  (`Settling`).
- `AloneReachesEveryCopy`: if at most one memory is ever forgotten, `Spec =>
  []ForgottenIsGone`. `CopiesInv` says that a compile about to record its artifact is alone in
  holding its reference (`Fresh`), that an artifact never holds more than its run cites
  (`Within`) and that one still holding the memory is on its Forget's list (`Redacting`). `SaveArtifact` is the only
  step that needs the assumption, and the one `compile_forgets` breaks without it.

`RecordProofs.tla`, for every set of memories, every choice of commands (resolving and Forget
together too) and histories of any length. `Inv` is `Typed`, `FoldInv` and `VerdictInv`; each
command is shown to be a `Good` change (the lemmas named `...Inv`), and what a good change keeps
is proved once (`Applied`):

- `TypeCorrect`: `Spec => []TypeOK`. `Recorded` adds that a row an undo entry holds would
  still fit, and that what it made and ended are links between memories there are.
- `FoldsStand`: `Spec => []FoldTargetsStand`. `FoldInv` adds that no later command that may be
  undone found the fold's target anywhere but where a target may be.
- `VerdictsRationed`: `Spec => []VerdictsOnce`. `VerdictInv` says that two verdicts on one version
  differ in their round and one of them came of a forced job, whose cause is a fold undone;
  distinct rounds then have distinct undone folds.

`RecordUndoProofs.tla`, while `"resolve" \notin Commands` (the four histories named under *The
runs* show that the hypothesis is needed, and every one of them resolves). Its invariant,
`Exact`, is what `changedSince` relies on: a command that may be undone has a receipt of a deed
on exactly the memories its Undo would write to (`Streams`, `Touched`); what nothing that counts
changed since is as the command left it (`AsLeft`); each undo entry found what the last command
that counts had left (`Chained`); and what is folded away stays so (`Hanging`). `AsLeft` alone
is not inductive: undoing a command brings back what an earlier one left, and `Chained` says
that is what the entry holds. `NextKinds` sorts the steps once for this module and the next: a
step applies a change with its receipts in order (`Ready`) whose marks mean what they say
(`Marking`), or it is a Forget (`Forgetting`), an Undo (`Reverting`), or `Quiet`:

- `UndoExactly`: `Spec => []UndoLosesNothing`.
- `ForgottenStayGone`: `Spec => []ForgottenLetGo`.
- `KeepsLifecycle`: `Spec => LifecycleSpec`, step by step (`L!Guarded`).

`RecordMarksProofs.tla`:

- `ProposalsWatched`: `Spec => []ProposalsJudged` if nothing is resolved, and besides words are never replaced or nothing
  is undone. `JobInv` says a proposal has a verdict on its words or a *proposal's* job for them,
  the only mode whose job `SkipJob` cannot drop while they are in Review.
- `SupersededStays`: `Spec => []SupersededForCause` if nothing is resolved. `ForCause` names the command that superseded
  a decision, which stands and which left the memory it kept a receipt; it also says so of what
  each undo entry holds, or the Undo of a later command could put a superseded decision back
  after its cause was undone. `KeepsStand` says what such a command kept is kept or forgotten,
  and that later entries hold it kept; `MadeFolds` that Undo ends no `supersedes` link.
- `Flagged`: `Spec => []ContradictionsFlagged`, of every history. `NoneMissed` adds to it that
  what an undo entry holds unflagged had no conflict then and has none but from later commands
  (`UnmarkedThen`), which block its Undo (`checkUndoLinks`); and that a command that may be undone
  makes no conflict, and ends those of memories it touches only (`EndsTouched`).
- `FlagsTrue`: `Spec => []ConflictFlagMatches` if nothing is forgotten. `NoneLost` says what an
  entry holds flagged has its conflict still, or that command or one since ended it
  (`FlaggedThen`), and that one left a receipt that says so (`EndsSaid`): it counts as a later
  change and blocks the Undo until it is undone itself and its conflicts are back. The ways to
  resolve are brought to one shape first: each settles all of its memory's conflicts,
  with a receipt, and takes no other flag (`Settles`), or it keeps both and holds what it knows
  of the two memories (`Holding`); `StepKinds` sorts the steps of every history as
  `NextKinds` does those without resolutions.

`DeliveryProofs.tla`, for any devices, edits, runs and bounds (`DeliveryAssumption`):

- `TypeCorrect`: `Spec => []TypeOK`, by `Typed`.
- `EditsAreKept`: `Spec => NoEditLost`. `EditInv` says that an edit is on one device (`EditsApart`)
  and drifts the target while it is open (`OpenDrifts`), that a device with an open edit neither
  judges nor writes (`NotAsked`), and that what one is about to write over was given up and does
  not wait in Review (`GivenUp`).
- `BaselineForward`: `Spec => BaselineNeverBack`.

`WebSessionProofs.tla`, for any requests, processes and sessions (`WebSessionAssumption`):

- `TypeCorrect`: `Spec => []TypeOK`. `Typed` adds that every token anywhere is one that was issued.
- `SignOutEnds`: `Spec => []SignedOutIsOver`: a refresh that races the sign-out ends nothing and
  revives nothing, because the store takes no token of a session that ended.
- `ReusedForCause` and `JarStaysGood`: `Spec /\ []Walkable => []ReuseNeedsLoss`, and the same for
  `JarRedeemable`. `Walkable` is that no token is rotated more often within one grace window than
  the store follows successors (`maxWalk`); it holds in the run, and no bound on requests or
  processes would replace it, since nothing in the code limits how many refreshes one window may
  see. `OrderInv` is, as long as nothing was lost and no answer crossed another: no session was
  ended for reuse (`Unharmed`); whatever token a request holds was current within the grace window
  (`Holding`); a refresh in flight has a request that waits for it and is alone with its token in
  its process (`Shares`); and a cookie that is behind has a request that brings its successor
  (`Chased`), which is why the browser catches up before the window ends.

`ReviewProofs.tla`, for every queue, set of gestures, number of presses, undos and failures
(`ReviewAssumption`):

- `TypeCorrect`: `Spec => []TypeOK`, by `Typed`; `Ordered` adds that a command keeps the intent it
  was pressed with, and what the other invariants need of entries being undone.
- `LeftAsItWent`: `Spec => []OutcomeHolds`. The screen and the server meet in the receipts:
  `OutcomeInv` says that what the server answered under a key is what it wrote (`ClaimsGiven`),
  that a command answered holds such an answer (`RunsGiven`), that the receipts on the undo stack
  are in the server's log (`ReceiptsKnown`), that a decision stands unless its
  undo landed (`DecisionsStand`), and that a card that left has an entry on the stack of the decision
  it left with (`LeftAsDecided`).
- `MarksComeOff`: `Spec => []MarksEnd`. `MarksInv` names, for each of the seal, the busy and the
  waiting mark, the commands that may still be about that card and will take it off (`SealHolders`
  and the others): that there is *a* command for the card is not inductive, because one that is
  past its last dispatch takes off nothing.
- `NoEditMeetsItself`: `Spec => NoSelfClash`. `KeysInv`: at most one command of an intent is on its
  way (`OnceAtATime`); what the server claimed under a key that was given up was told (`GensInOrder`,
  `ClaimsTold`); no key has two claims, and none that is still to be made has any (`OneClaim`,
  `ClaimsNow`); and an answer agrees with what is claimed under the key in use (`AnswersNow`).

Model-checked only: `EventuallySealed`, `CatchesUp`, `ForgetsEnd`, `EditAsked` and
`DueIsDelivered`, which are liveness under fairness and beyond the prover. Every invariant and
action property of a passing run is proved, under the hypotheses named above.

## Disagreements

A comment of the code says one thing and the code does another. Three runs end in a
violation on purpose, each a finding in `PROJECT.json` with the quoted line:

1. `record_undo_twice`: an edit undone after a resolution that touched the same memory
   and left it as it was; the resolution's Undo then brings the edit's words back.
2. `compile_forgets`: two Forgets rewrite one stored artifact at once, and the words one
   took out are put back by the other, for good.
3. `delivery_asked`: after an overwrite the baseline is a file and no run, so another
   device's acknowledgement of an older run replaces it, and the settled edit is asked
   about again.

The others are kept as configurations to run by hand (`tlc -config <cfg> <module>`); each
ends in a violation of the property named:

4. `RecordSettle.cfg` of `MCRecord`, `KeptSupersedes`: settling a conflict keeps a proposal without
   superseding the decision it replaces (`keepIt` never calls `supersedeOnKeep`, which
   `write.go:237` says happens on keeping).
5. `RecordStuckFlag.cfg`, `FlaggedHasConflict`: reject, forget the other side, undo the
   reject: the flag is back and has no conflict (`forget.go:604`), so the proposal can be
   neither kept nor settled.
6. `RecordCite.cfg`, `CitedStand`: a Remember cites a memory forgotten while it ran.
7. `RecordUnjudged.cfg`, `ProposalsJudged`: an edit of a proposal undone after the first
   words' job was skipped leaves words nothing will judge (`judge.go:123`).
8. `ReviewSeal.cfg` of `MCReview`, `SealHasCommand` ("the card wears the seal while the
   command is in flight", `review-state.ts:38`): click another row while a Keep's request
   is in flight; the server answers busy; `use-review.ts:386` returns without unsealing, and
   the card keeps its seal. Undoing another card, or retrying a closed edit from its toast into
   a clash, does the same.
9. `ReviewHidden.cfg`, `HiddenIsDecided` ("`gone`: decided elsewhere, or no longer there",
   `review-state.ts:71`): the Undo of an edit saved for the judge fails, or a Keep crosses
   an Undo on its way: the card is hidden as gone and is still proposed.
10. `WebCarry.cfg` of `MCWebSession`, `CookiesCarried` ("Set-Cookie values the response must
    carry", `session.ts:38`): `impersonate/route.ts:84` answers 502 without the cookies of
    the refresh it just made, and the browser keeps a retired token.
11. `WebSignIn.cfg`, `OneSession` ("so a second sign-in doesn't leave the first one alive",
    `sign-in.ts:38`): signing in while impersonating revokes nothing of the operator's own
    session.
12. `RecordRevived.cfg`, `ForgottenLetGo`: a fact is flagged against two decisions and settled
    for the first, which ends both conflicts; the second is forgotten; the resolution is
    undone, and the conflict with the forgotten decision is back (`forget.go:604` ends the
    conflicts that are active when it runs, and Undo brings the ended ones back).
13. `ReviewTwice.cfg` of `MCReview`, `OutcomeAlwaysHolds`: `keepOver` tried again from its toast
    (`use-review.ts:344` does not look at `busy`) while the same command, pressed again, is in
    flight: both are sent with one key and get its one answer ("each action has one idempotency
    key reused across its retries", `use-review.ts:102`). Undone between the two answers, the
    second lets the card leave as kept, though the server has it proposed.
14. `RecordTrigger.cfg`, `LifecycleSpec`: a history of 16 commands (`Scripted` in `MCRecord`) at
    whose end an Undo moves a kept memory to rejected without undoing the command that created
    it. `CanRestore` lets that through and the trigger of migration 052 does not: the command
    fails with a database error after its own checks passed.
15. `RecordReturned.cfg`, `SupersededForCause` ("so no person has kept, edited, settled or undone
    anything on it since", `judge.go:729`): a person settles a conflict for a decision that is
    already kept, which gets no receipt of it (`conflict.go:398`). The judge may still put that
    decision back in Review as an agent's untouched write, and the one it superseded has nothing
    in force behind it.

## What is not modelled

Time (`JudgeGrace`, undo and return windows: whatever they allow may happen at any
time), a judge job River discards, the words themselves, uploads and signatures of
checkpoints, retiring a space, the Brief (`briefCiting` only ever refuses an Undo),
bulk and scope commands, verify and fade, dates, Dream, imports, and every component
`PROJECT.json` marks `not_modelled`. In `Record` a command's locks, retries and
idempotency claim are abstracted to one atomic step; a module for them is the plan's
next, and the assumption the rest stands on.

`Compile`: the quiet window's length, the Brief, a compile reference reserved before its
artifact is put (one step), the ledger and cache steps of a Forget, stored hand edits, a
held file, the attempts of a Forget's job (retried without end). `Delivery`: failed runs,
files and blocks a person owns, switching a target off, files a run no longer has,
refused places and paths, back-off, size limits, refused reports, resuming after stop.
`Review`: asking for a reason to reject, decision gates, the overview, filters, policy
refusals, an `in-conflict` answer that names no decision. `WebSession`: presence and
interface cookies, passkeys, links, CSRF, expiry dates and grants, a call longer than
`SHARE_MS`.

Why the rest stays out: reading (recall, ask, search) is ranking over data; the UI kit,
the SDK and the documentation have no state that survives a call; most of the
repository's TypeScript is presentation, so what is mapped is the part of it that keeps state
across awaits.

## The plan

1. *(done)* `Sealing` with `SealedLog`, checked and its three invariants proved;
   `Record` with the judge, conflicts, Undo and Forget, and `Lifecycle`.
2. *(done)* `Compile` with `Generation` and the Forgets, checked and proved; `Delivery`;
   `Review`; `WebSession`.
3. `Locks`: lockSet, retries and claims as separate steps; no deadlock, no command
   applied twice, and that a command is one step of `Record` (start and commit apart,
   which also brings `created_at` into `checkUndoLinks`).
4. The index as a further copy of a Forget in `Compile`. Device codes; quota, chat stream.
5. `Record` extended: verify, fade, restore, scope, bulk, dream actions.
6. Proofs. *(done)* the seal chain with its refinement, `Compile`, `Record`, and the
   safety of `Delivery`, `WebSession` and `Review`. The modules of 3 to 5 bring their own.

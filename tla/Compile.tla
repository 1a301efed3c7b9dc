------------------------------ MODULE Compile ------------------------------
(***************************************************************************)
(* One target's compiles (internal/compile, internal/ledger/targets.go,    *)
(* jobs.go) and the Forgets that must reach every copy they stored         *)
(* (internal/forget, internal/compile/forget.go).                          *)
(*                                                                         *)
(* A command that changes the record bumps the target's dirty generation   *)
(* and inserts its compile job, unique while unfinished, in the same       *)
(* transaction. The job reads a snapshot, stores an artifact, and records  *)
(* the run under the target's lock, where it learns that the record moved  *)
(* on. A sweep re-inserts what is left behind. A Forget's own job compiles *)
(* the same target at the same time, then rewrites the stored artifacts,   *)
(* each of which it reads and writes back in two calls.                    *)
(*                                                                         *)
(* An artifact is the set of memories its text cites, {} once deleted: one *)
(* that is missing and one that cites nothing are both passed over. The    *)
(* target is read over MCP, so what is compiled is delivered. External:    *)
(* River (the job queue) and object storage, from how this code uses them. *)
(***************************************************************************)
EXTENDS Naturals, Sequences, FiniteSets

CONSTANTS
    Memories,     \* the space's memories
    Forgettable,  \* those someone forgets: each Forget is named by its memory
    Job,          \* the compile job, as a runner of compiles
    SnoozeCap,    \* snoozes after which a run is recorded behind (code: 5)
    MaxAttempts,  \* River's attempts of a compile job (code: 5)
    Faults,       \* what may fail: "error", "refuse", "crash", "lost"
    MaxChanges,   \* bound: commands that change the record
    MaxFaults     \* bound: failures

ASSUME CompileAssumption ==
    /\ Forgettable \subseteq Memories
    /\ Job \notin Memories
    /\ {SnoozeCap, MaxAttempts, MaxChanges, MaxFaults} \subseteq Nat
    /\ Faults \subseteq {"error", "refuse", "crash", "lost"}

VARIABLES
    kept, gone,                     \* the record: memories kept, memories forgotten
    sync, dirty, compiled,          \* the target's row
    latest,                         \* what its latest good run cites, and whether a
                                    \* later run failed
    runs,                           \* its recorded good runs: [ref, cites]
    store,                          \* object storage: the artifact under each reference
    job, snoozes, attempts,         \* its compile job
    owed,                           \* history: a job ended knowing it left the rest to
                                    \* the sweep
    run,                            \* each runner's compile, from its snapshot on
    op,                             \* each Forget
    left                            \* what remains of the bounds

record == <<kept, gone>>
target == <<sync, dirty, compiled>>
history == <<latest, runs>>
queue == <<job, snoozes, attempts, owed>>
vars == <<record, target, history, store, queue, run, op, left>>

Runners == Forgettable \cup {Job}
Unfinished == {"queued", "running", "lost", "ending"}

Idle == [at |-> "idle", gen |-> 0, cites |-> {}, ref |-> 0, todo |-> {}, held |-> {}]
NoForget == [at |-> "no", gen |-> 0, file |-> "none", copies |-> "none"]

Init ==
    /\ kept = Memories /\ gone = {}
    /\ sync = "compiling" /\ dirty = 1 /\ compiled = 0
    /\ latest = [cites |-> {}, failed |-> FALSE] /\ runs = {}
    /\ store = <<>>
    /\ job = "queued" /\ snoozes = 0 /\ attempts = 0 /\ owed = FALSE
    /\ run = [r \in Runners |-> Idle]
    /\ op = [m \in Forgettable |-> NoForget]
    /\ left = [changes |-> MaxChanges, faults |-> MaxFaults]

On == sync # "off"
Behind == On /\ compiled < dirty

----------------------------------------------------------------------------
\* The commands that change the record

\* River's insert of a job unique over its unfinished states.
Enqueue ==
    IF job \in Unfinished
      THEN UNCHANGED queue
      ELSE /\ job' = "queued" /\ snoozes' = 0 /\ attempts' = 0 /\ owed' = FALSE

\* Mutant: a target that is in sync stays so when it is bumped.
MarkDirtyInSync ==
    IF On
      THEN dirty' = dirty + 1 /\ Enqueue /\ UNCHANGED sync
      ELSE UNCHANGED <<sync, dirty, queue>>

\* Every command that changes what the target would say: its generation and
\* its job, in the command's transaction.
markDirty ==
    IF On
      THEN /\ dirty' = dirty + 1
           /\ sync' = IF sync = "in_sync" THEN "compiling" ELSE sync
           /\ Enqueue
      ELSE UNCHANGED <<sync, dirty, queue>>

Change ==
    /\ left.changes > 0
    /\ left' = [left EXCEPT !.changes = @ - 1]

\* The memory a Forget is about is locked from its first statement.
Unlocked(m) == m \in Forgettable => op[m].at = "no"

Keep(m) ==
    /\ Change /\ Unlocked(m)
    /\ m \notin kept \cup gone
    /\ kept' = kept \cup {m}
    /\ markDirty
    /\ UNCHANGED <<gone, compiled, history, store, run, op>>

\* A kept memory is superseded, retired or has its Keep undone.
Supersede(m) ==
    /\ Change /\ Unlocked(m)
    /\ m \in kept
    /\ kept' = kept \ {m}
    /\ markDirty
    /\ UNCHANGED <<gone, compiled, history, store, run, op>>

\* "Compile now", and every edit that leaves the same memories kept.
requestCompile ==
    /\ Change /\ On
    /\ markDirty
    /\ UNCHANGED <<record, compiled, history, store, run, op>>

Stop ==
    /\ Change /\ On
    /\ sync' = "off"
    /\ UNCHANGED <<record, dirty, compiled, history, store, queue, run, op>>

\* Turned back on: the state is written, then the target is bumped.
Resume ==
    /\ Change /\ ~On
    /\ sync' = "compiling" /\ dirty' = dirty + 1 /\ Enqueue
    /\ UNCHANGED <<record, compiled, history, store, run, op>>

\* A Forget locks its memory and reads whether the latest run holds it.
ForgetReads(m) ==
    /\ op[m].at = "no"
    /\ op' = [op EXCEPT ![m] = [@ EXCEPT !.at = "open",
                                        !.file = IF m \in latest.cites THEN "held" ELSE "none"]]
    /\ UNCHANGED <<record, target, history, store, queue, run, left>>

\* Mutant: the steps are written before the target is locked and bumped.
StepGenerationBefore == dirty

\* The generation a Forget's step waits for: the one its own bump made.
StepGeneration == dirty'

\* Then it locks the target, bumps it, writes its steps and its job, and
\* commits.
ForgetCommits(m) ==
    /\ op[m].at = "open"
    /\ kept' = kept \ {m} /\ gone' = gone \cup {m}
    /\ markDirty
    /\ op' = [op EXCEPT ![m] =
                [at |-> "pending", gen |-> StepGeneration, copies |-> "pending",
                 file |-> IF @.file = "none" THEN "none" ELSE IF On THEN "pending" ELSE "stopped"]]
    /\ UNCHANGED <<compiled, history, store, run, left>>

----------------------------------------------------------------------------
\* A compile: snapshot, artifact, record

\* Where a compile goes when it ends, and when it fails: the job's attempt
\* is over; a Forget's looks at the target again, or leaves the file for
\* its next attempt.
Done(r) == [Idle EXCEPT !.at = IF r = Job THEN "idle" ELSE "check"]
Failed(r) == [Idle EXCEPT !.at = IF r = Job THEN "idle" ELSE "list"]

Unchanged == runs # {} /\ latest.cites = kept

\* One snapshot gives the generation and what would be written. Nothing to
\* compile, or the bytes of the latest run again: settle. (The same
\* memories may still make other bytes.)
Snapshot(r, at) ==
    /\ \/ at = "settle" /\ (~Behind \/ Unchanged)
       \/ at = "put" /\ Behind
    /\ run' = [run EXCEPT ![r] = [Idle EXCEPT !.at = at, !.gen = dirty, !.cites = kept]]

TakeJob ==
    /\ job = "queued" /\ run[Job].at = "idle"
    /\ job' = "running"
    /\ \E at \in {"settle", "put"} : Snapshot(Job, at)
    /\ UNCHANGED <<record, target, history, store, snoozes, attempts, owed, op, left>>

\* Mutant: the reference is reserved and the files are stored after the run.
PutLater(r) ==
    /\ run[r].at = "put"
    /\ run' = [run EXCEPT ![r] = [@ EXCEPT !.at = "record", !.ref = Len(store) + 1]]
    /\ UNCHANGED <<record, target, history, store, queue, op, left>>

\* The reference is reserved and the compiled files are stored under it.
PutArtifact(r) ==
    /\ run[r].at = "put"
    /\ store' = Append(store, run[r].cites)
    /\ run' = [run EXCEPT ![r] = [@ EXCEPT !.at = "record", !.ref = Len(store')]]
    /\ UNCHANGED <<record, target, history, queue, op, left>>

\* The compiler refuses the input: a failed run, with nothing stored.
Refuse(r) ==
    /\ "refuse" \in Faults /\ left.faults > 0
    /\ run[r].at = "put"
    /\ left' = [left EXCEPT !.faults = @ - 1]
    /\ run' = [run EXCEPT ![r] = [@ EXCEPT !.at = "record", !.cites = {}]]
    /\ UNCHANGED <<record, target, history, store, queue, op>>

Dropped(r) == IF run[r].ref = 0 THEN store ELSE [store EXCEPT ![run[r].ref] = {}]

\* Mutant: a generation someone else recorded meanwhile is recorded again.
WantedAgain(r) == On

\* The target is on and no run is recorded for this generation yet.
Wanted(r) == On /\ compiled < run[r].gen

\* The target moved past the snapshot, or the run cites what was forgotten
\* since: compile again.
AllowBehind(r) == r = Job /\ snoozes >= SnoozeCap

\* Mutant: a run that may be recorded behind is not checked for words
\* forgotten since.
MovedOnAtCap(r) ==
    \/ dirty > run[r].gen /\ ~AllowBehind(r)
    \/ ~AllowBehind(r) /\ run[r].cites \cap gone # {}

MovedOn(r) ==
    \/ dirty > run[r].gen /\ ~AllowBehind(r)
    \/ run[r].cites \cap gone # {}

Snooze(r) ==
    IF r = Job
      THEN /\ job' = "queued"
           /\ snoozes' = IF snoozes < SnoozeCap THEN snoozes + 1 ELSE snoozes
           /\ UNCHANGED <<attempts, owed>>
      ELSE UNCHANGED queue

\* Mutant: the job is completed after the transaction, by River.
FinishAfter(r) ==
    IF r = Job
      THEN job' = "ending" /\ owed' = (dirty > run[r].gen) /\ UNCHANGED <<snoozes, attempts>>
      ELSE UNCHANGED queue

\* The job is completed in the transaction that records or settles its
\* generation, which may be behind only for a job past its snoozes.
Finish(r) ==
    IF r = Job
      THEN /\ job' = "none" /\ owed' = (dirty > run[r].gen)
           /\ snoozes' = 0 /\ attempts' = 0
      ELSE UNCHANGED queue

settledState(gen) == IF ~On THEN sync ELSE IF gen < dirty THEN "compiling" ELSE "in_sync"

Records(r) ==
    /\ compiled' = run[r].gen
    /\ sync' = settledState(run[r].gen)
    /\ IF run[r].ref = 0
         THEN latest' = [latest EXCEPT !.failed = TRUE] /\ UNCHANGED runs
         ELSE /\ latest' = [cites |-> run[r].cites, failed |-> FALSE]
              /\ runs' = runs \cup {[ref |-> run[r].ref, cites |-> run[r].cites]}
    /\ Finish(r)
    /\ UNCHANGED dirty

\* Stopped, or recorded by someone else, meanwhile: the artifact goes and
\* the target settles.
RecordNothing(r) ==
    /\ run[r].at = "record" /\ ~Wanted(r)
    /\ store' = Dropped(r)
    /\ run' = [run EXCEPT ![r] = [@ EXCEPT !.at = "settle", !.ref = 0]]
    /\ UNCHANGED <<record, target, history, queue, op, left>>

RecordBehind(r) ==
    /\ run[r].at = "record" /\ Wanted(r) /\ MovedOn(r)
    /\ store' = Dropped(r)
    /\ Snooze(r)
    /\ run' = [run EXCEPT ![r] = Failed(r)]
    /\ UNCHANGED <<record, target, history, op, left>>

RecordRun(r) ==
    /\ run[r].at = "record" /\ Wanted(r) /\ ~MovedOn(r)
    /\ Records(r)
    /\ run' = [run EXCEPT ![r] = Done(r)]
    /\ UNCHANGED <<record, store, op, left>>

\* The commit's answer is lost: the run is recorded, its artifact dropped.
LoseAnswer(r) ==
    /\ "lost" \in Faults /\ left.faults > 0
    /\ run[r].at = "record" /\ Wanted(r) /\ ~MovedOn(r)
    /\ left' = [left EXCEPT !.faults = @ - 1]
    /\ Records(r)
    /\ store' = Dropped(r)
    /\ run' = [run EXCEPT ![r] = Failed(r)]
    /\ UNCHANGED <<record, op>>

\* Nothing new to record for the generation that was read.
Settle(r) ==
    /\ run[r].at = "settle" /\ dirty <= run[r].gen
    /\ IF Wanted(r)
         THEN compiled' = run[r].gen /\ sync' = settledState(run[r].gen)
         ELSE UNCHANGED <<compiled, sync>>
    /\ Finish(r)
    /\ run' = [run EXCEPT ![r] = Done(r)]
    /\ UNCHANGED <<record, dirty, history, store, op, left>>

\* It moved on. Past its snoozes the job ends (River completes it later) and
\* the sweep comes back for the target.
SettleBehind(r) ==
    /\ run[r].at = "settle" /\ dirty > run[r].gen
    /\ IF AllowBehind(r)
         THEN job' = "ending" /\ owed' = TRUE /\ UNCHANGED <<snoozes, attempts>>
         ELSE Snooze(r)
    /\ run' = [run EXCEPT ![r] = Failed(r)]
    /\ UNCHANGED <<record, target, history, store, op, left>>

----------------------------------------------------------------------------
\* The queue, the sweep and what fails

EndJob ==
    /\ job = "ending"
    /\ job' = "none" /\ snoozes' = 0 /\ attempts' = 0
    /\ UNCHANGED <<record, target, history, store, owed, run, op, left>>

\* An attempt failed: River runs the job again until its attempts are spent.
FailAttempt ==
    IF attempts + 1 < MaxAttempts
      THEN job' = "queued" /\ attempts' = attempts + 1 /\ UNCHANGED <<snoozes, owed>>
      ELSE job' = "none" /\ owed' = TRUE /\ snoozes' = 0 /\ attempts' = 0

\* The compiler, the store or the database does not answer.
Err(r) ==
    /\ "error" \in Faults /\ left.faults > 0
    /\ run[r].at \in {"put", "record", "settle"}
    /\ left' = [left EXCEPT !.faults = @ - 1]
    /\ store' = Dropped(r)
    /\ IF r = Job THEN FailAttempt ELSE UNCHANGED queue
    /\ run' = [run EXCEPT ![r] = Failed(r)]
    /\ UNCHANGED <<record, target, history, op>>

\* The worker stops between two steps; its artifact stays.
Crash(r) ==
    /\ "crash" \in Faults /\ left.faults > 0
    /\ run[r].at # "idle"
    /\ left' = [left EXCEPT !.faults = @ - 1]
    /\ IF r = Job THEN job' = "lost" /\ UNCHANGED <<snoozes, attempts, owed>> ELSE UNCHANGED queue
    /\ run' = [run EXCEPT ![r] = Idle]
    /\ UNCHANGED <<record, target, history, store, op>>

\* River finds the job of a worker that stopped.
Rescue ==
    /\ job = "lost"
    /\ FailAttempt
    /\ UNCHANGED <<record, target, history, store, run, op, left>>

Sweep ==
    /\ Behind /\ job \notin Unfinished
    /\ Enqueue
    /\ UNCHANGED <<record, target, history, store, run, op, left>>

----------------------------------------------------------------------------
\* A Forget's job: the file, then the artifacts

\* Mutant: a file that was stopped is waited for.
StartWhateverTheState(m) ==
    /\ op[m].at = "pending" /\ run[m].at = "idle"
    /\ IF op[m].file # "pending"
         THEN run' = [run EXCEPT ![m].at = "list"]
         ELSE IF compiled < op[m].gen
           THEN \E at \in {"settle", "put"} : Snapshot(m, at)
           ELSE run' = [run EXCEPT ![m].at = "check"]
    /\ UNCHANGED <<record, target, history, store, queue, op, left>>

\* An attempt that has the file to do compiles it, unless it was stopped or
\* something compiled it past the Forget already.
StartForget(m) ==
    /\ op[m].at = "pending" /\ run[m].at = "idle"
    /\ IF op[m].file # "pending"
         THEN run' = [run EXCEPT ![m].at = "list"] /\ UNCHANGED op
         ELSE IF ~On
           THEN /\ op' = [op EXCEPT ![m].file = "stopped"]
                /\ run' = [run EXCEPT ![m].at = "list"]
           ELSE IF compiled < op[m].gen
             THEN (\E at \in {"settle", "put"} : Snapshot(m, at)) /\ UNCHANGED op
             ELSE run' = [run EXCEPT ![m].at = "check"] /\ UNCHANGED op
    /\ UNCHANGED <<record, target, history, store, queue, left>>

\* The file's step is answered once a run is past the Forget.
CheckFile(m) ==
    /\ run[m].at = "check"
    /\ op' = [op EXCEPT ![m].file = IF compiled < op[m].gen THEN @
                                    ELSE IF latest.failed THEN "failed" ELSE "done"]
    /\ run' = [run EXCEPT ![m].at = "list"]
    /\ UNCHANGED <<record, target, history, store, queue, left>>

\* The artifacts to rewrite: those of every run that held the memory.
ListArtifacts(m) ==
    /\ run[m].at = "list"
    /\ run' = IF op[m].copies = "pending"
                THEN [run EXCEPT ![m] = [@ EXCEPT
                        !.at = "redact", !.todo = {c.ref : c \in {d \in runs : m \in d.cites}}]]
                ELSE [run EXCEPT ![m].at = "end"]
    /\ UNCHANGED <<record, target, history, store, queue, op, left>>

\* One is read; a missing one, or one without the memory, is left as it is.
LoadArtifact(m) ==
    /\ run[m].at = "redact" /\ run[m].todo # {}
    /\ \E k \in run[m].todo :
          /\ \A other \in run[m].todo : k <= other
          /\ run' = IF m \in store[k]
                      THEN [run EXCEPT ![m] = [@ EXCEPT !.at = "save", !.ref = k, !.held = store[k]]]
                      ELSE [run EXCEPT ![m].todo = @ \ {k}]
    /\ UNCHANGED <<record, target, history, store, queue, op, left>>

Stripped(m) == run[m].held \ {m}

\* It is written back, whatever happened to it since it was read.
SaveArtifact(m) ==
    /\ run[m].at = "save"
    /\ store' = [store EXCEPT ![run[m].ref] = Stripped(m)]
    /\ run' = [run EXCEPT ![m] = [Idle EXCEPT !.at = "redact", !.todo = run[m].todo \ {run[m].ref}]]
    /\ UNCHANGED <<record, target, history, queue, op, left>>

FinishArtifacts(m) ==
    /\ run[m].at = "redact" /\ run[m].todo = {}
    /\ op' = [op EXCEPT ![m].copies = "done"]
    /\ run' = [run EXCEPT ![m].at = "end"]
    /\ UNCHANGED <<record, target, history, store, queue, left>>

\* Every step has an answer, or the job runs again.
EndForget(m) ==
    /\ run[m].at = "end"
    /\ op' = [op EXCEPT ![m].at = IF op[m].file = "pending" THEN @ ELSE "done"]
    /\ run' = [run EXCEPT ![m] = Idle]
    /\ UNCHANGED <<record, target, history, store, queue, left>>

----------------------------------------------------------------------------
Compiling(r) ==
    \/ PutArtifact(r) \/ RecordNothing(r) \/ RecordBehind(r) \/ RecordRun(r)
    \/ Settle(r) \/ SettleBehind(r)

Propagating(m) ==
    \/ StartForget(m) \/ CheckFile(m) \/ ListArtifacts(m) \/ LoadArtifact(m)
    \/ SaveArtifact(m) \/ FinishArtifacts(m) \/ EndForget(m)

Next ==
    \/ \E m \in Memories : Keep(m) \/ Supersede(m)
    \/ requestCompile \/ Stop \/ Resume
    \/ \E m \in Forgettable : ForgetReads(m) \/ ForgetCommits(m)
    \/ TakeJob \/ EndJob \/ Rescue \/ Sweep
    \/ \E r \in Runners : Compiling(r) \/ Refuse(r) \/ LoseAnswer(r) \/ Err(r) \/ Crash(r)
    \/ \E m \in Forgettable : Propagating(m)

Spec == Init /\ [][Next]_vars

\* River runs a queued job, rescues a lost one, retries a Forget's and runs
\* the sweep every 30 s; a transaction ends. Nobody has to change the record.
Fairness ==
    /\ WF_vars(TakeJob) /\ WF_vars(EndJob) /\ WF_vars(Rescue) /\ WF_vars(Sweep)
    /\ \A r \in Runners : WF_vars(Compiling(r))
    /\ \A m \in Forgettable : WF_vars(ForgetCommits(m)) /\ WF_vars(Propagating(m))

FairSpec == Spec /\ Fairness

----------------------------------------------------------------------------
\* What is promised

Phases == {"idle", "put", "record", "settle", "check", "list", "redact", "save", "end"}

Refs == 1 .. Len(store)
RunType == [at : Phases, gen : Nat, cites : SUBSET Memories, ref : Refs \cup {0},
            todo : SUBSET Refs, held : SUBSET Memories]
OpType == [at : {"no", "open", "pending", "done"}, gen : Nat,
           file : {"none", "held", "pending", "stopped", "failed", "done"},
           copies : {"none", "pending", "done"}]

\* Every variable has its type; an artifact's reference is one the store
\* gave out.
TypeOK ==
    /\ kept \subseteq Memories /\ gone \subseteq Forgettable
    /\ sync \in {"off", "compiling", "in_sync"}
    /\ dirty \in Nat /\ compiled \in Nat
    /\ latest \in [cites : SUBSET Memories, failed : BOOLEAN]
    /\ store \in Seq(SUBSET Memories)
    /\ runs \subseteq [ref : Refs, cites : SUBSET Memories]
    /\ job \in {"none"} \cup Unfinished
    /\ snoozes \in 0 .. SnoozeCap /\ attempts \in Nat
    /\ owed \in BOOLEAN
    /\ run \in [Runners -> RunType]
    /\ op \in [Forgettable -> OpType]
    /\ left \in [changes : 0 .. MaxChanges, faults : 0 .. MaxFaults]

\* A target that is behind has an unfinished job that will read its latest
\* generation, unless the last one ended knowing it was behind (past its
\* snoozes, or out of attempts): a change that lands while a job ends is
\* never left to the sweep (worker.go, Finisher).
BehindHasJob == Behind => job \in {"queued", "running", "lost"} \/ owed

\* The row says "compiling" exactly while its generation is not compiled.
CompilingIsBehind == (sync = "compiling") <=> Behind

\* Once a Forget has rewritten the stored artifacts, no run's artifact holds
\* the memory, and no later run brings it back.
ForgottenIsGone ==
    \A m \in Forgettable : op[m].copies = "done" =>
        \A c \in runs : m \notin store[c.ref]

\* A file a Forget says was rewritten has a latest run without the memory.
RewrittenIsClean == \A m \in Forgettable : op[m].file = "done" => m \notin latest.cites

\* The generations, as whoever waits for a compile sees them.
Gen == INSTANCE Generation WITH on <- On
CatchesUp == Gen!Spec

\* Every Forget is carried to the end.
ForgetsEnd == \A m \in Forgettable : op[m].at = "open" ~> op[m].at = "done"
=============================================================================

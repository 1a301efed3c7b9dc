--------------------------- MODULE CompileProofs ---------------------------
(***************************************************************************)
(* What holds of Compile for every space, every bound and every fault: its *)
(* types, that no change is left without a job, that the row tells the     *)
(* truth, that compiling keeps the promise of Generation, that a rewritten *)
(* file is clean, and that one Forget reaches every copy.                  *)
(***************************************************************************)
EXTENDS Compile, TLAPS

----------------------------------------------------------------------------
\* Types

\* What the job's commands do to its variables.
QueueType ==
    /\ job \in {"none"} \cup Unfinished
    /\ snoozes \in 0 .. SnoozeCap /\ attempts \in Nat
    /\ owed \in BOOLEAN

LEMMA Bounds == {SnoozeCap, MaxAttempts, MaxChanges, MaxFaults} \subseteq Nat
BY CompileAssumption

LEMMA QueueKept ==
    ASSUME QueueType, UNCHANGED queue
    PROVE  QueueType'
BY DEF QueueType, queue, Unfinished

LEMMA EnqueueType ==
    ASSUME QueueType, Enqueue
    PROVE  QueueType'
<1>1. CASE job \in Unfinished
  BY <1>1, QueueKept DEF Enqueue
<1>2. CASE job \notin Unfinished
  <2>1. job' = "queued" /\ snoozes' = 0 /\ attempts' = 0 /\ owed' = FALSE
    BY <1>2 DEF Enqueue
  <2>2. owed' \in BOOLEAN
    BY <2>1, Zenon
  <2> QED
    BY <2>1, <2>2, Bounds DEF QueueType, Unfinished
<1> QED
  BY <1>1, <1>2

LEMMA MarkDirtyType ==
    ASSUME TypeOK, markDirty
    PROVE  QueueType' /\ sync' \in {"off", "compiling", "in_sync"} /\ dirty' \in Nat
<1>1. QueueType
  BY DEF TypeOK, QueueType
<1>2. CASE On
  <2>1. Enqueue /\ dirty' = dirty + 1 /\ sync' = IF sync = "in_sync" THEN "compiling" ELSE sync
    BY <1>2 DEF markDirty
  <2>2. QueueType'
    BY <1>1, <2>1, EnqueueType
  <2> QED
    BY <2>1, <2>2 DEF TypeOK
<1>3. CASE ~On
  <2>1. UNCHANGED <<sync, dirty, queue>>
    BY <1>3 DEF markDirty
  <2> QED
    BY <1>1, <2>1, QueueKept DEF TypeOK
<1> QED
  BY <1>2, <1>3

LEMMA FailAttemptType ==
    ASSUME QueueType, FailAttempt
    PROVE  QueueType'
<1>1. CASE attempts + 1 < MaxAttempts
  <2>1. job' = "queued" /\ attempts' = attempts + 1 /\ snoozes' = snoozes /\ owed' = owed
    BY <1>1 DEF FailAttempt
  <2> QED
    BY <2>1 DEF QueueType, Unfinished
<1>2. CASE ~(attempts + 1 < MaxAttempts)
  <2>1. job' = "none" /\ owed' = TRUE /\ snoozes' = 0 /\ attempts' = 0
    BY <1>2 DEF FailAttempt
  <2> QED
    BY <2>1, Bounds DEF QueueType
<1> QED
  BY <1>1, <1>2

LEMMA SnoozeType ==
    ASSUME QueueType, NEW r, Snooze(r)
    PROVE  QueueType'
<1>1. CASE r = Job
  <2>1. job' = "queued" /\ attempts' = attempts /\ owed' = owed
    BY <1>1 DEF Snooze
  <2>2. snoozes' \in 0 .. SnoozeCap
    BY <1>1, Bounds DEF Snooze, QueueType
  <2> QED
    BY <2>1, <2>2 DEF QueueType, Unfinished
<1>2. CASE r # Job
  BY <1>2, QueueKept DEF Snooze
<1> QED
  BY <1>1, <1>2

LEMMA FinishType ==
    ASSUME QueueType, NEW r, Finish(r)
    PROVE  QueueType'
<1>1. CASE r = Job
  <2>1. job' = "none" /\ snoozes' = 0 /\ attempts' = 0 /\ owed' = (dirty > run[r].gen)
    BY <1>1 DEF Finish
  <2>2. owed' \in BOOLEAN
    <3>1. CASE dirty > run[r].gen
      BY <2>1, <3>1
    <3>2. CASE ~(dirty > run[r].gen)
      BY <2>1, <3>2
    <3> QED
      BY <3>1, <3>2
  <2> QED
    BY <2>1, <2>2, Bounds DEF QueueType
<1>2. CASE r # Job
  BY <1>2, QueueKept DEF Finish
<1> QED
  BY <1>1, <1>2

\* While the store keeps its references, so does every compile.
LEMMA SameRefs ==
    ASSUME TypeOK, Len(store') = Len(store)
    PROVE  Refs' = Refs /\ RunType' = RunType
BY DEF Refs, RunType

LEMMA DroppedType ==
    ASSUME TypeOK, NEW r \in Runners, store' = Dropped(r)
    PROVE  store' \in Seq(SUBSET Memories) /\ Len(store') = Len(store)
<1>1. run[r].ref \in Refs \cup {0}
  BY DEF TypeOK, RunType
<1> QED
  BY <1>1 DEF TypeOK, Dropped, Refs

LEMMA EndsType ==
    ASSUME NEW r \in Runners
    PROVE  Idle \in RunType /\ Done(r) \in RunType /\ Failed(r) \in RunType
BY DEF Idle, Done, Failed, RunType, Phases

LEMMA SnapshotType ==
    ASSUME TypeOK, NEW r \in Runners, NEW at \in {"settle", "put"}, Snapshot(r, at)
    PROVE  run' \in [Runners -> RunType]
<1>1. [Idle EXCEPT !.at = at, !.gen = dirty, !.cites = kept] \in RunType
  BY DEF Idle, RunType, Phases, TypeOK
<1> QED
  BY <1>1 DEF Snapshot, TypeOK

\* A step that leaves the artifacts alone, or their number, keeps the types
\* of what refers to them.
LEMMA RefsKept ==
    ASSUME TypeOK, UNCHANGED store
    PROVE  Refs' = Refs /\ RunType' = RunType /\ store' \in Seq(SUBSET Memories)
BY SameRefs DEF TypeOK

LEMMA QueueTyped ==
    ASSUME TypeOK
    PROVE  QueueType
BY DEF TypeOK, QueueType

\* A command that changes the record and bumps the target.
LEMMA CommandType ==
    ASSUME TypeOK,
           kept' \subseteq Memories, gone' \subseteq Forgettable,
           QueueType', sync' \in {"off", "compiling", "in_sync"}, dirty' \in Nat,
           UNCHANGED <<compiled, history, store, run>>,
           op' \in [Forgettable -> OpType],
           left' \in [changes : 0 .. MaxChanges, faults : 0 .. MaxFaults]
    PROVE  TypeOK'
<1>1. Refs' = Refs /\ RunType' = RunType /\ store' \in Seq(SUBSET Memories)
  BY RefsKept
<1>2. latest' = latest /\ runs' = runs /\ compiled' = compiled /\ run' = run
  BY DEF history
<1> QED
  BY <1>1, <1>2 DEF TypeOK, QueueType, OpType

LEMMA ChangeType ==
    ASSUME TypeOK, Change
    PROVE  left' \in [changes : 0 .. MaxChanges, faults : 0 .. MaxFaults]
BY Bounds DEF TypeOK, Change

LEMMA RecordCommandsType ==
    ASSUME TypeOK,
           (\E m \in Memories : Keep(m) \/ Supersede(m)) \/ requestCompile \/ Stop \/ Resume
    PROVE  TypeOK'
<1> USE QueueTyped, ChangeType, CommandType
<1>1. ASSUME NEW m \in Memories, Keep(m)
      PROVE  TypeOK'
  BY <1>1, MarkDirtyType DEF Keep, TypeOK
<1>2. ASSUME NEW m \in Memories, Supersede(m)
      PROVE  TypeOK'
  BY <1>2, MarkDirtyType DEF Supersede, TypeOK
<1>3. CASE requestCompile
  BY <1>3, MarkDirtyType DEF requestCompile, record, TypeOK
<1>4. CASE Stop
  BY <1>4, QueueKept DEF Stop, record, TypeOK
<1>5. CASE Resume
  BY <1>5, EnqueueType DEF Resume, record, TypeOK
<1> QED
  BY <1>1, <1>2, <1>3, <1>4, <1>5

LEMMA ForgetCommandsType ==
    ASSUME TypeOK, NEW m \in Forgettable, ForgetReads(m) \/ ForgetCommits(m)
    PROVE  TypeOK'
<1>1. CASE ForgetReads(m)
  <2>1. op' \in [Forgettable -> OpType]
    <3> DEFINE file == IF m \in latest.cites THEN "held" ELSE "none"
    <3>1. file \in {"held", "none"}
      OBVIOUS
    <3>2. op' = [op EXCEPT ![m] = [@ EXCEPT !.at = "open", !.file = file]]
      BY <1>1 DEF ForgetReads
    <3> HIDE DEF file
    <3> QED
      BY <3>1, <3>2 DEF TypeOK, OpType
  <2> QED
    BY <1>1, <2>1, QueueTyped, QueueKept, CommandType DEF ForgetReads, record, target, TypeOK
<1>2. CASE ForgetCommits(m)
  <2>1. dirty' \in Nat
    BY <1>2, MarkDirtyType DEF ForgetCommits
  <2>2. op' \in [Forgettable -> OpType]
    BY <1>2, <2>1 DEF ForgetCommits, StepGeneration, TypeOK, OpType
  <2> QED
    BY <1>2, <2>2, MarkDirtyType, CommandType DEF ForgetCommits, TypeOK
<1> QED
  BY <1>1, <1>2

\* A step of a compile, of the queue or of a Forget's job.
LEMMA StepType ==
    ASSUME TypeOK, UNCHANGED record,
           QueueType', sync' \in {"off", "compiling", "in_sync"}, dirty' \in Nat, compiled' \in Nat,
           latest' \in [cites : SUBSET Memories, failed : BOOLEAN],
           store' \in Seq(SUBSET Memories),
           runs' \subseteq [ref : Refs', cites : SUBSET Memories],
           run' \in [Runners -> RunType'],
           op' \in [Forgettable -> OpType],
           left' \in [changes : 0 .. MaxChanges, faults : 0 .. MaxFaults]
    PROVE  TypeOK'
BY DEF TypeOK, QueueType, OpType, record

LEMMA RunSet ==
    ASSUME TypeOK, Len(store') = Len(store),
           NEW r \in Runners, NEW v \in RunType, run' = [run EXCEPT ![r] = v]
    PROVE  run' \in [Runners -> RunType']
BY SameRefs DEF TypeOK

LEMMA RunnersAre == Job \in Runners /\ Forgettable \subseteq Runners
BY DEF Runners

\* The parts of the type a compile's step may leave alone.
LEMMA Kept ==
    ASSUME TypeOK
    PROVE  /\ UNCHANGED target => sync' \in {"off", "compiling", "in_sync"} /\ dirty' \in Nat /\ compiled' \in Nat
           /\ UNCHANGED history => latest' \in [cites : SUBSET Memories, failed : BOOLEAN]
           /\ UNCHANGED history /\ Len(store') = Len(store)
                => runs' \subseteq [ref : Refs', cites : SUBSET Memories]
           /\ UNCHANGED store => store' \in Seq(SUBSET Memories) /\ Len(store') = Len(store)
           /\ UNCHANGED run /\ Len(store') = Len(store) => run' \in [Runners -> RunType']
           /\ UNCHANGED op => op' \in [Forgettable -> OpType]
           /\ UNCHANGED left => left' \in [changes : 0 .. MaxChanges, faults : 0 .. MaxFaults]
           /\ UNCHANGED queue => QueueType'
<1>1. Len(store') = Len(store) => Refs' = Refs /\ RunType' = RunType
  BY SameRefs
<1>2. UNCHANGED queue => QueueType'
  BY QueueTyped, QueueKept
<1> QED
  BY <1>1, <1>2 DEF TypeOK, target, history

LEMMA FaultType ==
    ASSUME TypeOK, left.faults > 0, left' = [left EXCEPT !.faults = @ - 1]
    PROVE  left' \in [changes : 0 .. MaxChanges, faults : 0 .. MaxFaults]
BY Bounds DEF TypeOK

\* What recording a run writes.
LEMMA RecordsType ==
    ASSUME TypeOK, NEW r \in Runners, Records(r), Len(store') = Len(store)
    PROVE  /\ QueueType'
           /\ sync' \in {"off", "compiling", "in_sync"} /\ dirty' \in Nat /\ compiled' \in Nat
           /\ latest' \in [cites : SUBSET Memories, failed : BOOLEAN]
           /\ runs' \subseteq [ref : Refs', cites : SUBSET Memories]
<1>1. run[r].gen \in Nat /\ run[r].cites \subseteq Memories /\ run[r].ref \in Refs \cup {0}
  BY DEF TypeOK, RunType
<1>2. QueueType'
  BY QueueTyped, FinishType DEF Records
<1>3. Refs' = Refs
  BY SameRefs
<1>4. sync' \in {"off", "compiling", "in_sync"} /\ dirty' \in Nat /\ compiled' \in Nat
  BY <1>1 DEF Records, settledState, TypeOK
<1>5. CASE run[r].ref = 0
  BY <1>2, <1>3, <1>4, <1>5 DEF Records, TypeOK
<1>6. CASE run[r].ref # 0
  <2>1. /\ latest' = [cites |-> run[r].cites, failed |-> FALSE]
        /\ runs' = runs \cup {[ref |-> run[r].ref, cites |-> run[r].cites]}
    BY <1>6 DEF Records
  <2>2. latest' \in [cites : SUBSET Memories, failed : BOOLEAN]
    BY <1>1, <2>1
  <2>3. runs' \subseteq [ref : Refs, cites : SUBSET Memories]
    BY <1>1, <1>6, <2>1 DEF TypeOK
  <2> QED
    BY <1>2, <1>3, <1>4, <2>2, <2>3
<1> QED
  BY <1>5, <1>6

LEMMA CompileStepsType ==
    ASSUME TypeOK, NEW r \in Runners, Compiling(r) \/ Refuse(r) \/ LoseAnswer(r) \/ Err(r) \/ Crash(r)
    PROVE  TypeOK'
<1> USE Kept, StepType, RunSet, FaultType
<1>0. /\ run[r] \in RunType
      /\ Idle \in RunType /\ Done(r) \in RunType /\ Failed(r) \in RunType
  BY EndsType DEF TypeOK
<1>1. CASE PutArtifact(r)
  <2>1. run[r].cites \subseteq Memories
    BY <1>0 DEF RunType
  <2>2. store' = Append(store, run[r].cites)
    BY <1>1 DEF PutArtifact
  <2>3. store' \in Seq(SUBSET Memories) /\ Len(store') = Len(store) + 1
    BY <2>1, <2>2 DEF TypeOK
  <2>4. Refs \subseteq Refs' /\ Len(store') \in Refs'
    BY <2>3 DEF Refs, TypeOK
  <2>5. run' \in [Runners -> RunType']
    <3>1. run \in [Runners -> RunType']
      BY <2>4 DEF RunType, TypeOK
    <3>2. [run[r] EXCEPT !.at = "record", !.ref = Len(store')] \in RunType'
      BY <2>4, <3>1 DEF RunType, Phases
    <3> QED
      BY <1>1, <3>1, <3>2 DEF PutArtifact
  <2>6. runs' \subseteq [ref : Refs', cites : SUBSET Memories]
    BY <1>1, <2>4 DEF PutArtifact, history, TypeOK
  <2> QED
    BY <1>1, <2>3, <2>5, <2>6 DEF PutArtifact
<1>2. CASE RecordNothing(r)
  <2>1. [run[r] EXCEPT !.at = "settle", !.ref = 0] \in RunType
    BY <1>0 DEF RunType, Phases
  <2> QED
    BY <1>2, <2>1, DroppedType DEF RecordNothing
<1>3. CASE RecordBehind(r)
  BY <1>0, <1>3, DroppedType, SnoozeType, QueueTyped DEF RecordBehind
<1>4. CASE RecordRun(r)
  BY <1>0, <1>4, RecordsType DEF RecordRun
<1>5. CASE Settle(r)
  <2>1. sync' \in {"off", "compiling", "in_sync"} /\ dirty' \in Nat /\ compiled' \in Nat
    BY <1>0, <1>5 DEF Settle, settledState, RunType, TypeOK
  <2> QED
    BY <1>0, <1>5, <2>1, QueueTyped, FinishType DEF Settle
<1>6. CASE SettleBehind(r)
  <2>1. QueueType'
    <3>1. CASE AllowBehind(r)
      BY <1>6, <3>1, QueueTyped DEF SettleBehind, QueueType, Unfinished
    <3>2. CASE ~AllowBehind(r)
      BY <1>6, <3>2, QueueTyped, SnoozeType DEF SettleBehind
    <3> QED
      BY <3>1, <3>2
  <2> QED
    BY <1>0, <1>6, <2>1 DEF SettleBehind
<1>7. CASE Refuse(r)
  <2>1. [run[r] EXCEPT !.at = "record", !.cites = {}] \in RunType
    BY <1>0 DEF RunType, Phases
  <2> QED
    BY <1>7, <2>1 DEF Refuse
<1>8. CASE LoseAnswer(r)
  BY <1>0, <1>8, DroppedType, RecordsType DEF LoseAnswer
<1>9. CASE Err(r)
  <2>1. QueueType'
    BY <1>9, QueueTyped, FailAttemptType DEF Err
  <2> QED
    BY <1>0, <1>9, <2>1, DroppedType DEF Err
<1>10. CASE Crash(r)
  <2>1. QueueType'
    BY <1>10, QueueTyped DEF Crash, QueueType, Unfinished
  <2> QED
    BY <1>0, <1>10, <2>1 DEF Crash
<1> QED
  BY <1>1, <1>2, <1>3, <1>4, <1>5, <1>6, <1>7, <1>8, <1>9, <1>10 DEF Compiling

LEMMA QueueStepsType ==
    ASSUME TypeOK, TakeJob \/ EndJob \/ Rescue \/ Sweep
    PROVE  TypeOK'
<1> USE Kept, StepType, QueueTyped
<1>1. CASE TakeJob
  <2>1. run' \in [Runners -> RunType] /\ Refs' = Refs /\ RunType' = RunType
    BY <1>1, SnapshotType, RunnersAre, RefsKept DEF TakeJob
  <2>2. QueueType'
    BY <1>1 DEF TakeJob, QueueType, Unfinished
  <2> QED
    BY <1>1, <2>1, <2>2 DEF TakeJob
<1>2. CASE EndJob
  <2>1. QueueType'
    BY <1>2, Bounds DEF EndJob, QueueType
  <2> QED
    BY <1>2, <2>1 DEF EndJob
<1>3. CASE Rescue
  BY <1>3, FailAttemptType DEF Rescue
<1>4. CASE Sweep
  BY <1>4, EnqueueType DEF Sweep
<1> QED
  BY <1>1, <1>2, <1>3, <1>4

LEMMA ForgetStepsType ==
    ASSUME TypeOK, NEW m \in Forgettable, Propagating(m)
    PROVE  TypeOK'
<1> USE Kept, StepType, RunSet
<1>0. m \in Runners /\ run[m] \in RunType /\ op[m] \in OpType /\ Idle \in RunType
  BY RunnersAre, EndsType DEF TypeOK
<1>1. \A at \in {"check", "list", "end"} : [run[m] EXCEPT !.at = at] \in RunType
  BY <1>0 DEF RunType, Phases
<1>2. CASE StartForget(m)
  <2>1. CASE op[m].file # "pending"
    BY <1>0, <1>1, <1>2, <2>1 DEF StartForget
  <2>2. CASE op[m].file = "pending" /\ ~On
    <3>1. op' \in [Forgettable -> OpType]
      <4>1. [op[m] EXCEPT !.file = "stopped"] \in OpType
        BY <1>0 DEF OpType
      <4> QED
        BY <1>2, <2>2, <4>1 DEF StartForget, TypeOK
    <3> QED
      BY <1>0, <1>1, <1>2, <2>2, <3>1 DEF StartForget
  <2>3. CASE op[m].file = "pending" /\ On /\ compiled < op[m].gen
    <3>1. run' \in [Runners -> RunType] /\ Refs' = Refs /\ RunType' = RunType
      BY <1>0, <1>2, <2>3, SnapshotType, RefsKept DEF StartForget
    <3> QED
      BY <1>2, <2>3, <3>1 DEF StartForget
  <2>4. CASE op[m].file = "pending" /\ On /\ ~(compiled < op[m].gen)
    BY <1>0, <1>1, <1>2, <2>4 DEF StartForget
  <2> QED
    BY <2>1, <2>2, <2>3, <2>4
<1>3. CASE CheckFile(m)
  <2>1. op' \in [Forgettable -> OpType]
    <3>1. PICK f : /\ f \in {op[m].file, "failed", "done"}
                   /\ op' = [op EXCEPT ![m].file = f]
      BY <1>3 DEF CheckFile
    <3>2. [op[m] EXCEPT !.file = f] \in OpType
      BY <1>0, <3>1 DEF OpType
    <3> QED
      BY <3>1, <3>2 DEF TypeOK
  <2> QED
    BY <1>0, <1>1, <1>3, <2>1 DEF CheckFile
<1>4. CASE ListArtifacts(m)
  <2>1. {c.ref : c \in {d \in runs : m \in d.cites}} \subseteq Refs
    BY DEF TypeOK
  <2>2. run' \in [Runners -> RunType]
    <3>1. CASE op[m].copies = "pending"
      <4>1. [run[m] EXCEPT !.at = "redact", !.todo = {c.ref : c \in {d \in runs : m \in d.cites}}]
               \in RunType
        BY <1>0, <2>1 DEF RunType, Phases
      <4> QED
        BY <1>4, <3>1, <4>1 DEF ListArtifacts, TypeOK
    <3>2. CASE op[m].copies # "pending"
      BY <1>0, <1>1, <1>4, <3>2 DEF ListArtifacts, TypeOK
    <3> QED
      BY <3>1, <3>2
  <2> QED
    BY <1>4, <2>2, RefsKept DEF ListArtifacts
<1>5. CASE LoadArtifact(m)
  <2>1. PICK k \in run[m].todo :
           run' = IF m \in store[k]
                    THEN [run EXCEPT ![m] = [@ EXCEPT !.at = "save", !.ref = k, !.held = store[k]]]
                    ELSE [run EXCEPT ![m].todo = @ \ {k}]
    BY <1>5 DEF LoadArtifact
  <2>2. k \in Refs /\ store[k] \subseteq Memories
    BY <1>0 DEF RunType, Refs, TypeOK
  <2>3. run' \in [Runners -> RunType]
    <3>1. CASE m \in store[k]
      <4>1. [run[m] EXCEPT !.at = "save", !.ref = k, !.held = store[k]] \in RunType
        BY <1>0, <2>2 DEF RunType, Phases
      <4> QED
        BY <2>1, <3>1, <4>1 DEF TypeOK
    <3>2. CASE m \notin store[k]
      BY <1>0, <2>1, <3>2 DEF RunType, TypeOK
    <3> QED
      BY <3>1, <3>2
  <2> QED
    BY <1>5, <2>3, RefsKept DEF LoadArtifact
<1>6. CASE SaveArtifact(m)
  <2>1. store' \in Seq(SUBSET Memories) /\ Len(store') = Len(store)
    <3>1. Stripped(m) \subseteq Memories
      BY <1>0 DEF Stripped, RunType
    <3> QED
      BY <1>6, <3>1 DEF SaveArtifact, TypeOK
  <2>2. run' \in [Runners -> RunType]
    <3>1. [Idle EXCEPT !.at = "redact", !.todo = run[m].todo \ {run[m].ref}] \in RunType
      BY <1>0 DEF Idle, RunType, Phases
    <3> QED
      BY <1>6, <3>1 DEF SaveArtifact, TypeOK
  <2> QED
    BY <1>6, <2>1, <2>2, SameRefs DEF SaveArtifact
<1>7. CASE FinishArtifacts(m)
  <2>1. op' \in [Forgettable -> OpType]
    <3>1. [op[m] EXCEPT !.copies = "done"] \in OpType
      BY <1>0 DEF OpType
    <3> QED
      BY <1>7, <3>1 DEF FinishArtifacts, TypeOK
  <2> QED
    BY <1>0, <1>1, <1>7, <2>1 DEF FinishArtifacts
<1>8. CASE EndForget(m)
  <2>1. op' \in [Forgettable -> OpType]
    <3>1. PICK a : /\ a \in {op[m].at, "done"}
                   /\ op' = [op EXCEPT ![m].at = a]
      BY <1>8 DEF EndForget
    <3>2. [op[m] EXCEPT !.at = a] \in OpType
      BY <1>0, <3>1 DEF OpType
    <3> QED
      BY <3>1, <3>2 DEF TypeOK
  <2> QED
    BY <1>0, <1>8, <2>1 DEF EndForget
<1> QED
  BY <1>2, <1>3, <1>4, <1>5, <1>6, <1>7, <1>8 DEF Propagating

LEMMA InitType ==
    ASSUME Init
    PROVE  TypeOK
<1>1. run \in [Runners -> RunType] /\ op \in [Forgettable -> OpType]
  BY DEF Init, Idle, NoForget, RunType, OpType, Phases, Refs
<1>2. store \in Seq(SUBSET Memories) /\ snoozes \in 0 .. SnoozeCap
  BY Bounds DEF Init
<1>3. left \in [changes : 0 .. MaxChanges, faults : 0 .. MaxFaults]
  BY Bounds DEF Init
<1>4. latest \in [cites : SUBSET Memories, failed : BOOLEAN]
  BY DEF Init
<1>5. owed \in BOOLEAN
  BY DEF Init
<1> QED
  BY <1>1, <1>2, <1>3, <1>4, <1>5 DEF Init, TypeOK, Unfinished

LEMMA StutterType ==
    ASSUME TypeOK, UNCHANGED vars
    PROVE  TypeOK'
BY Kept, StepType DEF vars, record

LEMMA TypeStep ==
    ASSUME TypeOK, [Next]_vars
    PROVE  TypeOK'
BY RecordCommandsType, ForgetCommandsType, QueueStepsType, CompileStepsType, ForgetStepsType, StutterType
   DEF Next

\* Every variable keeps its type, and every reference a run or a compile
\* holds is one the store gave out (compile/service.go, ReserveCompileRef),
\* for any number of memories, Forgets, changes and faults.
THEOREM Types == Spec => []TypeOK
<1>1. Init => TypeOK
  BY InitType
<1>2. TypeOK /\ [Next]_vars => TypeOK'
  BY TypeStep
<1> QED
  BY <1>1, <1>2, PTL DEF Spec

----------------------------------------------------------------------------
\* What a step may do to the target's row, and to the generation a compile
\* reads

Bumped == /\ On /\ dirty' = dirty + 1 /\ compiled' = compiled
          /\ sync' = IF sync = "in_sync" THEN "compiling" ELSE sync
Stopped == On /\ sync' = "off" /\ dirty' = dirty /\ compiled' = compiled
Resumed == ~On /\ sync' = "compiling" /\ dirty' = dirty + 1 /\ compiled' = compiled
CaughtUp(r) == /\ Wanted(r)
               /\ compiled' = run[r].gen /\ sync' = settledState(run[r].gen) /\ dirty' = dirty
Row == UNCHANGED target \/ Bumped \/ Stopped \/ Resumed \/ \E r \in Runners : CaughtUp(r)

LEMMA RowMoves ==
    ASSUME [Next]_vars
    PROVE  Row
<1> USE DEF Row, target
<1>1. ASSUME markDirty, UNCHANGED compiled
      PROVE  Row
  BY <1>1 DEF markDirty, Bumped
<1>2. ASSUME NEW m \in Memories, Keep(m) \/ Supersede(m)
      PROVE  Row
  BY <1>1, <1>2 DEF Keep, Supersede
<1>3. CASE requestCompile
  BY <1>1, <1>3 DEF requestCompile
<1>4. CASE Stop \/ Resume
  BY <1>4 DEF Stop, Resume, Stopped, Resumed
<1>5. ASSUME NEW m \in Forgettable, ForgetReads(m) \/ ForgetCommits(m)
      PROVE  Row
  BY <1>1, <1>5 DEF ForgetReads, ForgetCommits
<1>6. CASE TakeJob \/ EndJob \/ Rescue \/ Sweep
  BY <1>6 DEF TakeJob, EndJob, Rescue, Sweep
<1>7. ASSUME NEW r \in Runners, Compiling(r) \/ Refuse(r) \/ LoseAnswer(r) \/ Err(r) \/ Crash(r)
      PROVE  Row
  <2>1. CASE RecordRun(r) \/ LoseAnswer(r)
    BY <2>1 DEF RecordRun, LoseAnswer, Records, CaughtUp
  <2>2. CASE Settle(r)
    BY <2>2 DEF Settle, CaughtUp
  <2>3. CASE PutArtifact(r) \/ RecordNothing(r) \/ RecordBehind(r) \/ SettleBehind(r)
    BY <2>3 DEF PutArtifact, RecordNothing, RecordBehind, SettleBehind
  <2>4. CASE Refuse(r) \/ Err(r) \/ Crash(r)
    BY <2>4 DEF Refuse, Err, Crash
  <2> QED
    BY <1>7, <2>1, <2>2, <2>3, <2>4 DEF Compiling
<1>8. ASSUME NEW m \in Forgettable, Propagating(m)
      PROVE  Row
  BY <1>8 DEF Propagating, StartForget, CheckFile, ListArtifacts, LoadArtifact, SaveArtifact,
              FinishArtifacts, EndForget
<1>9. CASE UNCHANGED vars
  BY <1>9 DEF vars
<1> QED
  BY <1>2, <1>3, <1>4, <1>5, <1>6, <1>7, <1>8, <1>9 DEF Next

\* A compile keeps the generation it read, drops it, or reads the latest.
GenMoves == \A r \in Runners : run'[r].gen \in {run[r].gen, 0, dirty}

LEMMA GenSet ==
    ASSUME TypeOK, NEW r \in Runners, NEW v, run' = [run EXCEPT ![r] = v],
           v.gen \in {run[r].gen, 0, dirty}
    PROVE  GenMoves
BY DEF GenMoves, TypeOK

LEMMA EndsGen ==
    ASSUME NEW r
    PROVE  Idle.gen = 0 /\ Done(r).gen = 0 /\ Failed(r).gen = 0
BY DEF Idle, Done, Failed

LEMMA GenStep ==
    ASSUME TypeOK, [Next]_vars
    PROVE  GenMoves
<1> USE EndsGen
<1>1. ASSUME UNCHANGED run
      PROVE  GenMoves
  BY <1>1 DEF GenMoves
<1>2. ASSUME NEW m \in Memories, Keep(m) \/ Supersede(m)
      PROVE  GenMoves
  BY <1>1, <1>2 DEF Keep, Supersede
<1>3. CASE requestCompile \/ Stop \/ Resume
  BY <1>1, <1>3 DEF requestCompile, Stop, Resume
<1>4. ASSUME NEW m \in Forgettable, ForgetReads(m) \/ ForgetCommits(m)
      PROVE  GenMoves
  BY <1>1, <1>4 DEF ForgetReads, ForgetCommits
<1>5. CASE EndJob \/ Rescue \/ Sweep
  BY <1>1, <1>5 DEF EndJob, Rescue, Sweep
<1>6. ASSUME NEW r \in Runners, NEW at \in {"settle", "put"}, Snapshot(r, at)
      PROVE  GenMoves
  <2>1. [Idle EXCEPT !.at = at, !.gen = dirty, !.cites = kept].gen = dirty
    BY DEF Idle
  <2> QED
    BY <1>6, <2>1, GenSet DEF Snapshot
<1>7. CASE TakeJob
  BY <1>6, <1>7, RunnersAre DEF TakeJob
<1>8. ASSUME NEW r \in Runners, Compiling(r) \/ Refuse(r) \/ LoseAnswer(r) \/ Err(r) \/ Crash(r)
      PROVE  GenMoves
  <2>0. run[r] \in RunType
    BY DEF TypeOK
  <2>1. CASE PutArtifact(r) \/ RecordNothing(r) \/ Refuse(r)
    <3>1. /\ [run[r] EXCEPT !.at = "record", !.ref = Len(store')].gen = run[r].gen
          /\ [run[r] EXCEPT !.at = "settle", !.ref = 0].gen = run[r].gen
          /\ [run[r] EXCEPT !.at = "record", !.cites = {}].gen = run[r].gen
      BY <2>0 DEF RunType
    <3> QED
      BY <2>1, <3>1, GenSet DEF PutArtifact, RecordNothing, Refuse
  <2>2. CASE RecordBehind(r) \/ RecordRun(r) \/ Settle(r) \/ SettleBehind(r)
    BY <2>2, GenSet DEF RecordBehind, RecordRun, Settle, SettleBehind
  <2>3. CASE LoseAnswer(r) \/ Err(r) \/ Crash(r)
    BY <2>3, GenSet DEF LoseAnswer, Err, Crash
  <2> QED
    BY <1>8, <2>1, <2>2, <2>3 DEF Compiling
<1>9. ASSUME NEW m \in Forgettable, Propagating(m)
      PROVE  GenMoves
  <2>0. m \in Runners /\ run[m] \in RunType
    BY RunnersAre DEF TypeOK
  <2>1. \A at \in Phases : [run[m] EXCEPT !.at = at].gen = run[m].gen
    BY <2>0 DEF RunType
  <2>2. CASE StartForget(m)
    BY <1>1, <1>6, <2>0, <2>1, <2>2, GenSet DEF StartForget, Phases
  <2>3. CASE CheckFile(m) \/ FinishArtifacts(m) \/ EndForget(m)
    BY <2>0, <2>1, <2>3, GenSet DEF CheckFile, FinishArtifacts, EndForget, Phases
  <2>4. CASE ListArtifacts(m)
    <3>1. [run[m] EXCEPT !.at = "redact", !.todo = {c.ref : c \in {d \in runs : m \in d.cites}}].gen
             = run[m].gen
      BY <2>0 DEF RunType
    <3> QED
      BY <2>0, <2>1, <2>4, <3>1, GenSet DEF ListArtifacts, Phases
  <2>5. CASE LoadArtifact(m)
    <3>1. PICK k \in run[m].todo :
             run' = IF m \in store[k]
                      THEN [run EXCEPT ![m] = [@ EXCEPT !.at = "save", !.ref = k, !.held = store[k]]]
                      ELSE [run EXCEPT ![m].todo = @ \ {k}]
      BY <2>5 DEF LoadArtifact
    <3>2. /\ [run[m] EXCEPT !.at = "save", !.ref = k, !.held = store[k]].gen = run[m].gen
          /\ [run[m] EXCEPT !.todo = @ \ {k}].gen = run[m].gen
      BY <2>0 DEF RunType
    <3> QED
      BY <2>0, <3>1, <3>2, GenSet
  <2>6. CASE SaveArtifact(m)
    <3>1. [Idle EXCEPT !.at = "redact", !.todo = run[m].todo \ {run[m].ref}].gen = 0
      BY DEF Idle
    <3> QED
      BY <2>0, <2>6, <3>1, GenSet DEF SaveArtifact
  <2> QED
    BY <1>9, <2>2, <2>3, <2>4, <2>5, <2>6 DEF Propagating
<1>10. CASE UNCHANGED vars
  BY <1>1, <1>10 DEF vars
<1> QED
  BY <1>2, <1>3, <1>4, <1>5, <1>7, <1>8, <1>9, <1>10 DEF Next

----------------------------------------------------------------------------
\* The row tells the truth

\* Nothing is compiled, or being compiled, past the generation the record is
\* at.
Ordered == compiled <= dirty /\ \A r \in Runners : run[r].gen <= dirty

LEMMA GensAreNat ==
    ASSUME TypeOK
    PROVE  dirty \in Nat /\ compiled \in Nat /\ \A r \in Runners : run[r].gen \in Nat
BY DEF TypeOK, RunType

LEMMA OrderedStep ==
    ASSUME TypeOK, Ordered, [Next]_vars
    PROVE  Ordered'
<1>1. dirty' >= dirty /\ compiled' <= dirty'
  BY RowMoves, GensAreNat DEF Row, Bumped, Stopped, Resumed, CaughtUp, Ordered, target
<1>2. \A r \in Runners : run'[r].gen <= dirty
  BY GenStep, GensAreNat DEF GenMoves, Ordered
<1>3. dirty' \in Nat
  BY TypeStep, GensAreNat DEF TypeOK
<1> QED
  BY <1>1, <1>2, <1>3, GensAreNat, GenStep DEF Ordered, GenMoves

RowInv == TypeOK /\ Ordered /\ CompilingIsBehind

LEMMA RowInit ==
    ASSUME Init
    PROVE  RowInv
<1>1. Ordered
  BY DEF Init, Ordered, Idle
<1>2. sync = "compiling" /\ compiled < dirty
  BY DEF Init
<1>3. CompilingIsBehind
  BY <1>2 DEF CompilingIsBehind, Behind, On
<1> QED
  BY <1>1, <1>3, InitType DEF RowInv

LEMMA RowStep ==
    ASSUME RowInv, [Next]_vars
    PROVE  RowInv'
<1>1. TypeOK' /\ Ordered'
  BY TypeStep, OrderedStep DEF RowInv
<1>2. sync \in {"off", "compiling", "in_sync"}
  BY DEF RowInv, TypeOK
<1>3. CompilingIsBehind'
  BY <1>2, RowMoves, GensAreNat
     DEF RowInv, Ordered, CompilingIsBehind, Behind, On, Row, Bumped, Stopped, Resumed, CaughtUp,
         Wanted, settledState, target
<1> QED
  BY <1>1, <1>3 DEF RowInv

\* The row says "compiling" exactly while its generation is not compiled
\* (targets.go, settledState): the state a reader sees is never a leftover of
\* a compile that overlapped a change, a stop or another runner's compile.
THEOREM RowTellsTheTruth == Spec => []CompilingIsBehind
<1>1. Init => RowInv
  BY RowInit
<1>2. RowInv /\ [Next]_vars => RowInv'
  BY RowStep
<1>3. RowInv => CompilingIsBehind
  BY DEF RowInv
<1> QED
  BY <1>1, <1>2, <1>3, PTL DEF Spec

\* Every compile of the job or of a Forget, however they overlap, moves the
\* compiled generation forward to one the record has reached (targets.go,
\* recordCompile and SettleUnchanged), and nothing else moves it: the steps
\* of Generation.
THEOREM ImplementsGeneration == Spec => Gen!Safe
<1>1. Init => Gen!Init
  BY DEF Init, Gen!Init, On
<1>2. RowInv /\ [Next]_vars => [Gen!Next]_Gen!vars
  <2> SUFFICES ASSUME RowInv, [Next]_vars
               PROVE  [Gen!Next]_Gen!vars
    OBVIOUS
  <2>1. TypeOK /\ Ordered
    BY DEF RowInv
  <2>2. CASE UNCHANGED target
    BY <2>2 DEF target, Gen!vars, On
  <2>3. CASE Bumped
    BY <2>3 DEF Bumped, Gen!Next, Gen!Bump, On
  <2>4. CASE Stopped
    BY <2>4 DEF Stopped, Gen!Next, Gen!Stop, On
  <2>5. CASE Resumed
    BY <2>5 DEF Resumed, Gen!Next, Gen!Resume, On
  <2>6. ASSUME NEW r \in Runners, CaughtUp(r)
        PROVE  Gen!CatchUp
    BY <2>1, <2>6, GensAreNat DEF CaughtUp, Wanted, settledState, Ordered, Gen!CatchUp, On
  <2> QED
    BY <2>2, <2>3, <2>4, <2>5, <2>6, RowMoves DEF Row, Gen!Next
<1>3. Init => RowInv
  BY RowInit
<1>4. RowInv /\ [Next]_vars => RowInv'
  BY RowStep
<1> QED
  BY <1>1, <1>2, <1>3, <1>4, PTL DEF Spec, Gen!Safe

----------------------------------------------------------------------------
\* No change is left without a job

\* A job River has yet to complete ended knowing the target was behind.
EndingOwes == job = "ending" => owed
JobInv == BehindHasJob /\ EndingOwes

LEMMA EnqueueHasJob ==
    ASSUME JobInv, Enqueue
    PROVE  (job' \in {"queued", "running", "lost"} \/ owed') /\ EndingOwes'
<1>1. CASE job \in Unfinished
  BY <1>1 DEF Enqueue, JobInv, EndingOwes, queue, Unfinished
<1>2. CASE job \notin Unfinished
  <2>1. job' = "queued"
    BY <1>2 DEF Enqueue
  <2> QED
    BY <2>1 DEF EndingOwes
<1> QED
  BY <1>1, <1>2

\* The queue is left alone by a step after which the target is behind only
\* if it was.
LEMMA SameQueue ==
    ASSUME JobInv, UNCHANGED queue, Behind' => Behind
    PROVE  JobInv'
BY DEF JobInv, BehindHasJob, EndingOwes, queue

LEMMA FailAttemptHasJob ==
    ASSUME FailAttempt
    PROVE  JobInv'
<1>1. CASE attempts + 1 < MaxAttempts
  BY <1>1 DEF FailAttempt, JobInv, BehindHasJob, EndingOwes
<1>2. CASE ~(attempts + 1 < MaxAttempts)
  BY <1>2 DEF FailAttempt, JobInv, BehindHasJob, EndingOwes
<1> QED
  BY <1>1, <1>2

LEMMA SnoozeHasJob ==
    ASSUME JobInv, NEW r, Snooze(r), Behind' => Behind
    PROVE  JobInv'
<1>1. CASE r = Job
  BY <1>1 DEF Snooze, JobInv, BehindHasJob, EndingOwes
<1>2. CASE r # Job
  BY <1>2, SameQueue DEF Snooze
<1> QED
  BY <1>1, <1>2

\* The job ends at a generation that is the latest, or owes the rest.
LEMMA FinishHasJob ==
    ASSUME TypeOK, JobInv, NEW r \in Runners, Finish(r), dirty' = dirty,
           Behind' => Behind,
           dirty <= run[r].gen => ~Behind'
    PROVE  JobInv'
<1>0. dirty \in Nat /\ run[r].gen \in Nat
  BY GensAreNat
<1>1. CASE r = Job
  <2>1. job' = "none" /\ owed' = (dirty > run[r].gen)
    BY <1>1 DEF Finish
  <2>2. CASE dirty > run[r].gen
    <3>1. owed'
      BY <2>1, <2>2
    <3> QED
      BY <2>1, <3>1 DEF JobInv, BehindHasJob, EndingOwes
  <2>3. CASE dirty <= run[r].gen
    BY <2>1, <2>3 DEF JobInv, BehindHasJob, EndingOwes
  <2> QED
    BY <1>0, <2>2, <2>3
<1>2. CASE r # Job
  BY <1>2, SameQueue DEF Finish
<1> QED
  BY <1>1, <1>2

LEMMA CaughtUpIsNotBehind ==
    ASSUME TypeOK, NEW r \in Runners, CaughtUp(r)
    PROVE  Behind' => Behind /\ run[r].gen < dirty
<1>1. sync # "off" /\ compiled < run[r].gen /\ compiled' = run[r].gen /\ dirty' = dirty
  BY DEF CaughtUp, Wanted, On
<1> QED
  BY <1>1, GensAreNat DEF Behind, On

LEMMA JobStep ==
    ASSUME TypeOK, JobInv, [Next]_vars
    PROVE  JobInv'
<1>1. ASSUME UNCHANGED target
      PROVE  Behind' <=> Behind
  BY <1>1 DEF target, Behind, On
<1>2. ASSUME markDirty, UNCHANGED compiled
      PROVE  JobInv'
  <2>1. CASE On
    BY <1>2, <2>1, EnqueueHasJob DEF markDirty, JobInv, BehindHasJob
  <2>2. CASE ~On
    BY <1>2, <2>2, SameQueue DEF markDirty, Behind, On
  <2> QED
    BY <2>1, <2>2
<1>3. ASSUME NEW m \in Memories, Keep(m) \/ Supersede(m)
      PROVE  JobInv'
  BY <1>2, <1>3 DEF Keep, Supersede
<1>4. CASE requestCompile
  BY <1>2, <1>4 DEF requestCompile
<1>5. CASE Stop
  BY <1>5, SameQueue DEF Stop, Behind, On
<1>6. CASE Resume
  BY <1>6, EnqueueHasJob DEF Resume, JobInv, BehindHasJob
<1>7. ASSUME NEW m \in Forgettable, ForgetReads(m) \/ ForgetCommits(m)
      PROVE  JobInv'
  BY <1>1, <1>2, <1>7, SameQueue DEF ForgetReads, ForgetCommits
<1>8. CASE TakeJob \/ EndJob
  <2>1. CASE TakeJob
    BY <2>1 DEF TakeJob, JobInv, BehindHasJob, EndingOwes
  <2>2. CASE EndJob
    BY <2>2 DEF EndJob, JobInv, BehindHasJob, EndingOwes
  <2> QED
    BY <1>8, <2>1, <2>2
<1>9. CASE Rescue
  BY <1>9, FailAttemptHasJob DEF Rescue
<1>10. CASE Sweep
  BY <1>10, EnqueueHasJob DEF Sweep, JobInv, BehindHasJob
<1>11. ASSUME NEW r \in Runners, Compiling(r) \/ Refuse(r) \/ LoseAnswer(r) \/ Err(r) \/ Crash(r)
       PROVE  JobInv'
  <2>1. CASE PutArtifact(r) \/ RecordNothing(r) \/ Refuse(r)
    BY <1>1, <2>1, SameQueue DEF PutArtifact, RecordNothing, Refuse
  <2>2. CASE RecordBehind(r)
    BY <1>1, <2>2, SnoozeHasJob DEF RecordBehind
  <2>3. CASE RecordRun(r) \/ LoseAnswer(r)
    <3>1. CaughtUp(r) /\ Finish(r)
      BY <2>3 DEF RecordRun, LoseAnswer, Records, CaughtUp
    <3>2. dirty <= run[r].gen => ~Behind'
      BY <3>1, CaughtUpIsNotBehind, GensAreNat
    <3> QED
      BY <3>1, <3>2, CaughtUpIsNotBehind, FinishHasJob DEF CaughtUp
  <2>4. CASE Settle(r)
    <3>1. CASE Wanted(r)
      <4>1. CaughtUp(r)
        BY <2>4, <3>1 DEF Settle, CaughtUp
      <4>2. dirty <= run[r].gen => ~Behind'
        BY <4>1, CaughtUpIsNotBehind, GensAreNat
      <4> QED
        BY <2>4, <4>1, <4>2, CaughtUpIsNotBehind, FinishHasJob DEF Settle
    <3>2. CASE ~Wanted(r)
      <4>1. UNCHANGED target /\ Finish(r) /\ dirty <= run[r].gen
        BY <2>4, <3>2 DEF Settle, target
      <4>2. ~Behind
        BY <3>2, <4>1, GensAreNat DEF Wanted, Behind
      <4> QED
        BY <1>1, <4>1, <4>2, FinishHasJob DEF target
    <3> QED
      BY <3>1, <3>2
  <2>5. CASE SettleBehind(r)
    <3>1. CASE AllowBehind(r)
      BY <2>5, <3>1 DEF SettleBehind, JobInv, BehindHasJob, EndingOwes
    <3>2. CASE ~AllowBehind(r)
      BY <1>1, <2>5, <3>2, SnoozeHasJob DEF SettleBehind
    <3> QED
      BY <3>1, <3>2
  <2>6. CASE Err(r)
    BY <1>1, <2>6, FailAttemptHasJob, SameQueue DEF Err
  <2>7. CASE Crash(r)
    <3>1. CASE r = Job
      BY <2>7, <3>1 DEF Crash, JobInv, BehindHasJob, EndingOwes
    <3>2. CASE r # Job
      BY <1>1, <2>7, <3>2, SameQueue DEF Crash
    <3> QED
      BY <3>1, <3>2
  <2> QED
    BY <1>11, <2>1, <2>2, <2>3, <2>4, <2>5, <2>6, <2>7 DEF Compiling
<1>12. ASSUME NEW m \in Forgettable, Propagating(m)
       PROVE  JobInv'
  <2>1. UNCHANGED <<target, queue>>
    BY <1>12 DEF Propagating, StartForget, CheckFile, ListArtifacts, LoadArtifact, SaveArtifact,
                 FinishArtifacts, EndForget
  <2> QED
    BY <1>1, <2>1, SameQueue
<1>13. CASE UNCHANGED vars
  BY <1>1, <1>13, SameQueue DEF vars
<1> QED
  BY <1>3, <1>4, <1>5, <1>6, <1>7, <1>8, <1>9, <1>10, <1>11, <1>12, <1>13 DEF Next

\* A target that is behind always has a job that will read its latest
\* generation, unless the last one ended knowing it was behind (worker.go,
\* Finisher; jobs.go, InsertOpts): no change falls between a job's last read
\* and its end, whatever runs beside it.
THEOREM ChangesHaveJobs == Spec => []BehindHasJob
<1>1. Init => TypeOK /\ JobInv
  <2>1. Init => JobInv
    BY DEF Init, JobInv, BehindHasJob, EndingOwes
  <2> QED
    BY <2>1, InitType
<1>2. TypeOK /\ JobInv /\ [Next]_vars => (TypeOK /\ JobInv)'
  BY TypeStep, JobStep
<1>3. JobInv => BehindHasJob
  BY DEF JobInv
<1> QED
  BY <1>1, <1>2, <1>3, PTL DEF Spec

----------------------------------------------------------------------------
\* A rewritten file is clean

Disjoint == kept \cap gone = {}

\* A Forget's job works between its commit and its end, and compiles only
\* for a file that waits.
Phased(m) ==
    /\ run[m].at # "idle" => op[m].at = "pending"
    /\ run[m].at \in {"put", "record", "settle", "check"} => op[m].file = "pending"
    /\ op[m].at \in {"pending", "done"} \/ op[m].file \in {"pending", "done"} => m \in gone
    /\ op[m].file \in {"none", "held"} \/ op[m].at \in {"pending", "done"}

\* What a file's step will be answered with, once a run is past the Forget.
Waiting(m) ==
    op[m].file = "pending" /\ compiled >= op[m].gen /\ ~latest.failed => m \notin latest.cites

\* A compile that settles makes a generation good only on a clean run.
Settling(r) ==
    run[r].at = "settle" /\ Wanted(r) /\ dirty <= run[r].gen => latest.cites \cap gone = {}

Facts ==
    /\ \A m \in Forgettable : Waiting(m)
    /\ RewrittenIsClean
    /\ \A r \in Runners : Settling(r)
CleanInv == TypeOK /\ Ordered /\ Disjoint /\ (\A m \in Forgettable : Phased(m)) /\ Facts

LEMMA DisjointStep ==
    ASSUME Disjoint, [Next]_vars
    PROVE  Disjoint' /\ gone \subseteq gone'
<1> USE DEF Disjoint, record
<1>1. ASSUME NEW m \in Memories, Keep(m) \/ Supersede(m)
      PROVE  Disjoint' /\ gone \subseteq gone'
  BY <1>1 DEF Keep, Supersede
<1>2. ASSUME NEW m \in Forgettable, ForgetCommits(m)
      PROVE  Disjoint' /\ gone \subseteq gone'
  BY <1>2 DEF ForgetCommits
<1>3. CASE UNCHANGED record
  BY <1>3
<1>4. (\E m \in Memories : Keep(m) \/ Supersede(m)) \/ (\E m \in Forgettable : ForgetCommits(m))
        \/ UNCHANGED record
  BY DEF Next, requestCompile, Stop, Resume, ForgetReads, TakeJob, EndJob, Rescue, Sweep, Compiling,
         PutArtifact, RecordNothing, RecordBehind, RecordRun, Settle, SettleBehind, Refuse, LoseAnswer,
         Err, Crash, Propagating, StartForget, CheckFile, ListArtifacts, LoadArtifact, SaveArtifact,
         FinishArtifacts, EndForget, vars
<1> QED
  BY <1>1, <1>2, <1>3, <1>4

\* Where each step takes the runner it is about: the others stay.
LEMMA AtSet ==
    ASSUME TypeOK, NEW r \in Runners, NEW v, run' = [run EXCEPT ![r] = v]
    PROVE  run'[r] = v /\ \A s \in Runners : s # r => run'[s] = run[s]
BY DEF TypeOK

LEMMA EndsAt ==
    ASSUME NEW r
    PROVE  /\ Idle.at = "idle" /\ Idle.ref = 0
           /\ Done(r).at \in {"idle", "check"} /\ Failed(r).at \in {"idle", "list"}
           /\ Done(r).ref = 0 /\ Failed(r).ref = 0
           /\ r = Job => Done(r).at = "idle" /\ Failed(r).at = "idle"
BY DEF Idle, Done, Failed

\* A compile's step keeps its runner among the phases of a compile, or ends
\* it.
LEMMA CompilingAt ==
    ASSUME TypeOK, NEW r \in Runners, Compiling(r) \/ Refuse(r) \/ LoseAnswer(r) \/ Err(r) \/ Crash(r)
    PROVE  /\ UNCHANGED <<record, op, dirty>>
           /\ \A s \in Runners : s # r => run'[s] = run[s]
           /\ run[r].at # "idle"
           /\ \/ run[r].at \in {"put", "record", "settle"} /\ run'[r].at \in {"record", "settle", "check"}
              \/ run'[r].at \in {"idle", "list"}
           /\ run'[r].at = "settle" => RecordNothing(r)
<1> USE AtSet, EndsAt DEF target
<1>0. run[r] \in RunType
  BY DEF TypeOK
<1>1. CASE PutArtifact(r)
  <2>1. [run[r] EXCEPT !.at = "record", !.ref = Len(store')].at = "record"
    BY <1>0 DEF RunType
  <2> QED
    BY <1>1, <2>1 DEF PutArtifact
<1>2. CASE RecordNothing(r)
  <2>1. [run[r] EXCEPT !.at = "settle", !.ref = 0].at = "settle"
    BY <1>0 DEF RunType
  <2> QED
    BY <1>2, <2>1 DEF RecordNothing
<1>3. CASE RecordBehind(r) \/ RecordRun(r)
  BY <1>3 DEF RecordBehind, RecordRun, Records
<1>4. CASE Settle(r) \/ SettleBehind(r)
  BY <1>4 DEF Settle, SettleBehind
<1>5. CASE Refuse(r)
  <2>1. [run[r] EXCEPT !.at = "record", !.cites = {}].at = "record"
    BY <1>0 DEF RunType
  <2> QED
    BY <1>5, <2>1 DEF Refuse
<1>6. CASE LoseAnswer(r) \/ Err(r)
  BY <1>6 DEF LoseAnswer, Err, Records
<1>7. CASE Crash(r)
  BY <1>7 DEF Crash
<1> QED
  BY <1>1, <1>2, <1>3, <1>4, <1>5, <1>6, <1>7 DEF Compiling

LEMMA OpSet ==
    ASSUME TypeOK, NEW m \in Forgettable, NEW v, op' = [op EXCEPT ![m] = v]
    PROVE  op'[m] = v /\ \A n \in Forgettable : n # m => op'[n] = op[n]
BY DEF TypeOK

LEMMA AtIs ==
    ASSUME TypeOK, NEW r \in Runners, NEW at, run' = [run EXCEPT ![r].at = at]
    PROVE  run'[r].at = at /\ \A s \in Runners : s # r => run'[s] = run[s]
BY DEF TypeOK, RunType

LEMMA FileIs ==
    ASSUME TypeOK, NEW m \in Forgettable, NEW f, op' = [op EXCEPT ![m].file = f]
    PROVE  /\ op'[m].file = f /\ op'[m].at = op[m].at
           /\ op'[m].gen = op[m].gen /\ op'[m].copies = op[m].copies
           /\ \A n \in Forgettable : n # m => op'[n] = op[n]
BY DEF TypeOK, OpType

LEMMA CopiesIs ==
    ASSUME TypeOK, NEW m \in Forgettable, NEW c, op' = [op EXCEPT ![m].copies = c]
    PROVE  /\ op'[m].copies = c /\ op'[m].at = op[m].at
           /\ op'[m].gen = op[m].gen /\ op'[m].file = op[m].file
           /\ \A n \in Forgettable : n # m => op'[n] = op[n]
BY DEF TypeOK, OpType

LEMMA EndIs ==
    ASSUME TypeOK, NEW m \in Forgettable, NEW a, op' = [op EXCEPT ![m].at = a]
    PROVE  /\ op'[m].at = a /\ op'[m].copies = op[m].copies
           /\ op'[m].gen = op[m].gen /\ op'[m].file = op[m].file
           /\ \A n \in Forgettable : n # m => op'[n] = op[n]
BY DEF TypeOK, OpType

\* Only the memory a step is about, and the steps of its own Forget, change
\* its phase.
LEMMA PhasedOther ==
    ASSUME NEW n, Phased(n), run'[n] = run[n], op'[n] = op[n], gone \subseteq gone'
    PROVE  Phased(n)'
BY DEF Phased

LEMMA NotTheJob == \A m \in Forgettable : m # Job
BY CompileAssumption

\* What a Forget's own steps do to its phase.
LEMMA PropagatingPhased ==
    ASSUME TypeOK, NEW m \in Forgettable, Phased(m), gone' = gone, Propagating(m)
    PROVE  Phased(m)' /\ \A n \in Forgettable : n # m => run'[n] = run[n] /\ op'[n] = op[n]
<1>0. m \in Runners /\ Forgettable \subseteq Runners /\ run[m] \in RunType
  BY RunnersAre DEF TypeOK
<1>2. CASE StartForget(m)
  <2>1. CASE op[m].file # "pending"
    <3>1. run' = [run EXCEPT ![m].at = "list"] /\ op' = op /\ op[m].at = "pending"
      BY <1>2, <2>1 DEF StartForget
    <3>2. run'[m].at = "list"
      BY <1>0, <3>1, AtIs
    <3> QED
      BY <1>0, <3>1, <3>2, AtIs DEF Phased
  <2>2. CASE op[m].file = "pending" /\ ~On
    <3>1. /\ op' = [op EXCEPT ![m].file = "stopped"] /\ run' = [run EXCEPT ![m].at = "list"]
          /\ op[m].at = "pending"
      BY <1>2, <2>2 DEF StartForget
    <3>2. op'[m].at = "pending" /\ op'[m].file = "stopped" /\ run'[m].at = "list"
      BY <1>0, <3>1, AtIs, FileIs
    <3>3. Phased(m)'
      BY <3>1, <3>2 DEF Phased
    <3> QED
      BY <1>0, <3>1, <3>3, AtIs, FileIs
  <2>3. CASE op[m].file = "pending" /\ On /\ compiled < op[m].gen
    <3>1. PICK at \in {"settle", "put"} : Snapshot(m, at)
      BY <1>2, <2>3 DEF StartForget
    <3>2. [Idle EXCEPT !.at = at, !.gen = dirty, !.cites = kept].at = at
      BY DEF Idle
    <3> QED
      BY <1>0, <1>2, <2>3, <3>1, <3>2, AtSet DEF StartForget, Snapshot, Phased
  <2>4. CASE op[m].file = "pending" /\ On /\ ~(compiled < op[m].gen)
    <3>1. run' = [run EXCEPT ![m].at = "check"] /\ op' = op /\ op[m].at = "pending"
      BY <1>2, <2>4 DEF StartForget
    <3>2. run'[m].at = "check"
      BY <1>0, <3>1, AtIs
    <3> QED
      BY <1>0, <2>4, <3>1, <3>2, AtIs DEF Phased
  <2> QED
    BY <2>1, <2>2, <2>3, <2>4
<1>3. CASE CheckFile(m)
  <2>1. PICK f : /\ f \in {op[m].file, "failed", "done"}
                 /\ op' = [op EXCEPT ![m].file = f]
    BY <1>3 DEF CheckFile
  <2>2. run'[m].at = "list" /\ op'[m].file = f /\ op'[m].at = op[m].at
    <3>1. run' = [run EXCEPT ![m].at = "list"]
      BY <1>3 DEF CheckFile
    <3>2. run'[m].at = "list"
      BY <1>0, <3>1, AtIs
    <3> QED
      BY <2>1, <3>2, FileIs
  <2>3. Phased(m)'
    BY <1>3, <2>1, <2>2 DEF CheckFile, Phased
  <2> QED
    BY <1>0, <1>3, <2>1, <2>3, AtIs, FileIs DEF CheckFile
<1>4. CASE ListArtifacts(m)
  <2>1. run'[m].at \in {"redact", "end"}
    <3>1. [run[m] EXCEPT !.at = "redact", !.todo = {c.ref : c \in {d \in runs : m \in d.cites}}].at
             = "redact"
      BY <1>0 DEF RunType
    <3> QED
      BY <1>0, <1>4, <3>1, AtIs, AtSet DEF ListArtifacts
  <2> QED
    BY <1>0, <1>4, <2>1, AtIs, AtSet DEF ListArtifacts, Phased
<1>5. CASE LoadArtifact(m)
  <2>1. PICK k \in run[m].todo :
           run' = IF m \in store[k]
                    THEN [run EXCEPT ![m] = [@ EXCEPT !.at = "save", !.ref = k, !.held = store[k]]]
                    ELSE [run EXCEPT ![m].todo = @ \ {k}]
    BY <1>5 DEF LoadArtifact
  <2>2. /\ [run[m] EXCEPT !.at = "save", !.ref = k, !.held = store[k]].at = "save"
        /\ [run[m] EXCEPT !.todo = @ \ {k}].at = run[m].at
    BY <1>0 DEF RunType
  <2>3. run'[m].at \in {"save", "redact"}
    BY <1>0, <1>5, <2>1, <2>2, AtSet DEF LoadArtifact
  <2> QED
    BY <1>0, <1>5, <2>1, <2>3, AtSet DEF LoadArtifact, Phased
<1>6. CASE SaveArtifact(m)
  <2>1. [Idle EXCEPT !.at = "redact", !.todo = run[m].todo \ {run[m].ref}].at = "redact"
    BY DEF Idle
  <2> QED
    BY <1>0, <1>6, <2>1, AtSet DEF SaveArtifact, Phased
<1>7. CASE FinishArtifacts(m)
  <2>1. run'[m].at = "end" /\ op'[m].at = op[m].at /\ op'[m].file = op[m].file
    BY <1>0, <1>7, AtIs, CopiesIs DEF FinishArtifacts
  <2>2. Phased(m)'
    BY <1>7, <2>1 DEF FinishArtifacts, Phased
  <2> QED
    BY <1>0, <1>7, <2>2, AtIs, CopiesIs DEF FinishArtifacts
<1>8. CASE EndForget(m)
  <2>1. PICK a : /\ a \in {op[m].at, "done"}
                 /\ op' = [op EXCEPT ![m].at = a]
                 /\ op[m].file = "pending" => a = op[m].at
    BY <1>8 DEF EndForget
  <2>2. run' = [run EXCEPT ![m] = Idle]
    BY <1>8 DEF EndForget
  <2>3. run'[m].at = "idle" /\ op'[m].at = a /\ op'[m].file = op[m].file
    BY <1>0, <2>1, <2>2, AtSet, EndsAt, EndIs
  <2>4. Phased(m)'
    BY <1>8, <2>1, <2>3 DEF EndForget, Phased
  <2> QED
    BY <1>0, <2>1, <2>2, <2>4, AtSet, EndIs
<1> QED
  BY <1>2, <1>3, <1>4, <1>5, <1>6, <1>7, <1>8 DEF Propagating

LEMMA PhasedStep ==
    ASSUME TypeOK, Disjoint, \A m \in Forgettable : Phased(m), [Next]_vars
    PROVE  \A m \in Forgettable : Phased(m)'
<1> USE DisjointStep, RunnersAre, NotTheJob
<1>1. ASSUME UNCHANGED <<run, op>>
      PROVE  \A n \in Forgettable : Phased(n)'
  BY <1>1, PhasedOther
<1>2. ASSUME NEW m \in Memories, Keep(m) \/ Supersede(m)
      PROVE  \A n \in Forgettable : Phased(n)'
  BY <1>1, <1>2 DEF Keep, Supersede
<1>3. CASE requestCompile \/ Stop \/ Resume \/ EndJob \/ Rescue \/ Sweep
  BY <1>1, <1>3 DEF requestCompile, Stop, Resume, EndJob, Rescue, Sweep
<1>4. ASSUME NEW m \in Forgettable, ForgetReads(m)
      PROVE  \A n \in Forgettable : Phased(n)'
  <2> DEFINE file == IF m \in latest.cites THEN "held" ELSE "none"
  <2>1. file \in {"held", "none"} /\ op' = [op EXCEPT ![m] = [@ EXCEPT !.at = "open", !.file = file]]
    BY <1>4 DEF ForgetReads
  <2> HIDE DEF file
  <2>2. /\ [op[m] EXCEPT !.at = "open", !.file = file].at = "open"
        /\ [op[m] EXCEPT !.at = "open", !.file = file].file = file
    BY DEF TypeOK, OpType
  <2>3. op'[m].at = "open" /\ op'[m].file \in {"held", "none"} /\ run'[m] = run[m]
    BY <1>4, <2>1, <2>2, OpSet DEF ForgetReads
  <2>4. Phased(m)'
    BY <1>4, <2>3 DEF ForgetReads, Phased
  <2>5. \A n \in Forgettable : n # m => op'[n] = op[n] /\ run'[n] = run[n]
    BY <1>4, <2>1, OpSet DEF ForgetReads
  <2> QED
    BY <2>4, <2>5, PhasedOther
<1>5. ASSUME NEW m \in Forgettable, ForgetCommits(m)
      PROVE  \A n \in Forgettable : Phased(n)'
  <2>1. op' = [op EXCEPT ![m] = [at |-> "pending", gen |-> dirty', copies |-> "pending",
                 file |-> IF @.file = "none" THEN "none" ELSE IF On THEN "pending" ELSE "stopped"]]
    BY <1>5 DEF ForgetCommits, StepGeneration
  <2>2. op'[m].at = "pending" /\ \A n \in Forgettable : n # m => op'[n] = op[n]
    BY <2>1 DEF TypeOK
  <2>3. run' = run /\ m \in gone'
    BY <1>5 DEF ForgetCommits
  <2>4. Phased(m)'
    BY <1>5, <2>2, <2>3 DEF ForgetCommits, Phased
  <2> QED
    BY <2>2, <2>3, <2>4, PhasedOther
<1>6. CASE TakeJob
  BY <1>6, AtSet, PhasedOther DEF TakeJob, Snapshot
<1>7. ASSUME NEW r \in Runners, Compiling(r) \/ Refuse(r) \/ LoseAnswer(r) \/ Err(r) \/ Crash(r)
      PROVE  \A n \in Forgettable : Phased(n)'
  BY <1>7, CompilingAt, PhasedOther DEF Phased, record
<1>8. ASSUME NEW m \in Forgettable, Propagating(m)
      PROVE  \A n \in Forgettable : Phased(n)'
  <2>1. gone' = gone
    BY <1>8 DEF Propagating, StartForget, CheckFile, ListArtifacts, LoadArtifact, SaveArtifact,
                FinishArtifacts, EndForget, record
  <2> QED
    BY <1>8, <2>1, PropagatingPhased, PhasedOther
<1>9. CASE UNCHANGED vars
  BY <1>1, <1>9 DEF vars
<1> QED
  BY <1>2, <1>3, <1>4, <1>5, <1>6, <1>7, <1>8, <1>9 DEF Next

LEMMA SettlingBumps ==
    ASSUME TypeOK, Ordered, NEW r \in Runners, Settling(r), [Next]_vars,
           UNCHANGED <<latest, compiled>>, run'[r] = run[r],
           gone' = gone \/ dirty' = dirty + 1 \/ ~On'
    PROVE  Settling(r)'
<1>1. CASE UNCHANGED target
  BY <1>1, GensAreNat DEF Settling, Wanted, On, target, Ordered
<1>2. CASE Bumped \/ Stopped \/ Resumed
  BY <1>2, GensAreNat DEF Bumped, Stopped, Resumed, Settling, Wanted, On, Ordered
<1>3. ASSUME NEW s \in Runners, CaughtUp(s)
      PROVE  FALSE
  BY <1>3, GensAreNat DEF CaughtUp, Wanted
<1> QED
  BY <1>1, <1>2, <1>3, RowMoves DEF Row

\* A snapshot that settles finds the target where it should be, or its latest
\* run the same as what would be written.
LEMMA SnapshotSettles ==
    ASSUME TypeOK, Disjoint, \A s \in Runners : Settling(s),
           NEW r \in Runners, NEW at \in {"settle", "put"}, Snapshot(r, at),
           UNCHANGED <<target, latest, gone>>
    PROVE  \A s \in Runners : Settling(s)'
<1>1. [Idle EXCEPT !.at = at, !.gen = dirty, !.cites = kept].gen = dirty
      /\ [Idle EXCEPT !.at = at, !.gen = dirty, !.cites = kept].at = at
  BY DEF Idle
<1>2. run'[r].gen = dirty /\ run'[r].at = at /\ \A s \in Runners : s # r => run'[s] = run[s]
  BY <1>1, AtSet DEF Snapshot
<1>3. Settling(r)'
  <2>1. CASE at = "settle" /\ Unchanged
    BY <2>1 DEF Unchanged, Disjoint, Settling
  <2>2. CASE at = "settle" /\ ~Behind
    BY <1>2, <2>2 DEF Behind, Settling, Wanted, On, target
  <2>3. CASE at = "put"
    BY <1>2, <2>3 DEF Settling
  <2> QED
    BY <2>1, <2>2, <2>3 DEF Snapshot
<1>4. \A s \in Runners : s # r => Settling(s)'
  BY <1>2 DEF Settling, Wanted, On, target
<1> QED
  BY <1>3, <1>4

\* A run that is recorded is clean, or only says that compiling failed.
LEMMA RecordsClean ==
    ASSUME TypeOK, NEW r \in Runners, Records(r), ~MovedOn(r)
    PROVE  \/ latest'.cites \cap gone = {}
           \/ latest'.failed /\ latest'.cites = latest.cites
<1>1. CASE run[r].ref = 0
  BY <1>1 DEF Records, TypeOK
<1>2. CASE run[r].ref # 0
  BY <1>2 DEF Records, MovedOn
<1> QED
  BY <1>1, <1>2

LEMMA RecordsFacts ==
    ASSUME CleanInv, NEW r \in Runners, Wanted(r), Records(r), ~MovedOn(r),
           UNCHANGED <<record, op>>, run'[r].at # "settle",
           \A s \in Runners : s # r => run'[s] = run[s]
    PROVE  Facts'
<1>1. CaughtUp(r) /\ gone' = gone
  BY DEF CaughtUp, Records, record
<1>2. (On' <=> On) /\ dirty' = dirty /\ compiled < compiled'
  BY <1>1 DEF CaughtUp, Wanted, settledState, On
<1>3. ASSUME NEW m \in Forgettable
      PROVE  Waiting(m)'
  <2>1. op[m].file = "pending" => m \in gone
    BY DEF CleanInv, Phased
  <2> QED
    BY <1>1, <2>1, RecordsClean DEF Waiting, CleanInv
<1>4. RewrittenIsClean'
  <2>1. ASSUME NEW m \in Forgettable, op[m].file = "done"
        PROVE  m \in gone /\ m \notin latest.cites
    BY <2>1 DEF CleanInv, Phased, Facts, RewrittenIsClean
  <2> QED
    BY <1>1, <2>1, RecordsClean DEF RewrittenIsClean, CleanInv
<1>5. ASSUME NEW s \in Runners
      PROVE  Settling(s)'
  <2>1. CASE s = r
    BY <2>1 DEF Settling
  <2>2. CASE s # r
    <3>1. run'[s] = run[s] /\ Settling(s)
      BY <2>2 DEF CleanInv, Facts
    <3>2. compiled \in Nat /\ compiled' \in Nat /\ run[s].gen \in Nat
      BY <1>1, GensAreNat DEF CleanInv, CaughtUp
    <3>3. Wanted(s)' => Wanted(s)
      BY <1>2, <3>1, <3>2 DEF Wanted
    <3> QED
      BY <1>1, <1>2, <3>1, <3>3, RecordsClean DEF Settling, CleanInv
  <2> QED
    BY <2>1, <2>2
<1> QED
  BY <1>3, <1>4, <1>5 DEF Facts

LEMMA SettleFacts ==
    ASSUME CleanInv, NEW r \in Runners, Settle(r)
    PROVE  Facts'
<1>1. /\ latest' = latest /\ gone' = gone /\ op' = op /\ dirty' = dirty
      /\ run'[r].at # "settle" /\ \A s \in Runners : s # r => run'[s] = run[s]
  <2>1. Settle(r) => Compiling(r) /\ ~RecordNothing(r)
    BY DEF Compiling, Settle, RecordNothing
  <2> QED
    BY <2>1, CompilingAt DEF Settle, CleanInv, record, history
<1>2. CASE Wanted(r)
  <2>1. latest.cites \cap gone = {}
    BY <1>2 DEF Settle, CleanInv, Facts, Settling
  <2>2. \A m \in Forgettable : Waiting(m)'
    BY <1>1, <2>1 DEF CleanInv, Phased, Waiting
  <2>3. RewrittenIsClean'
    BY <1>1 DEF CleanInv, Facts, RewrittenIsClean
  <2>4. \A s \in Runners : Settling(s)'
    BY <1>1, <2>1 DEF Settling
  <2> QED
    BY <2>2, <2>3, <2>4 DEF Facts
<1>3. CASE ~Wanted(r)
  <2>1. compiled' = compiled /\ sync' = sync
    BY <1>3 DEF Settle
  <2>2. \A m \in Forgettable : Waiting(m)'
    BY <1>1, <2>1 DEF CleanInv, Facts, Waiting
  <2>3. RewrittenIsClean'
    BY <1>1 DEF CleanInv, Facts, RewrittenIsClean
  <2>4. ASSUME NEW s \in Runners
        PROVE  Settling(s)'
    BY <1>1, <2>1 DEF CleanInv, Facts, Settling, Wanted, On
  <2> QED
    BY <2>2, <2>3, <2>4 DEF Facts
<1> QED
  BY <1>2, <1>3

\* The steps of a compile that leave the row and its latest run alone.
LEMMA ArtifactFacts ==
    ASSUME CleanInv, NEW r \in Runners,
           PutArtifact(r) \/ RecordNothing(r) \/ RecordBehind(r) \/ SettleBehind(r)
             \/ Refuse(r) \/ Err(r) \/ Crash(r)
    PROVE  Facts'
<1>1. /\ UNCHANGED <<record, op, dirty>>
      /\ \A s \in Runners : s # r => run'[s] = run[s]
      /\ run'[r].at = "settle" => RecordNothing(r)
  BY CompilingAt DEF CleanInv, Compiling
<1>2. UNCHANGED <<target, latest>>
  BY DEF PutArtifact, RecordNothing, RecordBehind, SettleBehind, Refuse, Err, Crash, history
<1>3. Settling(r)'
  <2>1. CASE RecordNothing(r)
    <3>1. [run[r] EXCEPT !.at = "settle", !.ref = 0].gen = run[r].gen
      BY DEF CleanInv, TypeOK, RunType
    <3>2. run'[r].gen = run[r].gen
      BY <2>1, <3>1, AtSet DEF RecordNothing, CleanInv
    <3> QED
      BY <1>2, <2>1, <3>2 DEF RecordNothing, Settling, Wanted, On, target
  <2>2. CASE ~RecordNothing(r)
    BY <1>1, <2>2 DEF Settling
  <2> QED
    BY <2>1, <2>2
<1>4. \A s \in Runners : Settling(s)'
  BY <1>1, <1>2, <1>3 DEF CleanInv, Facts, Settling, Wanted, On, target, record
<1>5. (\A m \in Forgettable : Waiting(m)') /\ RewrittenIsClean'
  BY <1>1, <1>2 DEF CleanInv, Facts, Waiting, RewrittenIsClean, target
<1> QED
  BY <1>4, <1>5 DEF Facts

LEMMA PropagatingFacts ==
    ASSUME CleanInv, NEW m \in Forgettable, Propagating(m)
    PROVE  Facts'
<1>0. /\ TypeOK /\ Disjoint /\ m \in Runners /\ Forgettable \subseteq Runners
      /\ Phased(m) /\ \A s \in Runners : Settling(s)
  BY RunnersAre DEF CleanInv, Facts
<1>1. UNCHANGED <<target, latest, record>>
  BY DEF Propagating, StartForget, CheckFile, ListArtifacts, LoadArtifact, SaveArtifact,
         FinishArtifacts, EndForget, history
<1>2. gone' = gone /\ \A n \in Forgettable : n # m => run'[n] = run[n] /\ op'[n] = op[n]
  BY <1>0, <1>1, PropagatingPhased DEF record
<1>3. op'[m].gen = op[m].gen /\ (op'[m].file \in {"pending", "done"} => CheckFile(m) \/ op'[m].file = op[m].file)
  <2>1. CASE StartForget(m)
    BY <2>1, FileIs, <1>0 DEF StartForget
  <2>2. CASE CheckFile(m)
    <3>1. PICK f : op' = [op EXCEPT ![m].file = f]
      BY <2>2 DEF CheckFile
    <3> QED
      BY <1>0, <2>2, <3>1, FileIs
  <2>3. CASE ListArtifacts(m) \/ LoadArtifact(m) \/ SaveArtifact(m)
    BY <2>3 DEF ListArtifacts, LoadArtifact, SaveArtifact
  <2>4. CASE FinishArtifacts(m)
    BY <1>0, <2>4, CopiesIs DEF FinishArtifacts
  <2>5. CASE EndForget(m)
    <3>1. PICK a : op' = [op EXCEPT ![m].at = a]
      BY <2>5 DEF EndForget
    <3> QED
      BY <1>0, <3>1, EndIs
  <2> QED
    BY <2>1, <2>2, <2>3, <2>4, <2>5 DEF Propagating
<1>4. Waiting(m)' /\ (op'[m].file = "done" => m \notin latest'.cites)
  <2>1. CASE CheckFile(m)
    <3>1. op[m].file = "pending" /\ Waiting(m)
      BY <1>0, <2>1 DEF CheckFile, Phased, CleanInv, Facts
    <3> DEFINE f == IF compiled < op[m].gen THEN op[m].file
                    ELSE IF latest.failed THEN "failed" ELSE "done"
    <3>2. op' = [op EXCEPT ![m].file = f]
      BY <2>1 DEF CheckFile
    <3>3. op'[m].file = f
      <4> HIDE DEF f
      <4> QED
        BY <1>0, <3>2, FileIs
    <3>4. compiled \in Nat /\ op[m].gen \in Nat
      BY <1>0 DEF TypeOK, OpType
    <3> QED
      BY <1>1, <1>3, <3>1, <3>3, <3>4 DEF Waiting, target
  <2>2. CASE ~CheckFile(m)
    BY <1>1, <1>3, <2>2 DEF CleanInv, Facts, Waiting, RewrittenIsClean, target
  <2> QED
    BY <2>1, <2>2
<1>5. (\A n \in Forgettable : Waiting(n)') /\ RewrittenIsClean'
  BY <1>1, <1>2, <1>4 DEF CleanInv, Facts, Waiting, RewrittenIsClean, target
<1>6. \A s \in Runners : Settling(s)'
  <2>1. CASE \E at \in {"settle", "put"} : Snapshot(m, at)
    BY <1>0, <1>1, <2>1, SnapshotSettles DEF record
  <2>2. CASE ~\E at \in {"settle", "put"} : Snapshot(m, at)
    <3>1. run'[m].at # "settle" /\ \A s \in Runners : s # m => run'[s] = run[s]
      <4>1. CASE StartForget(m)
        <5>1. PICK at \in {"list", "check"} : run' = [run EXCEPT ![m].at = at]
          BY <2>2, <4>1 DEF StartForget
        <5> QED
          BY <1>0, <5>1, AtIs
      <4>2. CASE CheckFile(m)
        BY <1>0, <4>2, AtIs DEF CheckFile
      <4>3. CASE FinishArtifacts(m)
        BY <1>0, <4>3, AtIs DEF FinishArtifacts
      <4>4. CASE EndForget(m)
        <5>1. run' = [run EXCEPT ![m] = Idle]
          BY <4>4 DEF EndForget
        <5> QED
          BY <1>0, <5>1, AtSet, EndsAt
      <4>5. CASE ListArtifacts(m)
        <5>1. CASE op[m].copies = "pending"
          <6>1. [run[m] EXCEPT !.at = "redact", !.todo = {c.ref : c \in {d \in runs : m \in d.cites}}].at
                   = "redact"
            BY <1>0 DEF TypeOK, RunType
          <6> QED
            BY <1>0, <4>5, <5>1, <6>1, AtSet DEF ListArtifacts
        <5>2. CASE op[m].copies # "pending"
          BY <1>0, <4>5, <5>2, AtIs DEF ListArtifacts
        <5> QED
          BY <5>1, <5>2
      <4>6. CASE LoadArtifact(m)
        <5>1. PICK k \in run[m].todo :
                 run' = IF m \in store[k]
                          THEN [run EXCEPT ![m] = [@ EXCEPT !.at = "save", !.ref = k, !.held = store[k]]]
                          ELSE [run EXCEPT ![m].todo = @ \ {k}]
          BY <4>6 DEF LoadArtifact
        <5>2. /\ [run[m] EXCEPT !.at = "save", !.ref = k, !.held = store[k]].at = "save"
              /\ [run[m] EXCEPT !.todo = @ \ {k}].at = run[m].at
          BY <1>0 DEF TypeOK, RunType
        <5> QED
          BY <1>0, <4>6, <5>1, <5>2, AtSet DEF LoadArtifact
      <4>7. CASE SaveArtifact(m)
        <5>1. [Idle EXCEPT !.at = "redact", !.todo = run[m].todo \ {run[m].ref}].at = "redact"
          BY DEF Idle
        <5> QED
          BY <1>0, <4>7, <5>1, AtSet DEF SaveArtifact
      <4> QED
        BY <4>1, <4>2, <4>3, <4>4, <4>5, <4>6, <4>7 DEF Propagating
    <3> QED
      BY <1>0, <1>1, <3>1 DEF Settling, Wanted, On, target, record
  <2> QED
    BY <2>1, <2>2
<1> QED
  BY <1>5, <1>6 DEF Facts

LEMMA FactsStep ==
    ASSUME CleanInv, [Next]_vars
    PROVE  Facts'
<1> USE RunnersAre
<1>0. /\ TypeOK /\ Ordered /\ Disjoint /\ Facts /\ \A s \in Runners : Settling(s)
  BY DEF CleanInv, Facts
<1>1. ASSUME UNCHANGED <<latest, compiled, run, op>>,
             gone' = gone \/ dirty' = dirty + 1 \/ ~On'
      PROVE  Facts'
  <2>1. \A s \in Runners : Settling(s)'
    BY <1>0, <1>1, SettlingBumps
  <2> QED
    BY <1>0, <1>1, <2>1 DEF Facts, Waiting, RewrittenIsClean
<1>2. ASSUME NEW m \in Memories, Keep(m) \/ Supersede(m)
      PROVE  Facts'
  BY <1>1, <1>2 DEF Keep, Supersede, history
<1>3. CASE requestCompile \/ Stop \/ Resume \/ EndJob \/ Rescue \/ Sweep
  BY <1>1, <1>3 DEF requestCompile, Stop, Resume, EndJob, Rescue, Sweep, history, record, target
<1>4. ASSUME NEW m \in Forgettable, ForgetReads(m)
      PROVE  Facts'
  <2> DEFINE file == IF m \in latest.cites THEN "held" ELSE "none"
  <2>1. file \in {"held", "none"} /\ op' = [op EXCEPT ![m] = [@ EXCEPT !.at = "open", !.file = file]]
    BY <1>4 DEF ForgetReads
  <2> HIDE DEF file
  <2>2. op'[m].file \in {"held", "none"} /\ \A n \in Forgettable : n # m => op'[n] = op[n]
    <3>1. [op[m] EXCEPT !.at = "open", !.file = file].file = file
      BY <1>0 DEF TypeOK, OpType
    <3> QED
      BY <1>0, <2>1, <3>1, OpSet
  <2>3. \A s \in Runners : Settling(s)'
    BY <1>0, <1>4, SettlingBumps DEF ForgetReads, history, record, target
  <2>4. UNCHANGED <<latest, compiled>>
    BY <1>4 DEF ForgetReads, history, target
  <2> QED
    BY <1>0, <2>2, <2>3, <2>4 DEF Facts, Waiting, RewrittenIsClean
<1>5. ASSUME NEW m \in Forgettable, ForgetCommits(m)
      PROVE  Facts'
  <2>1. op' = [op EXCEPT ![m] = [at |-> "pending", gen |-> dirty', copies |-> "pending",
                 file |-> IF @.file = "none" THEN "none" ELSE IF On THEN "pending" ELSE "stopped"]]
    BY <1>5 DEF ForgetCommits, StepGeneration
  <2>2. /\ op'[m].file = "pending" => On
        /\ op'[m].gen = dirty' /\ op'[m].file # "done"
        /\ \A n \in Forgettable : n # m => op'[n] = op[n]
    BY <1>0, <2>1 DEF TypeOK
  <2>3. UNCHANGED <<latest, compiled, run>> /\ (On => dirty' = dirty + 1) /\ (On' <=> On)
    BY <1>5 DEF ForgetCommits, markDirty, history, On
  <2>4. Waiting(m)'
    BY <1>0, <2>2, <2>3, GensAreNat DEF Waiting, Ordered
  <2>5. \A s \in Runners : Settling(s)'
    BY <1>0, <2>3, SettlingBumps
  <2> QED
    BY <1>0, <2>2, <2>3, <2>4, <2>5 DEF Facts, Waiting, RewrittenIsClean
<1>6. CASE TakeJob
  <2>1. \A s \in Runners : Settling(s)'
    BY <1>0, <1>6, SnapshotSettles DEF TakeJob, record, history
  <2> QED
    BY <1>0, <1>6, <2>1 DEF TakeJob, history, target, Facts, Waiting, RewrittenIsClean
<1>7. ASSUME NEW r \in Runners, Compiling(r) \/ Refuse(r) \/ LoseAnswer(r) \/ Err(r) \/ Crash(r)
      PROVE  Facts'
  <2>1. CASE RecordRun(r) \/ LoseAnswer(r)
    <3>1. run'[r].at # "settle"
      BY <1>0, <1>7, <2>1, CompilingAt DEF RecordRun, LoseAnswer, RecordNothing
    <3>2. UNCHANGED <<record, op>> /\ \A s \in Runners : s # r => run'[s] = run[s]
      BY <1>0, <1>7, CompilingAt
    <3> QED
      BY <2>1, <3>1, <3>2, RecordsFacts DEF RecordRun, LoseAnswer
  <2>2. CASE Settle(r)
    BY <2>2, SettleFacts
  <2>3. CASE ~(RecordRun(r) \/ LoseAnswer(r) \/ Settle(r))
    BY <1>7, <2>3, ArtifactFacts DEF Compiling
  <2> QED
    BY <2>1, <2>2, <2>3
<1>8. ASSUME NEW m \in Forgettable, Propagating(m)
      PROVE  Facts'
  BY <1>8, PropagatingFacts
<1>9. CASE UNCHANGED vars
  BY <1>1, <1>9 DEF vars, history, record, target
<1> QED
  BY <1>2, <1>3, <1>4, <1>5, <1>6, <1>7, <1>8, <1>9 DEF Next

\* A file a Forget says was rewritten has a latest run without the memory
\* (forget/forget.go, Run; ledger/forget_job.go): whoever compiled past the
\* Forget, its own job, the compile job or another Forget's, read a record
\* without the memory, and settling on an older run is never taken for it.
THEOREM RewrittenFilesAreClean == Spec => []RewrittenIsClean
<1>1. Init => CleanInv
  <2> SUFFICES ASSUME Init
               PROVE  CleanInv
    OBVIOUS
  <2>1. TypeOK /\ Ordered /\ Disjoint
    BY RowInit DEF RowInv, Init, Disjoint
  <2>2. \A m \in Forgettable : Phased(m) /\ Waiting(m) /\ op[m].file # "done"
    <3>1. \A m \in Forgettable : op[m] = NoForget /\ run[m] = Idle
      BY RunnersAre DEF Init
    <3> QED
      BY <3>1 DEF Phased, Waiting, NoForget, Idle
  <2>3. \A s \in Runners : Settling(s)
    BY DEF Init, Settling
  <2> QED
    BY <2>1, <2>2, <2>3 DEF CleanInv, Facts, RewrittenIsClean
<1>2. CleanInv /\ [Next]_vars => CleanInv'
  BY TypeStep, OrderedStep, DisjointStep, PhasedStep, FactsStep DEF CleanInv
<1>3. CleanInv => RewrittenIsClean
  BY DEF CleanInv, Facts
<1> QED
  BY <1>1, <1>2, <1>3, PTL DEF Spec

----------------------------------------------------------------------------
\* A Forget that propagates alone reaches every copy

\* A compile that is about to record its artifact is the only one to hold its
\* reference, and it is as it was stored.
Fresh(r) ==
    /\ run[r].at \in {"put", "settle"} => run[r].ref = 0
    /\ run[r].at = "record" /\ run[r].ref # 0 =>
          /\ store[run[r].ref] = run[r].cites
          /\ \A c \in runs : c.ref # run[r].ref
          /\ \A s \in Runners : s # r /\ run[s].at = "record" => run[s].ref # run[r].ref

\* An artifact never holds more than its run cites.
Within == \A c \in runs : store[c.ref] \subseteq c.cites

\* While a Forget rewrites, every artifact that still holds its memory is
\* left to do.
Redacting(m) ==
    /\ op[m].copies # "none" => op[m].at \in {"pending", "done"}
    /\ run[m].at \in {"redact", "save"} =>
          /\ run[m].todo \subseteq {c.ref : c \in runs}
          /\ \A c \in runs : m \in store[c.ref] => c.ref \in run[m].todo
    /\ run[m].at = "save" =>
          /\ \E c \in runs : c.ref = run[m].ref
          /\ \A c \in runs : c.ref = run[m].ref => run[m].held \subseteq c.cites

Copied ==
    /\ \A r \in Runners : Fresh(r)
    /\ Within
    /\ \A m \in Forgettable : Redacting(m)
    /\ ForgottenIsGone
CopiesInv == TypeOK /\ Disjoint /\ (\A m \in Forgettable : Phased(m)) /\ Copied

\* A Forget whose job works, or has rewritten the copies, is about a memory
\* no later run cites.
LEMMA WorkingIsGone ==
    ASSUME CopiesInv, NEW m \in Forgettable, run[m].at # "idle" \/ op[m].copies = "done"
    PROVE  m \in gone
BY DEF CopiesInv, Copied, Redacting, Phased

\* What becomes of the copies when a runner takes its last or its first step:
\* its artifact may go, and its run may be recorded.
LEMMA EndsCopied ==
    ASSUME CopiesInv, NEW r \in Runners, NEW v,
           run' = [run EXCEPT ![r] = v],
           v.at \notin {"record", "redact", "save"}, v.at \in {"put", "settle"} => v.ref = 0,
           store' = store \/ (store' = Dropped(r) /\ run[r].at \in {"put", "record", "settle"}),
           \/ runs' = runs
           \/ /\ run[r].at = "record" /\ run[r].ref # 0 /\ run[r].cites \cap gone = {}
              /\ runs' = runs \cup {[ref |-> run[r].ref, cites |-> run[r].cites]},
           \A m \in Forgettable :
              /\ op'[m].copies = op[m].copies
              /\ op[m].at \in {"pending", "done"} => op'[m].at \in {"pending", "done"}
    PROVE  Copied'
<1>0. /\ TypeOK /\ run[r] \in RunType /\ Forgettable \subseteq Runners
      /\ run'[r] = v /\ \A s \in Runners : s # r => run'[s] = run[s]
  BY RunnersAre, AtSet DEF CopiesInv, TypeOK
<1>1. \A k \in Refs : store'[k] = store[k] \/ (store'[k] = {} /\ k = run[r].ref /\ run[r].at = "record")
  <2>1. CASE store' = store
    BY <2>1
  <2>2. CASE store' = Dropped(r) /\ run[r].at \in {"put", "record", "settle"}
    <3>1. CASE run[r].ref = 0
      BY <2>2, <3>1 DEF Dropped
    <3>2. CASE run[r].ref # 0
      <4>1. run[r].at = "record"
        BY <2>2, <3>2 DEF CopiesInv, Copied, Fresh
      <4>2. store' = [store EXCEPT ![run[r].ref] = {}] /\ store \in Seq(SUBSET Memories)
        BY <1>0, <2>2, <3>2 DEF Dropped, TypeOK
      <4> QED
        BY <4>1, <4>2 DEF Refs
    <3> QED
      BY <3>1, <3>2
  <2> QED
    BY <2>1, <2>2
<1>2. \A c \in runs : c.ref \in Refs /\ c.cites \subseteq Memories
  BY <1>0 DEF TypeOK
<1>3. \A c \in runs' :
         \/ c \in runs
         \/ /\ c.ref = run[r].ref /\ c.cites = run[r].cites
            /\ run[r].at = "record" /\ c.ref # 0 /\ c.ref \in Refs
            /\ store[c.ref] = c.cites /\ c.cites \cap gone = {}
  <2>1. Fresh(r)
    BY DEF CopiesInv, Copied
  <2>2. run[r].ref \in Refs \cup {0}
    BY <1>0 DEF RunType
  <2>3. CASE runs' = runs
    BY <2>3
  <2>4. CASE /\ run[r].at = "record" /\ run[r].ref # 0 /\ run[r].cites \cap gone = {}
             /\ runs' = runs \cup {[ref |-> run[r].ref, cites |-> run[r].cites]}
    BY <2>1, <2>2, <2>4 DEF Fresh
  <2> QED
    BY <2>3, <2>4
<1>4. ASSUME NEW s \in Runners
      PROVE  Fresh(s)'
  <2>1. CASE s = r
    BY <1>0, <2>1 DEF Fresh
  <2>2. CASE s # r
    <3>1. run'[s] = run[s] /\ Fresh(s) /\ run[s].ref \in Refs \cup {0}
      BY <1>0, <2>2 DEF CopiesInv, Copied, TypeOK, RunType
    <3>2. run[s].at = "record" /\ run[s].ref # 0 => run[s].ref # run[r].ref \/ run[r].at # "record"
      BY <2>2, <3>1 DEF Fresh
    <3>3. run[s].at = "record" /\ run[s].ref # 0 => store'[run[s].ref] = run[s].cites
      BY <1>1, <3>1, <3>2 DEF Fresh
    <3>4. run[s].at = "record" /\ run[s].ref # 0 => \A c \in runs' : c.ref # run[s].ref
      BY <1>3, <3>1, <3>2 DEF Fresh
    <3>5. run[s].at = "record" /\ run[s].ref # 0 =>
             \A t \in Runners : t # s /\ run'[t].at = "record" => run'[t].ref # run[s].ref
      BY <1>0, <3>1 DEF Fresh
    <3> QED
      BY <3>1, <3>3, <3>4, <3>5 DEF Fresh
  <2> QED
    BY <2>1, <2>2
<1>5. Within'
  BY <1>1, <1>2, <1>3 DEF CopiesInv, Copied, Within
<1>6. ASSUME NEW m \in Forgettable
      PROVE  Redacting(m)'
  <2>1. CASE m = r
    BY <1>0, <2>1 DEF CopiesInv, Copied, Redacting
  <2>2. CASE m # r
    <3>1. run'[m] = run[m] /\ Redacting(m)
      BY <1>0, <2>2 DEF CopiesInv, Copied
    <3>2. runs \subseteq runs'
      OBVIOUS
    <3>3. run[m].at \in {"redact", "save"} => \A c \in runs' : m \in store'[c.ref] => c.ref \in run[m].todo
      <4>1. run[m].at \in {"redact", "save"} => m \in gone
        BY WorkingIsGone
      <4> QED
        BY <1>1, <1>2, <1>3, <3>1, <4>1 DEF Redacting
    <3>4. run[m].at = "save" => \A c \in runs' : c.ref = run[m].ref => run[m].held \subseteq c.cites
      <4>1. run[m].at = "save" => \A c \in runs' : c.ref = run[m].ref => c \in runs
        BY <1>0, <1>3, <3>1 DEF Redacting, CopiesInv, Copied, Fresh
      <4> QED
        BY <3>1, <4>1 DEF Redacting
    <3> QED
      BY <3>1, <3>2, <3>3, <3>4 DEF Redacting
  <2> QED
    BY <2>1, <2>2
<1>7. ForgottenIsGone'
  <2>1. ASSUME NEW m \in Forgettable, op'[m].copies = "done", NEW c \in runs'
        PROVE  m \notin store'[c.ref]
    <3>1. op[m].copies = "done" /\ m \in gone
      BY <2>1, WorkingIsGone
    <3> QED
      BY <1>1, <1>2, <1>3, <3>1 DEF CopiesInv, Copied, ForgottenIsGone
  <2> QED
    BY <2>1 DEF ForgottenIsGone
<1> QED
  BY <1>4, <1>5, <1>6, <1>7 DEF Copied

\* What becomes of the copies when nothing about them or the compiles changes.
LEMMA SameCopies ==
    ASSUME CopiesInv, UNCHANGED <<runs, store, run>>,
           \A m \in Forgettable :
              /\ op'[m].copies = op[m].copies \/ (op'[m].copies = "pending" /\ op'[m].at = "pending")
              /\ op[m].at \in {"pending", "done"} => op'[m].at \in {"pending", "done"}
    PROVE  Copied'
<1>1. \A m \in Forgettable : op'[m].copies \in {"none", "done"} => op'[m].copies = op[m].copies
  OBVIOUS
<1>2. (\A r \in Runners : Fresh(r)') /\ Within'
  BY DEF CopiesInv, Copied, Fresh, Within
<1>3. \A m \in Forgettable : Redacting(m)'
  BY DEF CopiesInv, Copied, Redacting
<1>4. ForgottenIsGone'
  BY <1>1 DEF CopiesInv, Copied, ForgottenIsGone
<1> QED
  BY <1>2, <1>3, <1>4 DEF Copied

LEMMA PutCopied ==
    ASSUME CopiesInv, NEW r \in Runners, PutArtifact(r)
    PROVE  Copied'
<1>0. TypeOK /\ run[r] \in RunType /\ Forgettable \subseteq Runners
  BY RunnersAre DEF CopiesInv, TypeOK
<1>1. /\ store' = Append(store, run[r].cites) /\ runs' = runs /\ op' = op
      /\ run' = [run EXCEPT ![r] = [@ EXCEPT !.at = "record", !.ref = Len(store')]]
  BY DEF PutArtifact, history
<1>2. /\ Len(store) \in Nat /\ Len(store') = Len(store) + 1
      /\ store'[Len(store')] = run[r].cites
      /\ \A k \in Refs : store'[k] = store[k] /\ k # Len(store')
  BY <1>0, <1>1 DEF TypeOK, RunType, Refs
<1>3. /\ run'[r].at = "record" /\ run'[r].ref = Len(store') /\ run'[r].cites = run[r].cites
      /\ \A s \in Runners : s # r => run'[s] = run[s]
  <2>1. /\ [run[r] EXCEPT !.at = "record", !.ref = Len(store')].at = "record"
        /\ [run[r] EXCEPT !.at = "record", !.ref = Len(store')].ref = Len(store')
        /\ [run[r] EXCEPT !.at = "record", !.ref = Len(store')].cites = run[r].cites
    BY <1>0 DEF RunType
  <2> QED
    BY <1>0, <1>1, <2>1, AtSet
<1>4. \A c \in runs : c.ref \in Refs
  BY <1>0 DEF TypeOK
<1>5. \A s \in Runners : run[s].ref \in Refs \cup {0} /\ 0 # Len(store')
  BY <1>0, <1>2 DEF TypeOK, RunType
<1>6. ASSUME NEW s \in Runners
      PROVE  Fresh(s)'
  <2>1. CASE s = r
    BY <1>1, <1>2, <1>3, <1>4, <1>5, <2>1 DEF Fresh
  <2>2. CASE s # r
    <3>1. run'[s] = run[s] /\ Fresh(s) /\ (run[s].ref # 0 => run[s].ref \in Refs)
      BY <1>3, <1>5, <2>2 DEF CopiesInv, Copied
    <3>2. run[s].at = "record" /\ run[s].ref # 0 =>
             \A t \in Runners : t # s /\ run'[t].at = "record" => run'[t].ref # run[s].ref
      BY <1>2, <1>3, <3>1 DEF Fresh
    <3> QED
      BY <1>1, <1>2, <3>1, <3>2 DEF Fresh
  <2> QED
    BY <2>1, <2>2
<1>7. Within'
  BY <1>1, <1>2, <1>4 DEF CopiesInv, Copied, Within
<1>8. ASSUME NEW m \in Forgettable
      PROVE  Redacting(m)'
  <2>1. CASE m = r
    BY <1>1, <1>3, <2>1 DEF CopiesInv, Copied, Redacting
  <2>2. CASE m # r
    <3>1. run'[m] = run[m] /\ op'[m] = op[m] /\ Redacting(m)
      BY <1>0, <1>1, <1>3, <2>2 DEF CopiesInv, Copied
    <3>2. \A c \in runs : store'[c.ref] = store[c.ref]
      BY <1>2, <1>4
    <3> QED
      BY <1>1, <3>1, <3>2 DEF Redacting
  <2> QED
    BY <2>1, <2>2
<1>9. ForgottenIsGone'
  BY <1>1, <1>2, <1>4 DEF CopiesInv, Copied, ForgottenIsGone
<1> QED
  BY <1>6, <1>7, <1>8, <1>9 DEF Copied

LEMMA RefuseCopied ==
    ASSUME CopiesInv, NEW r \in Runners, Refuse(r)
    PROVE  Copied'
<1>0. TypeOK /\ run[r] \in RunType /\ Forgettable \subseteq Runners
  BY RunnersAre DEF CopiesInv, TypeOK
<1>1. run[r].ref = 0
  BY DEF CopiesInv, Copied, Fresh, Refuse
<1>2. /\ run'[r].at = "record" /\ run'[r].ref = 0
      /\ \A s \in Runners : s # r => run'[s] = run[s]
  <2>1. /\ [run[r] EXCEPT !.at = "record", !.cites = {}].at = "record"
        /\ [run[r] EXCEPT !.at = "record", !.cites = {}].ref = run[r].ref
    BY <1>0 DEF RunType
  <2> QED
    BY <1>0, <1>1, <2>1, AtSet DEF Refuse
<1>3. UNCHANGED <<runs, store, op>>
  BY DEF Refuse, history
<1>4. \A s \in Runners : Fresh(s)'
  BY <1>2, <1>3 DEF CopiesInv, Copied, Fresh
<1>5. Within' /\ ForgottenIsGone'
  BY <1>3 DEF CopiesInv, Copied, Within, ForgottenIsGone
<1>6. \A m \in Forgettable : Redacting(m)'
  BY <1>0, <1>2, <1>3 DEF CopiesInv, Copied, Redacting
<1> QED
  BY <1>4, <1>5, <1>6 DEF Copied

\* A step of a Forget's job in its own phases, which stores no artifact.
LEMMA ReaderCopied ==
    ASSUME CopiesInv, NEW m \in Forgettable, ListArtifacts(m) \/ LoadArtifact(m)
    PROVE  Copied'
<1>0. TypeOK /\ run[m] \in RunType /\ m \in Runners /\ Forgettable \subseteq Runners
  BY RunnersAre DEF CopiesInv, TypeOK
<1>1. UNCHANGED <<runs, store, op>>
  BY DEF ListArtifacts, LoadArtifact, history
<1>2. PICK v : run' = [run EXCEPT ![m] = v]
  <2>1. CASE ListArtifacts(m)
    BY <2>1 DEF ListArtifacts
  <2>2. CASE LoadArtifact(m)
    BY <2>2 DEF LoadArtifact
  <2> QED
    BY <2>1, <2>2
<1>3. run'[m] = v /\ \A s \in Runners : s # m => run'[s] = run[s]
  BY <1>0, <1>2, AtSet
<1>4. Redacting(m)' /\ run'[m].at \in {"redact", "save", "end"}
  <2>1. CASE ListArtifacts(m) /\ op[m].copies = "pending"
    <3>1. run' = [run EXCEPT ![m] = [@ EXCEPT
                     !.at = "redact", !.todo = {c.ref : c \in {d \in runs : m \in d.cites}}]]
      BY <2>1 DEF ListArtifacts
    <3>2. run'[m].at = "redact" /\ run'[m].todo = {c.ref : c \in {d \in runs : m \in d.cites}}
      BY <1>0, <3>1 DEF TypeOK, RunType
    <3> QED
      BY <1>1, <3>2 DEF CopiesInv, Copied, Within, Redacting
  <2>2. CASE ListArtifacts(m) /\ op[m].copies # "pending"
    <3>1. run' = [run EXCEPT ![m].at = "end"]
      BY <2>2 DEF ListArtifacts
    <3>2. run'[m].at = "end" /\ op'[m] = op[m] /\ Redacting(m)
      BY <1>0, <1>1, <3>1, AtIs DEF CopiesInv, Copied
    <3> QED
      BY <3>2 DEF Redacting
  <2>3. CASE LoadArtifact(m)
    <3>1. PICK k \in run[m].todo :
             run' = IF m \in store[k]
                      THEN [run EXCEPT ![m] = [@ EXCEPT !.at = "save", !.ref = k, !.held = store[k]]]
                      ELSE [run EXCEPT ![m].todo = @ \ {k}]
      BY <2>3 DEF LoadArtifact
    <3>2. CASE m \in store[k]
      <4>1. /\ run'[m].at = "save" /\ run'[m].ref = k /\ run'[m].held = store[k]
            /\ run'[m].todo = run[m].todo
        BY <1>0, <3>1, <3>2 DEF TypeOK, RunType
      <4> QED
        <5>1. run[m].at = "redact" /\ Redacting(m)
          BY <2>3 DEF LoadArtifact, CopiesInv, Copied
        <5>2. \E c \in runs : c.ref = k
          BY <3>1, <5>1 DEF Redacting
        <5>3. \A c \in runs : c.ref = k => store[k] \subseteq c.cites
          BY DEF CopiesInv, Copied, Within
        <5> QED
          BY <1>1, <4>1, <5>1, <5>2, <5>3 DEF Redacting
    <3>3. CASE m \notin store[k]
      <4>1. run'[m].at = "redact" /\ run'[m].todo = run[m].todo \ {k}
        BY <1>0, <2>3, <3>1, <3>3 DEF LoadArtifact, TypeOK, RunType
      <4> QED
        BY <1>1, <2>3, <3>3, <4>1 DEF LoadArtifact, CopiesInv, Copied, Redacting
    <3> QED
      BY <3>2, <3>3
  <2> QED
    BY <2>1, <2>2, <2>3
<1>5. \A s \in Runners : Fresh(s)'
  BY <1>0, <1>1, <1>3, <1>4 DEF CopiesInv, Copied, Fresh
<1>6. \A n \in Forgettable : Redacting(n)'
  BY <1>0, <1>1, <1>3, <1>4 DEF CopiesInv, Copied, Redacting
<1>7. Within' /\ ForgottenIsGone'
  BY <1>1 DEF CopiesInv, Copied, Within, ForgottenIsGone
<1> QED
  BY <1>5, <1>6, <1>7 DEF Copied

\* The one step that needs the Forget to be alone: what it writes back is
\* what it read, without its own memory only.
Alone == \A m, n \in Forgettable : m = n

LEMMA SaveCopied ==
    ASSUME CopiesInv, Alone, NEW m \in Forgettable, SaveArtifact(m)
    PROVE  Copied'
<1>0. TypeOK /\ run[m] \in RunType /\ m \in Runners /\ Forgettable \subseteq Runners
  BY RunnersAre DEF CopiesInv, TypeOK
<1>1. runs' = runs /\ op' = op /\ run[m].at = "save" /\ Redacting(m)
  BY DEF SaveArtifact, history, CopiesInv, Copied
<1>2. PICK c0 \in runs : c0.ref = run[m].ref
  BY <1>1 DEF Redacting
<1>3. /\ run[m].ref \in Refs /\ store'[run[m].ref] = run[m].held \ {m}
      /\ \A k \in Refs : k # run[m].ref => store'[k] = store[k]
  BY <1>0, <1>2 DEF SaveArtifact, Stripped, TypeOK, Refs
<1>4. \A c \in runs : c.ref \in Refs
  BY <1>0 DEF TypeOK
<1>5. /\ run'[m].at = "redact" /\ run'[m].todo = run[m].todo \ {run[m].ref}
      /\ \A s \in Runners : s # m => run'[s] = run[s]
  <2>1. /\ [Idle EXCEPT !.at = "redact", !.todo = run[m].todo \ {run[m].ref}].at = "redact"
        /\ [Idle EXCEPT !.at = "redact", !.todo = run[m].todo \ {run[m].ref}].todo = run[m].todo \ {run[m].ref}
    BY DEF Idle
  <2> QED
    BY <1>0, <2>1, AtSet DEF SaveArtifact
<1>6. ASSUME NEW s \in Runners
      PROVE  Fresh(s)'
  <2>1. CASE s = m
    BY <1>5, <2>1 DEF Fresh
  <2>2. CASE s # m
    <3>1. run'[s] = run[s] /\ Fresh(s) /\ (run[s].ref # 0 => run[s].ref \in Refs)
      BY <1>0, <1>5, <2>2 DEF CopiesInv, Copied, TypeOK, RunType
    <3>2. run[s].at = "record" /\ run[s].ref # 0 => run[s].ref # run[m].ref
      BY <1>2, <3>1 DEF Fresh
    <3>3. run[s].at = "record" /\ run[s].ref # 0 =>
             \A t \in Runners : t # s /\ run'[t].at = "record" => run'[t].ref # run[s].ref
      BY <1>5, <3>1 DEF Fresh
    <3> QED
      BY <1>1, <1>3, <3>1, <3>2, <3>3 DEF Fresh
  <2> QED
    BY <2>1, <2>2
<1>7. Within'
  BY <1>1, <1>3, <1>4 DEF CopiesInv, Copied, Within, Redacting
<1>8. \A c \in runs : m \in store'[c.ref] => c.ref \in run[m].todo \ {run[m].ref}
  BY <1>1, <1>3, <1>4 DEF Redacting
<1>9. ASSUME NEW n \in Forgettable
      PROVE  Redacting(n)'
  <2>1. n = m
    BY DEF Alone
  <2> QED
    BY <1>1, <1>5, <1>8, <2>1 DEF Redacting
<1>10. ForgottenIsGone'
  BY <1>1, <1>3, <1>4 DEF CopiesInv, Copied, ForgottenIsGone, Alone
<1> QED
  BY <1>6, <1>7, <1>9, <1>10 DEF Copied

LEMMA FinishCopied ==
    ASSUME CopiesInv, NEW m \in Forgettable, FinishArtifacts(m)
    PROVE  Copied'
<1>0. TypeOK /\ run[m] \in RunType /\ m \in Runners /\ Forgettable \subseteq Runners
  BY RunnersAre DEF CopiesInv, TypeOK
<1>1. /\ runs' = runs /\ store' = store /\ run[m].at = "redact" /\ run[m].todo = {} /\ Redacting(m)
      /\ op[m].at = "pending" /\ run' = [run EXCEPT ![m].at = "end"]
      /\ op' = [op EXCEPT ![m].copies = "done"]
  BY DEF FinishArtifacts, history, CopiesInv, Copied, Phased
<1>2. /\ run'[m].at = "end" /\ \A s \in Runners : s # m => run'[s] = run[s]
      /\ op'[m].copies = "done" /\ op'[m].at = op[m].at /\ \A n \in Forgettable : n # m => op'[n] = op[n]
  BY <1>0, <1>1, AtIs, CopiesIs
<1>3. \A c \in runs : m \notin store[c.ref]
  BY <1>1 DEF Redacting
<1>4. \A s \in Runners : Fresh(s)'
  BY <1>1, <1>2 DEF CopiesInv, Copied, Fresh
<1>5. Within'
  BY <1>1 DEF CopiesInv, Copied, Within
<1>6. \A n \in Forgettable : Redacting(n)'
  BY <1>0, <1>1, <1>2 DEF CopiesInv, Copied, Redacting
<1>7. ForgottenIsGone'
  BY <1>1, <1>2, <1>3 DEF CopiesInv, Copied, ForgottenIsGone
<1> QED
  BY <1>4, <1>5, <1>6, <1>7 DEF Copied

LEMMA CompilingCopied ==
    ASSUME CopiesInv, NEW r \in Runners,
           RecordNothing(r) \/ RecordBehind(r) \/ RecordRun(r) \/ LoseAnswer(r)
             \/ Settle(r) \/ SettleBehind(r) \/ Err(r) \/ Crash(r)
    PROVE  Copied'
<1>0. TypeOK /\ run[r] \in RunType /\ op' = op
  BY DEF CopiesInv, TypeOK, RecordNothing, RecordBehind, RecordRun, LoseAnswer, Settle, SettleBehind, Err, Crash
<1>1. CASE RecordNothing(r)
  <2> DEFINE v == [run[r] EXCEPT !.at = "settle", !.ref = 0]
  <2>1. v.at = "settle" /\ v.ref = 0
    BY <1>0 DEF RunType
  <2>2. run' = [run EXCEPT ![r] = v]
    BY <1>1 DEF RecordNothing
  <2> HIDE DEF v
  <2> QED
    BY <1>0, <1>1, <2>1, <2>2, EndsCopied DEF RecordNothing, history
<1>2. CASE RecordBehind(r) \/ SettleBehind(r) \/ Settle(r) \/ Err(r) \/ Crash(r)
  <2>1. PICK v \in {Failed(r), Done(r), Idle} : run' = [run EXCEPT ![r] = v]
    BY <1>2 DEF RecordBehind, SettleBehind, Settle, Err, Crash
  <2>2. v.at \notin {"record", "redact", "save", "put", "settle"}
    BY EndsAt
  <2>3. runs' = runs
    BY <1>2 DEF RecordBehind, SettleBehind, Settle, Err, Crash, history
  <2>4. store' = store \/ (store' = Dropped(r) /\ run[r].at \in {"put", "record", "settle"})
    BY <1>2 DEF RecordBehind, SettleBehind, Settle, Err, Crash
  <2> QED
    BY <1>0, <2>1, <2>2, <2>3, <2>4, EndsCopied
<1>3. CASE RecordRun(r) \/ LoseAnswer(r)
  <2>1. PICK v \in {Failed(r), Done(r)} : run' = [run EXCEPT ![r] = v]
    BY <1>3 DEF RecordRun, LoseAnswer
  <2>2. v.at \notin {"record", "redact", "save", "put", "settle"}
    BY EndsAt
  <2>3. \/ runs' = runs
        \/ /\ run[r].at = "record" /\ run[r].ref # 0 /\ run[r].cites \cap gone = {}
           /\ runs' = runs \cup {[ref |-> run[r].ref, cites |-> run[r].cites]}
    BY <1>3 DEF RecordRun, LoseAnswer, Records, MovedOn
  <2>4. store' = store \/ (store' = Dropped(r) /\ run[r].at \in {"put", "record", "settle"})
    BY <1>3 DEF RecordRun, LoseAnswer
  <2> QED
    BY <1>0, <2>1, <2>2, <2>3, <2>4, EndsCopied
<1> QED
  BY <1>1, <1>2, <1>3

LEMMA SnapshotCopied ==
    ASSUME CopiesInv, NEW r \in Runners, NEW at \in {"settle", "put"}, Snapshot(r, at),
           UNCHANGED <<runs, store, op>>
    PROVE  Copied'
<1> DEFINE v == [Idle EXCEPT !.at = at, !.gen = dirty, !.cites = kept]
<1>1. v.at = at /\ v.ref = 0
  BY DEF Idle
<1>2. run' = [run EXCEPT ![r] = v]
  BY DEF Snapshot
<1> HIDE DEF v
<1> QED
  BY <1>1, <1>2, EndsCopied

\* The steps of a Forget's job that touch no copy.
LEMMA FilingCopied ==
    ASSUME CopiesInv, NEW m \in Forgettable, StartForget(m) \/ CheckFile(m) \/ EndForget(m)
    PROVE  Copied'
<1>0. TypeOK /\ run[m] \in RunType /\ m \in Runners /\ runs' = runs /\ store' = store
  BY RunnersAre DEF CopiesInv, TypeOK, StartForget, CheckFile, EndForget, history
<1>1. CASE \E at \in {"settle", "put"} : Snapshot(m, at) /\ op' = op
  BY <1>0, <1>1, SnapshotCopied
<1>2. ASSUME NEW at \in {"list", "check"}, run' = [run EXCEPT ![m].at = at],
             NEW f, op' = op \/ op' = [op EXCEPT ![m].file = f]
      PROVE  Copied'
  <2> DEFINE v == [run[m] EXCEPT !.at = at]
  <2>1. v.at = at
    BY <1>0 DEF RunType
  <2>2. run' = [run EXCEPT ![m] = v]
    BY <1>2
  <2>3. \A n \in Forgettable : op'[n].copies = op[n].copies /\ op'[n].at = op[n].at
    BY <1>0, <1>2, FileIs
  <2> HIDE DEF v
  <2> QED
    BY <1>0, <2>1, <2>2, <2>3, EndsCopied
<1>3. CASE StartForget(m)
  <2>1. CASE op[m].file # "pending"
    BY <1>2, <1>3, <2>1 DEF StartForget
  <2>2. CASE op[m].file = "pending" /\ ~On
    BY <1>2, <1>3, <2>2 DEF StartForget
  <2>3. CASE op[m].file = "pending" /\ On /\ compiled < op[m].gen
    BY <1>1, <1>3, <2>3 DEF StartForget
  <2>4. CASE op[m].file = "pending" /\ On /\ ~(compiled < op[m].gen)
    BY <1>2, <1>3, <2>4 DEF StartForget
  <2> QED
    BY <2>1, <2>2, <2>3, <2>4
<1>4. CASE CheckFile(m)
  <2>1. PICK f : op' = [op EXCEPT ![m].file = f]
    BY <1>4 DEF CheckFile
  <2> QED
    BY <1>2, <1>4, <2>1 DEF CheckFile
<1>5. CASE EndForget(m)
  <2>1. PICK a : /\ a \in {op[m].at, "done"}
                 /\ op' = [op EXCEPT ![m].at = a]
    BY <1>5 DEF EndForget
  <2>2. \A n \in Forgettable :
           /\ op'[n].copies = op[n].copies
           /\ op[n].at \in {"pending", "done"} => op'[n].at \in {"pending", "done"}
    BY <1>0, <2>1, EndIs
  <2>3. run' = [run EXCEPT ![m] = Idle]
    BY <1>5 DEF EndForget
  <2> QED
    BY <1>0, <2>2, <2>3, EndsAt, EndsCopied
<1> QED
  BY <1>3, <1>4, <1>5

LEMMA CopiesStep ==
    ASSUME CopiesInv, Alone, [Next]_vars
    PROVE  Copied'
<1>0. TypeOK
  BY DEF CopiesInv
<1>1. ASSUME UNCHANGED <<runs, store, run, op>>
      PROVE  Copied'
  BY <1>1, SameCopies
<1>2. ASSUME NEW m \in Memories, Keep(m) \/ Supersede(m)
      PROVE  Copied'
  BY <1>1, <1>2 DEF Keep, Supersede, history
<1>3. CASE requestCompile \/ Stop \/ Resume \/ EndJob \/ Rescue \/ Sweep
  BY <1>1, <1>3 DEF requestCompile, Stop, Resume, EndJob, Rescue, Sweep, history
<1>4. ASSUME NEW m \in Forgettable, ForgetReads(m)
      PROVE  Copied'
  <2> DEFINE v == [op[m] EXCEPT !.at = "open", !.file = IF m \in latest.cites THEN "held" ELSE "none"]
  <2>1. v.copies = op[m].copies
    BY <1>0 DEF TypeOK, OpType
  <2>2. op' = [op EXCEPT ![m] = v]
    BY <1>4 DEF ForgetReads
  <2>3. op[m].at = "no" /\ UNCHANGED <<runs, store, run>>
    BY <1>4 DEF ForgetReads, history
  <2> HIDE DEF v
  <2>4. op'[m] = v /\ \A n \in Forgettable : n # m => op'[n] = op[n]
    BY <1>0, <2>2, OpSet
  <2> QED
    BY <2>1, <2>3, <2>4, SameCopies
<1>5. ASSUME NEW m \in Forgettable, ForgetCommits(m)
      PROVE  Copied'
  <2>1. op' = [op EXCEPT ![m] = [at |-> "pending", gen |-> dirty', copies |-> "pending",
                 file |-> IF @.file = "none" THEN "none" ELSE IF On THEN "pending" ELSE "stopped"]]
    BY <1>5 DEF ForgetCommits, StepGeneration
  <2>2. /\ op'[m].at = "pending" /\ op'[m].copies = "pending"
        /\ \A n \in Forgettable : n # m => op'[n] = op[n]
    BY <1>0, <2>1 DEF TypeOK
  <2>3. UNCHANGED <<runs, store, run>>
    BY <1>5 DEF ForgetCommits, history
  <2> QED
    BY <2>2, <2>3, SameCopies
<1>6. CASE TakeJob
  BY <1>6, SnapshotCopied, RunnersAre DEF TakeJob, history
<1>7. ASSUME NEW r \in Runners, Compiling(r) \/ Refuse(r) \/ LoseAnswer(r) \/ Err(r) \/ Crash(r)
      PROVE  Copied'
  BY <1>7, PutCopied, RefuseCopied, CompilingCopied DEF Compiling
<1>8. ASSUME NEW m \in Forgettable, Propagating(m)
      PROVE  Copied'
  BY <1>8, FilingCopied, ReaderCopied, SaveCopied, FinishCopied DEF Propagating
<1>9. CASE UNCHANGED vars
  BY <1>1, <1>9 DEF vars, history
<1> QED
  BY <1>2, <1>3, <1>4, <1>5, <1>6, <1>7, <1>8, <1>9 DEF Next

\* A Forget that propagates with no other beside it rewrites every stored
\* copy for good (compile/forget.go, RedactArtifacts), whatever compiles,
\* crashes and failures run beside it; two that propagate together do not
\* (the run that violates ForgottenIsGone).
THEOREM AloneReachesEveryCopy ==
    ASSUME Alone
    PROVE  Spec => []ForgottenIsGone
<1>1. Init => CopiesInv
  <2> SUFFICES ASSUME Init
               PROVE  CopiesInv
    OBVIOUS
  <2>1. \A m \in Forgettable : op[m] = NoForget
    BY DEF Init
  <2>2. \A r \in Runners : run[r] = Idle
    BY DEF Init
  <2>3. \A r \in Runners : Fresh(r)
    BY <2>2 DEF Fresh, Idle
  <2>4. \A m \in Forgettable : Phased(m) /\ Redacting(m)
    BY <2>1, <2>2, RunnersAre DEF Phased, Redacting, Idle, NoForget
  <2>5. TypeOK /\ Disjoint /\ runs = {}
    BY InitType DEF Init, Disjoint
  <2> QED
    BY <2>3, <2>4, <2>5 DEF CopiesInv, Copied, Within, ForgottenIsGone
<1>2. CopiesInv /\ [Next]_vars => CopiesInv'
  BY TypeStep, DisjointStep, PhasedStep, CopiesStep DEF CopiesInv
<1>3. CopiesInv => ForgottenIsGone
  BY DEF CopiesInv, Copied
<1> QED
  BY <1>1, <1>2, <1>3, PTL DEF Spec
=============================================================================

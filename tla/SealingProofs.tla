--------------------------- MODULE SealingProofs ---------------------------
(***************************************************************************)
(* What holds of Sealing for every number of spaces, workers, sweeps,      *)
(* transactions and receipts: its types, that the chain can always be      *)
(* recomputed from the table, and that the sweep passes no receipt by; and *)
(* what whoever keeps a space's signed checkpoints may count on: they tile *)
(* the chain, and the chain is an append-only log in which no receipt is   *)
(* twice.                                                                  *)
(***************************************************************************)
EXTENDS Sealing, TLAPS, FiniteSetTheorems

----------------------------------------------------------------------------
\* The inductive invariants

\* A worker that would write a checkpoint has a last receipt to end it at.
Typed ==
    /\ TypeOK
    /\ \A w \in Workers : worker[w].pc \in {"write", "orphan"} => worker[w].last \in Seqs

\* Every transaction up to a space's head has ended: nothing can still be
\* written behind it.
HeadEnded == \A sp \in Spaces, t \in Txids : t <= head[sp].key.txid => Ended(t)

\* Who read the head row holds it, and it is as it was read.
Locked(w) ==
    worker[w].pc \in {"read", "write", "orphan"} =>
        /\ headLock[worker[w].space] = w
        /\ worker[w].key = head[worker[w].space].key
        /\ worker[w].count = head[worker[w].space].position

\* A batch is every committed receipt of the space after the head and up to
\* its last one, and nothing can be written among them any more.
InBatch(q, me) ==
    /\ Committed(q) /\ spaceOf[q] = me.space
    /\ After(q, me.key) /\ UpTo(q, me.last)
Batched(w) ==
    worker[w].pc \in {"write", "orphan"} =>
        /\ InBatch(worker[w].last, worker[w])
        /\ worker[w].batch = {q \in Seqs : InBatch(q, worker[w])}
        /\ \A t \in Txids : t <= txidOf[worker[w].last] => Ended(t)

Readers == \A w \in Workers : Locked(w) /\ Batched(w)
ChainInv == Typed /\ HeadEnded /\ Readers /\ ChainVerifies

\* Nothing can still be written behind the cursor, nor behind a watermark a
\* sweep read.
CursorEnded == \A t \in Txids : t <= cursor.txid => Ended(t)
SweepEnded ==
    \A x \in Sweepers : sweep[x].pc \in {"lock", "move"} =>
        \A t \in Txids : t < sweep[x].xmin => Ended(t)

\* A job that is deciding whether it is done keeps the cursor where it is.
Shared ==
    /\ \A w \in Workers : worker[w].pc = "check" => w \in cursorShare /\ worker[w].key = cursor
    /\ \A x \in Sweepers : sweep[x].pc = "move" => cursorLock = x
    /\ cursorShare # {} => cursorLock = NoOne

SweepInv == CursorEnded /\ SweepEnded /\ Shared /\ PassedHasJob
----------------------------------------------------------------------------
\* Types

\* Sets of receipts are finite, so they have a number of elements.
LEMMA SeqsFinite ==
    ASSUME NEW S \in SUBSET Seqs
    PROVE  IsFiniteSet(S) /\ Cardinality(S) \in Nat
<1>1. IsFiniteSet(Seqs)
  BY FS_Interval, SealingAssumption DEF Seqs
<1> QED
  BY <1>1, FS_Subset, FS_CardinalityType

LEMMA RankType ==
    ASSUME NEW S \in SUBSET Seqs, NEW s
    PROVE  Rank(s, S) \in Nat
BY SeqsFinite DEF Rank

\* A slot's record has its type when its parts do.
LEMMA SlotType ==
    ASSUME NEW pc \in Phases, NEW sp \in Spaces, NEW n \in Nat, NEW k \in Keys,
           NEW c \in Nat, NEW b \in SUBSET Seqs, NEW last \in 0 .. MaxSeq,
           NEW more \in BOOLEAN
    PROVE  Slot(pc, sp, n, k, c, b, last, more) \in WorkerType
BY DEF Slot, WorkerType

LEMMA AtType ==
    /\ \A pc \in Phases, sp \in Spaces, n \in Nat : At(pc, sp, n) \in WorkerType
    /\ Idle \in WorkerType
    /\ AnySpace \in Spaces
    /\ Start \in Keys
<1>1. AnySpace \in Spaces
  BY SealingAssumption DEF AnySpace
<1>2. 0 \in 0 .. MaxTxid /\ 0 \in 0 .. MaxSeq
  BY SealingAssumption
<1>3. Start \in Keys
  BY <1>2 DEF Keys, Start
<1>4. \A pc \in Phases, sp \in Spaces, n \in Nat : At(pc, sp, n) \in WorkerType
  BY <1>2, <1>3, SlotType DEF At
<1>5. "idle" \in Phases
  BY DEF Phases
<1> QED
  BY <1>1, <1>3, <1>4, <1>5 DEF Idle

LEMMA KeyType ==
    ASSUME TypeOK, NEW s \in Seqs
    PROVE  KeyOf(s) \in Keys
BY SealingAssumption DEF KeyOf, Keys, Seqs, TypeOK

\* What a checkpoint does to the chain keeps the types.
LEMMA SealsType ==
    ASSUME TypeOK, NEW w \in Workers, worker[w].last \in Seqs, Seals(w)
    PROVE  /\ position' \in [Seqs -> Nat]
           /\ head' \in [Spaces -> [key : Keys, position : Nat, number : Nat]]
           /\ checkpoints' \in [Spaces -> Seq([from : Nat, to : Nat])]
           /\ headLock' \in [Spaces -> Workers \cup {NoOne}]
<1> DEFINE me == worker[w]
           to == me.count + Cardinality(me.batch)
<1>1. /\ me.count \in Nat /\ me.batch \in SUBSET Seqs /\ me.space \in Spaces
      /\ me.last \in Seqs
  BY DEF TypeOK, WorkerType
<1>2. to \in Nat
  BY <1>1, SeqsFinite
<1>3. \A s \in Seqs : me.count + Rank(s, me.batch) \in Nat
  BY <1>1, RankType
<1>4. KeyOf(me.last) \in Keys
  BY <1>1, KeyType
<1>5. position' \in [Seqs -> Nat]
  BY <1>3 DEF Seals, TypeOK
<1>6. head' \in [Spaces -> [key : Keys, position : Nat, number : Nat]]
  BY <1>1, <1>2, <1>4 DEF Seals, TypeOK
<1>7. [from |-> me.count + 1, to |-> to] \in [from : Nat, to : Nat]
  BY <1>1, <1>2
<1>8. checkpoints' \in [Spaces -> Seq([from : Nat, to : Nat])]
  BY <1>1, <1>7 DEF Seals, TypeOK
<1>9. headLock' \in [Spaces -> Workers \cup {NoOne}]
  BY DEF Seals, TypeOK
<1> QED
  BY <1>5, <1>6, <1>8, <1>9

LEMMA FailsType ==
    ASSUME TypeOK, NEW sp \in Spaces, Fails(sp)
    PROVE  /\ job' \in [Spaces -> Pending \cup {"none"}]
           /\ attempts' \in [Spaces -> Nat]
           /\ discarded' \in [Spaces -> BOOLEAN]
           /\ failures' \in Nat
<1>1. failures' \in Nat /\ attempts' \in [Spaces -> Nat]
  BY DEF Fails, TypeOK
<1>2. CASE attempts[sp] + 1 < MaxAttempts
  <2>1. job' = [job EXCEPT ![sp] = "retryable"] /\ discarded' = discarded
    BY <1>2 DEF Fails
  <2> QED
    BY <1>1, <2>1 DEF TypeOK, Pending
<1>3. CASE ~(attempts[sp] + 1 < MaxAttempts)
  <2>1. /\ job' = [job EXCEPT ![sp] = "none"]
        /\ discarded' = [discarded EXCEPT ![sp] = TRUE]
    BY <1>3 DEF Fails
  <2>2. job' \in [Spaces -> Pending \cup {"none"}]
    BY <2>1 DEF TypeOK
  <2>3. discarded' \in [Spaces -> BOOLEAN]
    BY <2>1, Zenon DEF TypeOK
  <2> QED
    BY <1>1, <2>2, <2>3
<1> QED
  BY <1>2, <1>3

\* Types are kept by every step.
LEMMA TypedInit == Init => Typed
<1> SUFFICES ASSUME Init PROVE Typed
  OBVIOUS
<1>1. tx \in [Txids -> {"unused", "open", "committed", "aborted"}]
  BY DEF Init
<1>2. txidOf \in [Seqs -> 0 .. MaxTxid] /\ position \in [Seqs -> Nat]
  BY SealingAssumption DEF Init
<1>3. spaceOf \in [Seqs -> Spaces]
  BY AtType DEF Init
<1>4. head \in [Spaces -> [key : Keys, position : Nat, number : Nat]]
  BY AtType DEF Init
<1>5. checkpoints \in [Spaces -> Seq([from : Nat, to : Nat])]
  BY DEF Init
<1>6. headLock \in [Spaces -> Workers \cup {NoOne}]
  BY DEF Init
<1>7. worker \in [Workers -> WorkerType]
  BY AtType DEF Init
<1>8. /\ job \in [Spaces -> Pending \cup {"none"}]
      /\ attempts \in [Spaces -> Nat]
      /\ discarded \in [Spaces -> BOOLEAN]
  BY DEF Init
<1>9. cursor \in Keys
  BY AtType DEF Init
<1>10. /\ cursorLock \in Sweepers \cup {NoOne}
       /\ cursorShare \subseteq Workers
       /\ failures \in Nat
  BY DEF Init
<1>11. sweep \in [Sweepers -> [pc : {"idle", "lock", "move"}, xmin : 0 .. MaxTxid + 1]]
  BY SealingAssumption DEF Init
<1>12. \A w \in Workers : worker[w].pc = "idle"
  BY DEF Init, Idle, At, Slot
<1> QED
  BY <1>1, <1>2, <1>3, <1>4, <1>5, <1>6, <1>7, <1>8, <1>9, <1>10, <1>11, <1>12
     DEF Typed, TypeOK


LEMMA TypedNext == Typed /\ [Next]_vars => Typed'
<1> SUFFICES ASSUME Typed, [Next]_vars PROVE Typed'
  OBVIOUS
<1>t. TypeOK /\ \A w \in Workers : worker[w] \in WorkerType
  BY DEF Typed, TypeOK
<1>1. ASSUME NEW t \in Txids, Begin(t) PROVE Typed'
  BY <1>1 DEF Begin, Typed, TypeOK, writerVars, chainVars, jobVars, cursorVars
<1>2. ASSUME NEW t \in Txids, NEW s \in Seqs, NEW sp \in Spaces, WriteReceipt(t, s, sp)
      PROVE  Typed'
  <2>1. t \in 0 .. MaxTxid
    BY SealingAssumption DEF Txids
  <2> QED
    BY <1>2, <2>1 DEF WriteReceipt, Typed, TypeOK, chainVars, jobVars, cursorVars
<1>3. ASSUME NEW t \in Txids, NEW outcome \in {"committed", "aborted"}, End(t, outcome)
      PROVE  Typed'
  BY <1>3 DEF End, Typed, TypeOK, writerVars, chainVars, jobVars, cursorVars
<1>4. ASSUME NEW w \in Workers, NEW sp \in Spaces, StartSeal(w, sp) PROVE Typed'
  <2>1. At("lock", sp, 0) \in WorkerType
    BY AtType DEF Phases
  <2>2. At("lock", sp, 0).pc = "lock"
    BY DEF At, Slot
  <2>3. /\ worker' \in [Workers -> WorkerType]
        /\ \A v \in Workers : worker'[v].pc \in {"write", "orphan"} => worker'[v].last \in Seqs
    BY <1>4, <1>t, <2>1, <2>2 DEF StartSeal, Typed, TypeOK
  <2>4. job' \in [Spaces -> Pending \cup {"none"}]
    BY <1>4 DEF StartSeal, Typed, TypeOK, Pending
  <2> QED
    BY <1>4, <2>3, <2>4 DEF StartSeal, Typed, TypeOK, writerVars, chainVars, cursorVars
<1>5. ASSUME NEW w \in Workers, LockHead(w) PROVE Typed'
  <2> DEFINE sp == worker[w].space
             new == Slot("read", sp, worker[w].rounds, head[sp].key,
                         head[sp].position, {}, 0, FALSE)
  <2>1. /\ sp \in Spaces /\ worker[w].rounds \in Nat
        /\ head[sp].key \in Keys /\ head[sp].position \in Nat
    BY <1>t DEF WorkerType, TypeOK
  <2>2. "read" \in Phases /\ 0 \in 0 .. MaxSeq
    BY SealingAssumption DEF Phases
  <2>3. new \in WorkerType
    BY <2>1, <2>2, SlotType
  <2>4. new.pc = "read"
    BY DEF Slot
  <2>5. /\ worker' \in [Workers -> WorkerType]
        /\ \A v \in Workers : worker'[v].pc \in {"write", "orphan"} => worker'[v].last \in Seqs
    BY <1>5, <1>t, <2>3, <2>4 DEF LockHead, Typed, TypeOK
  <2> QED
    BY <1>5, <2>1, <2>5 DEF LockHead, Typed, TypeOK, writerVars, chainVars, jobVars, cursorVars
<1>6. ASSUME NEW w \in Workers, ReadBatch(w) PROVE Typed'
  <2> DEFINE me == worker[w]
             sp == me.space
             cand(xmin) == {s \in Sealable(me.key, xmin) : spaceOf[s] = sp}
             b(last, xmin) == {q \in cand(xmin) : UpTo(q, last)}
             new(last, xmin) == Slot("write", sp, me.rounds, me.key, me.count,
                                     b(last, xmin), last, b(last, xmin) # cand(xmin))
  <2>1. /\ sp \in Spaces /\ me.rounds \in Nat
        /\ me.key \in Keys /\ me.count \in Nat
    BY <1>t DEF WorkerType
  <2>2. "write" \in Phases /\ "finish" \in Phases /\ Seqs \subseteq 0 .. MaxSeq
    BY SealingAssumption DEF Phases, Seqs
  <2>3. headLock' \in [Spaces -> Workers \cup {NoOne}]
    BY <1>6, <2>1 DEF ReadBatch, Typed, TypeOK
  <2>4. PICK xmin \in 1 .. MaxTxid + 1 :
          \/ worker' = [worker EXCEPT ![w] = At("finish", sp, 0)]
          \/ \E last \in cand(xmin) : worker' = [worker EXCEPT ![w] = new(last, xmin)]
    BY <1>6 DEF ReadBatch
  <2>5. CASE worker' = [worker EXCEPT ![w] = At("finish", sp, 0)]
    <3>1. At("finish", sp, 0) \in WorkerType
      BY <2>1, <2>2, AtType
    <3>2. At("finish", sp, 0).pc = "finish"
      BY DEF At, Slot
    <3>3. /\ worker' \in [Workers -> WorkerType]
          /\ \A v \in Workers : worker'[v].pc \in {"write", "orphan"} => worker'[v].last \in Seqs
      BY <1>t, <2>5, <3>1, <3>2 DEF Typed, TypeOK
    <3> QED
      BY <1>6, <2>3, <3>3 DEF ReadBatch, Typed, TypeOK, writerVars, chainVars, jobVars, cursorVars
  <2>6. ASSUME NEW last \in cand(xmin), worker' = [worker EXCEPT ![w] = new(last, xmin)]
        PROVE  Typed'
    <3>1. last \in Seqs /\ b(last, xmin) \in SUBSET Seqs
      BY DEF Sealable
    <3>2. new(last, xmin) \in WorkerType
      BY <2>1, <2>2, <3>1, SlotType
    <3>3. new(last, xmin).last \in Seqs
      BY <3>1 DEF Slot
    <3>4. /\ worker' \in [Workers -> WorkerType]
          /\ \A v \in Workers : worker'[v].pc \in {"write", "orphan"} => worker'[v].last \in Seqs
      BY <1>t, <2>6, <3>2, <3>3 DEF Typed, TypeOK
    <3> QED
      BY <1>6, <2>3, <3>4 DEF ReadBatch, Typed, TypeOK, writerVars, chainVars, jobVars, cursorVars
  <2> QED
    BY <2>4, <2>5, <2>6
<1>7. ASSUME NEW w \in Workers, WriteCheckpoint(w) PROVE Typed'
  <2> DEFINE me == worker[w]
  <2>1. me.space \in Spaces /\ me.rounds \in Nat
    BY <1>t DEF WorkerType
  <2>2. Seals(w) /\ me.last \in Seqs
    BY <1>7 DEF WriteCheckpoint, Typed
  <2>3. PICK new \in {At("finish", me.space, 0), At("lock", me.space, me.rounds + 1), Idle} :
          worker' = [worker EXCEPT ![w] = new]
    BY <1>7 DEF WriteCheckpoint
  <2>4. new \in WorkerType
    BY <2>1, <2>3, AtType DEF Phases
  <2>5. new.pc \notin {"write", "orphan"}
    BY <2>3 DEF Idle, At, Slot
  <2>6. /\ worker' \in [Workers -> WorkerType]
        /\ \A v \in Workers : worker'[v].pc \in {"write", "orphan"} => worker'[v].last \in Seqs
    BY <1>t, <2>3, <2>4, <2>5 DEF Typed, TypeOK
  <2>7. job' \in [Spaces -> Pending \cup {"none"}]
    BY <1>7 DEF WriteCheckpoint, Typed, TypeOK, Pending
  <2> QED
    BY <1>7, <1>t, <2>2, <2>6, <2>7, SealsType DEF WriteCheckpoint, Typed, TypeOK, writerVars, cursorVars
<1>8. ASSUME NEW w \in Workers, LockCursor(w) PROVE Typed'
  <2> DEFINE new == Slot("check", worker[w].space, 0, cursor, 0, {}, 0, FALSE)
  <2>a. /\ worker[w].space \in Spaces /\ cursor \in Keys
        /\ 0 \in Nat /\ 0 \in 0 .. MaxSeq /\ "check" \in Phases
    BY <1>t, SealingAssumption DEF WorkerType, TypeOK, Phases
  <2>1. new \in WorkerType
    BY <2>a, SlotType
  <2>2. new.pc = "check"
    BY DEF Slot
  <2>3. /\ worker' \in [Workers -> WorkerType]
        /\ \A v \in Workers : worker'[v].pc \in {"write", "orphan"} => worker'[v].last \in Seqs
    BY <1>8, <1>t, <2>1, <2>2 DEF LockCursor, Typed, TypeOK
  <2> QED
    BY <1>8, <2>3 DEF LockCursor, Typed, TypeOK, writerVars, chainVars, jobVars, cursorVars
<1>9. ASSUME NEW w \in Workers, FinishSeal(w) PROVE Typed'
  <2>1. Idle \in WorkerType /\ Idle.pc = "idle"
    BY AtType DEF Idle, At, Slot
  <2>2. /\ worker' \in [Workers -> WorkerType]
        /\ \A v \in Workers : worker'[v].pc \in {"write", "orphan"} => worker'[v].last \in Seqs
    BY <1>9, <1>t, <2>1 DEF FinishSeal, Typed, TypeOK
  <2>3. job' \in [Spaces -> Pending \cup {"none"}]
    BY <1>9 DEF FinishSeal, Typed, TypeOK, Pending
  <2> QED
    BY <1>9, <2>2, <2>3 DEF FinishSeal, Typed, TypeOK, writerVars, chainVars, cursorVars
<1>10. ASSUME NEW w \in Workers, OrphanEnds(w) PROVE Typed'
  <2>1. Idle \in WorkerType /\ Idle.pc = "idle"
    BY AtType DEF Idle, At, Slot
  <2>2. /\ worker' \in [Workers -> WorkerType]
        /\ \A v \in Workers : worker'[v].pc \in {"write", "orphan"} => worker'[v].last \in Seqs
    BY <1>10, <1>t, <2>1 DEF OrphanEnds, Typed, TypeOK
  <2>3. worker[w].last \in Seqs
    BY <1>10 DEF OrphanEnds, Typed
  <2>4. CASE Seals(w)
    BY <1>10, <1>t, <2>2, <2>3, <2>4, SealsType
       DEF OrphanEnds, Typed, TypeOK, writerVars, jobVars, cursorVars
  <2>5. CASE UNCHANGED chainVars /\ headLock' = [headLock EXCEPT ![worker[w].space] = NoOne]
    BY <1>10, <2>2, <2>5 DEF OrphanEnds, Typed, TypeOK, writerVars, chainVars, jobVars, cursorVars
  <2> QED
    BY <1>10, <2>4, <2>5 DEF OrphanEnds
<1>11. ASSUME NEW x \in Sweepers, StartSweep(x) PROVE Typed'
  <2>1. sweep' \in [Sweepers -> [pc : {"idle", "lock", "move"}, xmin : 0 .. MaxTxid + 1]]
    BY <1>11, SealingAssumption DEF StartSweep, Typed, TypeOK
  <2> QED
    BY <1>11, <2>1 DEF StartSweep, Typed, TypeOK, writerVars, chainVars, jobVars
<1>12. ASSUME NEW x \in Sweepers, LockSweep(x) PROVE Typed'
  BY <1>12 DEF LockSweep, Typed, TypeOK, writerVars, chainVars, jobVars
<1>13. ASSUME NEW x \in Sweepers, MoveCursor(x) PROVE Typed'
  <2>1. sweep' \in [Sweepers -> [pc : {"idle", "lock", "move"}, xmin : 0 .. MaxTxid + 1]]
    BY <1>13, SealingAssumption DEF MoveCursor, Typed, TypeOK
  <2>2. /\ cursor' \in Keys
        /\ job' \in [Spaces -> Pending \cup {"none"}]
        /\ attempts' \in [Spaces -> Nat]
        /\ discarded' \in [Spaces -> BOOLEAN]
    <3>1. CASE UNCHANGED <<cursor, jobVars>>
      BY <3>1 DEF jobVars, Typed, TypeOK
    <3>2. ASSUME NEW last \in Seqs, cursor' = KeyOf(last),
                 NEW spaces, Queues(spaces)
          PROVE  /\ cursor' \in Keys
                 /\ job' \in [Spaces -> Pending \cup {"none"}]
                 /\ attempts' \in [Spaces -> Nat]
                 /\ discarded' \in [Spaces -> BOOLEAN]
      <4>1. cursor' \in Keys
        BY <1>t, <3>2, KeyType
      <4>2. \A sp \in Spaces : job[sp] \in Pending \cup {"none"} /\ attempts[sp] \in Nat
        BY DEF Typed, TypeOK
      <4>3. "available" \in Pending
        BY DEF Pending
      <4>4. job' \in [Spaces -> Pending \cup {"none"}] /\ attempts' \in [Spaces -> Nat]
        BY <3>2, <4>2, <4>3 DEF Queues
      <4>5. discarded' \in [Spaces -> BOOLEAN]
        BY <3>2 DEF Queues
      <4> QED
        BY <4>1, <4>4, <4>5
    <3> QED
      BY <1>13, <3>1, <3>2 DEF MoveCursor, Sealable
  <2> QED
    BY <1>13, <2>1, <2>2 DEF MoveCursor, Typed, TypeOK, writerVars, chainVars
<1>14. ASSUME NEW w \in Workers, FailSeal(w) PROVE Typed'
  <2>1. Idle \in WorkerType /\ Idle.pc = "idle"
    BY AtType DEF Idle, At, Slot
  <2>2. /\ worker' \in [Workers -> WorkerType]
        /\ \A v \in Workers : worker'[v].pc \in {"write", "orphan"} => worker'[v].last \in Seqs
    BY <1>14, <1>t, <2>1 DEF FailSeal, Typed, TypeOK
  <2>3. worker[w].space \in Spaces /\ Fails(worker[w].space)
    BY <1>14, <1>t DEF FailSeal, WorkerType
  <2>4. headLock' \in [Spaces -> Workers \cup {NoOne}]
    BY <1>14, <2>3 DEF FailSeal, Typed, TypeOK
  <2> QED
    BY <1>14, <1>t, <2>2, <2>3, <2>4, FailsType
       DEF FailSeal, Typed, TypeOK, writerVars, chainVars, cursorVars
<1>15. ASSUME NEW w \in Workers, TimeoutSeal(w) PROVE Typed'
  <2> DEFINE me == worker[w]
             new == Slot("orphan", me.space, me.rounds, me.key, me.count,
                         me.batch, me.last, me.more)
  <2>1. me.space \in Spaces /\ Fails(me.space) /\ me.last \in Seqs
    BY <1>15, <1>t DEF TimeoutSeal, WorkerType, Typed
  <2>2. new \in WorkerType
    BY <1>t, SlotType DEF WorkerType, Phases
  <2>3. new.last \in Seqs
    BY <2>1 DEF Slot
  <2>4. /\ worker' \in [Workers -> WorkerType]
        /\ \A v \in Workers : worker'[v].pc \in {"write", "orphan"} => worker'[v].last \in Seqs
    BY <1>15, <1>t, <2>2, <2>3 DEF TimeoutSeal, Typed, TypeOK
  <2> QED
    BY <1>15, <1>t, <2>1, <2>4, FailsType
       DEF TimeoutSeal, Typed, TypeOK, writerVars, chainVars, cursorVars
<1>16. ASSUME NEW x \in Sweepers, FailSweep(x) PROVE Typed'
  <2>1. sweep' \in [Sweepers -> [pc : {"idle", "lock", "move"}, xmin : 0 .. MaxTxid + 1]]
    BY <1>16, SealingAssumption DEF FailSweep, Typed, TypeOK
  <2> QED
    BY <1>16, <2>1 DEF FailSweep, Typed, TypeOK, writerVars, chainVars, jobVars
<1>17. CASE UNCHANGED vars
  BY <1>17 DEF vars, Typed, TypeOK, writerVars, chainVars, jobVars, cursorVars
<1> QED
  BY <1>1, <1>2, <1>3, <1>4, <1>5, <1>6, <1>7, <1>8, <1>9, <1>10, <1>11, <1>12, <1>13,
     <1>14, <1>15, <1>16, <1>17 DEF Next, Writing, Working, Sweeping, Failing

\* Every variable has its type in every state.
THEOREM TypeCorrect == Spec => []TypeOK
<1>1. Init => Typed
  BY TypedInit
<1>2. Typed /\ [Next]_vars => Typed'
  BY TypedNext
<1>3. Typed => TypeOK
  BY DEF Typed
<1> QED
  BY <1>1, <1>2, <1>3, PTL DEF Spec


----------------------------------------------------------------------------
\* The chain

\* (txid, seq) is a total order, and a key stands for the receipts up to it.
LEMMA Order ==
    ASSUME TypeOK, NEW p \in Seqs, NEW q \in Seqs, NEW s \in Seqs
    PROVE  /\ UpTo(s, s)
           /\ UpTo(p, q) /\ UpTo(q, s) => UpTo(p, s)
           /\ After(q, KeyOf(s)) <=> ~UpTo(q, s)
           /\ UpTo(q, s) => txidOf[q] <= txidOf[s]
           /\ \A k \in Keys : After(q, k) /\ UpTo(q, s) => After(s, k)
           /\ \A k \in Keys : After(q, k) /\ ~After(p, k) => UpTo(p, q) /\ ~UpTo(q, p)
<1>1. /\ txidOf[p] \in Nat /\ txidOf[q] \in Nat /\ txidOf[s] \in Nat
      /\ p \in Nat /\ q \in Nat /\ s \in Nat
  BY SealingAssumption DEF TypeOK, Seqs
<1>2. \A k \in Keys : k.txid \in Nat /\ k.seq \in Nat
  BY SealingAssumption DEF Keys
<1> QED
  BY <1>1, <1>2 DEF UpTo, Before, After, KeyOf

\* Receipts that come after s don't move it; a batch that comes after all of
\* R is ranked on from R's end.
LEMMA RankUnion ==
    ASSUME TypeOK, NEW R \in SUBSET Seqs, NEW B \in SUBSET Seqs, NEW s \in Seqs,
           R \cap B = {}
    PROVE  /\ (\A q \in B : ~UpTo(q, s)) => Rank(s, R \cup B) = Rank(s, R)
           /\ (\A q \in R : UpTo(q, s)) => Rank(s, R \cup B) = Cardinality(R) + Rank(s, B)
           /\ Cardinality(R \cup B) = Cardinality(R) + Cardinality(B)
<1> DEFINE up(S) == {q \in S : UpTo(q, s)}
<1>1. \A S, T \in SUBSET Seqs : S \cap T = {} =>
          Cardinality(S \cup T) = Cardinality(S) + Cardinality(T)
  <2> SUFFICES ASSUME NEW S \in SUBSET Seqs, NEW T \in SUBSET Seqs, S \cap T = {}
               PROVE  Cardinality(S \cup T) = Cardinality(S) + Cardinality(T)
    OBVIOUS
  <2>1. Cardinality(S \cap T) = 0
    BY FS_EmptySet
  <2>2. /\ IsFiniteSet(S) /\ Cardinality(S) \in Nat
        /\ IsFiniteSet(T) /\ Cardinality(T) \in Nat
    BY SeqsFinite
  <2>3. Cardinality(S \cup T) = Cardinality(S) + Cardinality(T) - Cardinality(S \cap T)
    BY <2>2, FS_Union
  <2> QED
    BY <2>1, <2>2, <2>3
<1>2. ASSUME \A q \in B : ~UpTo(q, s) PROVE Rank(s, R \cup B) = Rank(s, R)
  <2>1. up(R \cup B) = up(R)
    BY <1>2
  <2> QED
    BY <2>1 DEF Rank
<1>3. ASSUME \A q \in R : UpTo(q, s)
      PROVE  Rank(s, R \cup B) = Cardinality(R) + Rank(s, B)
  <2>1. up(R \cup B) = R \cup up(B) /\ R \cap up(B) = {} /\ up(B) \in SUBSET Seqs
    BY <1>3
  <2>2. Cardinality(R \cup up(B)) = Cardinality(R) + Cardinality(up(B))
    BY <1>1, <2>1
  <2> QED
    BY <2>1, <2>2 DEF Rank
<1> QED
  BY <1>1, <1>2, <1>3

\* A receipt is committed, and its space's head has reached it.
Behind(q) == Committed(q) /\ ~After(q, head[spaceOf[q]].key)

\* What ChainVerifies says is as true as it was when the same receipts are
\* behind the heads.
LEMMA ChainSame ==
    ASSUME Typed, Typed', ChainVerifies, UNCHANGED <<position, head>>,
           \A q \in Seqs : Behind(q)' = Behind(q),
           \A q \in Seqs : Behind(q) => txidOf'[q] = txidOf[q] /\ spaceOf'[q] = spaceOf[q]
    PROVE  ChainVerifies'
<1>1. ASSUME NEW s \in Seqs
      PROVE  position'[s] = IF s \in Reread(spaceOf[s])'
                              THEN Rank(s, Reread(spaceOf[s]))' ELSE 0
  <2>1. /\ s \in Reread(spaceOf[s]) <=> Behind(s)
        /\ s \in Reread(spaceOf[s])' <=> Behind(s)'
    BY DEF Reread, Behind
  <2>2. CASE Behind(s)
    <3>1. PICK a : a = spaceOf[s]
      OBVIOUS
    <3> DEFINE S == {q \in Seqs : Behind(q) /\ spaceOf[q] = a}
    <3>2. Reread(spaceOf[s]) = S
      BY <3>1 DEF Reread, Behind
    <3>3. spaceOf'[s] = a
      BY <2>2, <3>1
    <3>4. Reread(spaceOf[s])' = {q \in Seqs : Behind(q)' /\ spaceOf'[q] = a}
      BY <3>3 DEF Reread, Behind
    <3>5. Reread(spaceOf[s])' = S
      BY <3>4
    <3>6. {q \in S : UpTo(q, s)'} = {q \in S : UpTo(q, s)}
      BY <2>2 DEF UpTo, Before
    <3>7. Rank(s, Reread(spaceOf[s]))' = Cardinality({q \in S : UpTo(q, s)'})
      BY <3>5 DEF Rank
    <3>8. Rank(s, Reread(spaceOf[s])) = Cardinality({q \in S : UpTo(q, s)})
      BY <3>2 DEF Rank
    <3>9. position[s] = Rank(s, Reread(spaceOf[s]))
      BY <2>1, <2>2 DEF ChainVerifies
    <3> QED
      BY <2>1, <2>2, <3>6, <3>7, <3>8, <3>9
  <2>3. CASE ~Behind(s)
    BY <2>1, <2>3 DEF ChainVerifies
  <2> QED
    BY <2>2, <2>3
<1>2. ASSUME NEW sp \in Spaces PROVE head'[sp].position = Cardinality(Reread(sp)')
  <2>1. Reread(sp) = {q \in Seqs : Behind(q) /\ spaceOf[q] = sp}
    BY DEF Reread, Behind
  <2>2. Reread(sp)' = {q \in Seqs : Behind(q)' /\ spaceOf'[q] = sp}
    BY DEF Reread, Behind
  <2>3. Reread(sp)' = Reread(sp)
    BY <2>1, <2>2
  <2> QED
    BY <2>3 DEF ChainVerifies
<1> QED
  BY <1>1, <1>2 DEF ChainVerifies

\* A checkpoint puts the batch on the end of its space's chain.
LEMMA SealsChain ==
    ASSUME ChainInv, Typed', NEW w \in Workers, worker[w].pc \in {"write", "orphan"},
           Seals(w), UNCHANGED writerVars
    PROVE  HeadEnded' /\ ChainVerifies'
<1> DEFINE me == worker[w]
           R == {q \in Seqs : Behind(q) /\ spaceOf[q] = me.space}
           to == me.count + Cardinality(me.batch)
<1>1. TypeOK /\ me.last \in Seqs /\ me.space \in Spaces /\ me.key \in Keys
  BY DEF ChainInv, Typed, TypeOK, WorkerType
<1>2. me.key = head[me.space].key /\ me.count = head[me.space].position
  BY DEF ChainInv, Readers, Locked
<1>3. /\ InBatch(me.last, me)
      /\ me.batch = {q \in Seqs : InBatch(q, me)}
      /\ \A t \in Txids : t <= txidOf[me.last] => Ended(t)
  BY DEF ChainInv, Readers, Batched
<1>4. R = {q \in Seqs : Committed(q) /\ spaceOf[q] = me.space /\ ~After(q, me.key)}
  BY <1>2 DEF Behind
<1>5. /\ R \in SUBSET Seqs /\ me.batch \in SUBSET Seqs /\ R \cap me.batch = {}
      /\ \A q \in R, p \in me.batch : UpTo(q, p) /\ ~UpTo(p, q)
  BY <1>1, <1>3, <1>4, Order DEF InBatch
<1>6. /\ head' = [head EXCEPT ![me.space] =
                     [key |-> KeyOf(me.last), position |-> to, number |-> @.number + 1]]
      /\ position' = [q \in Seqs |-> IF q \in me.batch
                                      THEN me.count + Rank(q, me.batch) ELSE position[q]]
  BY DEF Seals
<1>7. /\ head'[me.space].key = KeyOf(me.last) /\ head'[me.space].position = to
      /\ \A sp \in Spaces : sp # me.space => head'[sp] = head[sp]
  BY <1>1, <1>6 DEF TypeOK
<1>8. UNCHANGED <<tx, txidOf, spaceOf>>
  BY DEF writerVars
<1>9. HeadEnded'
  <2>1. KeyOf(me.last).txid = txidOf[me.last]
    BY DEF KeyOf
  <2> QED
    BY <1>3, <1>7, <1>8, <2>1 DEF HeadEnded, Ended, ChainInv
\* The receipts behind the moved head are those that were, and the batch.
<1>10. \A q \in Seqs : /\ ~After(q, KeyOf(me.last)) <=> UpTo(q, me.last)
                       /\ ~After(q, me.key) => UpTo(q, me.last)
  BY <1>1, <1>3, Order DEF InBatch
<1>11. PICK a : a = me.space
  OBVIOUS
<1>12. Reread(a)' = R \cup me.batch
  <2>1. \A q \in Seqs : /\ Committed(q)' <=> Committed(q)
                        /\ After(q, head[a].key)' <=> After(q, KeyOf(me.last))
    BY <1>7, <1>8, <1>11 DEF Committed, After
  <2>2. Reread(a)' = {q \in Seqs : /\ Committed(q) /\ spaceOf[q] = a
                                    /\ ~After(q, KeyOf(me.last))}
    BY <1>8, <2>1 DEF Reread
  <2> QED
    BY <1>3, <1>4, <1>10, <1>11, <2>2 DEF InBatch
<1>13. Reread(a) = R
  BY <1>11 DEF Reread, Behind
<1>14. \A sp \in Spaces \ {a} : Reread(sp)' = Reread(sp)
  <2> SUFFICES ASSUME NEW sp \in Spaces \ {a} PROVE Reread(sp)' = Reread(sp)
    OBVIOUS
  <2>1. head'[sp] = head[sp]
    BY <1>7, <1>11
  <2>2. \A q \in Seqs : /\ Committed(q)' <=> Committed(q)
                        /\ After(q, head[sp].key)' <=> After(q, head[sp].key)
    BY <1>8, <2>1 DEF Committed, After
  <2> QED
    BY <1>8, <2>2 DEF Reread
<1>15. head'[a].position = Cardinality(Reread(a)')
  <2>1. head[a].position = Cardinality(R)
    BY <1>1, <1>11, <1>13 DEF ChainInv, ChainVerifies
  <2>2. Cardinality(R \cup me.batch) = Cardinality(R) + Cardinality(me.batch)
    BY <1>1, <1>5, RankUnion
  <2> QED
    BY <1>2, <1>7, <1>11, <1>12, <2>1, <2>2
<1>16. ASSUME NEW s \in Seqs
       PROVE  position'[s] = IF s \in Reread(spaceOf[s])'
                               THEN Rank(s, Reread(spaceOf[s]))' ELSE 0
  <2>1. PICK b : b = spaceOf[s] /\ b \in Spaces
    BY <1>1 DEF TypeOK
  <2> DEFINE T == IF b = a THEN R \cup me.batch ELSE Reread(b)
  <2>2. Reread(spaceOf[s])' = T
    <3>1. Reread(spaceOf[s])' = Reread(b)'
      BY <1>8, <2>1 DEF Reread
    <3> QED
      BY <1>12, <1>14, <2>1, <3>1
  <2>3. Rank(s, Reread(spaceOf[s]))' = Rank(s, T)
    <3>1. Rank(s, Reread(spaceOf[s]))' = Cardinality({p \in T : UpTo(p, s)'})
      BY <2>2 DEF Rank
    <3>2. {p \in T : UpTo(p, s)'} = {p \in T : UpTo(p, s)}
      BY <1>8 DEF UpTo, Before
    <3> QED
      BY <3>1, <3>2 DEF Rank
  <2>4. position'[s] = IF s \in me.batch THEN me.count + Rank(s, me.batch) ELSE position[s]
    BY <1>6
  <2>5. position[s] = IF s \in Reread(b) THEN Rank(s, Reread(b)) ELSE 0
    BY <2>1 DEF ChainInv, ChainVerifies
  <2>6. position'[s] = IF s \in T THEN Rank(s, T) ELSE 0
    <3>1. CASE b = a /\ s \in me.batch
      <4>a. \A q \in R : UpTo(q, s)
        BY <1>5, <3>1
      <4>b. Rank(s, R \cup me.batch) = Cardinality(R) + Rank(s, me.batch)
        <5> HIDE DEF R, me
        <5> QED
          BY <1>1, <1>5, <4>a, RankUnion
      <4>1. Rank(s, T) = Cardinality(R) + Rank(s, me.batch)
        BY <3>1, <4>b
      <4>2. head[a].position = Cardinality(Reread(a))
        BY <1>1, <1>11 DEF ChainInv, ChainVerifies
      <4> QED
        BY <1>2, <1>11, <1>13, <2>4, <3>1, <4>1, <4>2
    <3>2. CASE b = a /\ s \in R
      <4>a. \A q \in me.batch : ~UpTo(q, s)
        BY <1>5, <3>2
      <4>b. Rank(s, R \cup me.batch) = Rank(s, R)
        <5> HIDE DEF R, me
        <5> QED
          BY <1>1, <1>5, <4>a, RankUnion
      <4>1. Rank(s, T) = Rank(s, R)
        BY <3>2, <4>b
      <4>2. s \notin me.batch
        BY <1>5, <3>2
      <4> QED
        BY <1>13, <2>4, <2>5, <3>2, <4>1, <4>2
    <3>3. CASE b = a /\ s \notin R \cup me.batch
      BY <1>13, <2>4, <2>5, <3>3
    <3>4. CASE b # a
      <4>1. s \notin me.batch
        BY <1>3, <1>11, <2>1, <3>4 DEF InBatch
      <4> QED
        BY <2>4, <2>5, <3>4, <4>1
    <3> QED
      BY <3>1, <3>2, <3>3, <3>4
  <2> QED
    BY <2>2, <2>3, <2>6
<1>17. ASSUME NEW sp \in Spaces PROVE head'[sp].position = Cardinality(Reread(sp)')
  <2>1. CASE sp = a
    BY <1>15, <2>1
  <2>2. CASE sp # a
    BY <1>7, <1>11, <1>14, <2>2 DEF ChainInv, ChainVerifies
  <2> QED
    BY <2>1, <2>2
<1> QED
  BY <1>9, <1>16, <1>17 DEF ChainVerifies

\* A transaction that hasn't ended writes behind no head and into no batch.
LEMMA WritingChain ==
    ASSUME ChainInv, Typed', NEW t \in Txids, ~Ended(t),
           \A u \in Txids \ {t} : tx'[u] = tx[u],
           \A q \in Seqs : \/ txidOf'[q] = txidOf[q] /\ spaceOf'[q] = spaceOf[q]
                           \/ txidOf[q] = 0 /\ txidOf'[q] = t,
           UNCHANGED <<position, head, headLock, worker>>
    PROVE  ChainInv'
<1>1. /\ \A q \in Seqs : txidOf[q] \in 0 .. MaxTxid /\ txidOf'[q] \in 0 .. MaxTxid
      /\ t \in Nat /\ t # 0
      /\ \A sp \in Spaces : head[sp].key.txid \in Nat
      /\ \A q \in Seqs : spaceOf[q] \in Spaces /\ spaceOf'[q] \in Spaces
  <2>1. TypeOK /\ TypeOK'
    BY DEF ChainInv, Typed
  <2>2. \A q \in Seqs : /\ txidOf[q] \in 0 .. MaxTxid /\ txidOf'[q] \in 0 .. MaxTxid
                        /\ spaceOf[q] \in Spaces /\ spaceOf'[q] \in Spaces
    BY <2>1 DEF TypeOK
  <2>3. \A sp \in Spaces : head[sp].key \in Keys
    BY <2>1 DEF TypeOK
  <2> QED
    BY <2>2, <2>3, SealingAssumption DEF Txids, Keys
<1>2. ASSUME NEW u \in Txids, Ended(u) PROVE u # t /\ Ended(u)' /\ tx'[u] = tx[u]
  <2>1. u # t
    BY <1>2
  <2>2. tx'[u] = tx[u]
    BY <2>1
  <2> QED
    BY <1>2, <2>1, <2>2 DEF Ended
<1>3. \A q \in Seqs : txidOf[q] # 0 => txidOf[q] \in Txids
  BY <1>1, SealingAssumption DEF Txids
<1>4. \A q \in Seqs : Committed(q) =>
          /\ txidOf'[q] = txidOf[q] /\ spaceOf'[q] = spaceOf[q]
          /\ Committed(q)' /\ txidOf[q] # t
  BY <1>1, <1>2, <1>3 DEF Committed, Ended
<1>5. \A q \in Seqs : Committed(q)' /\ ~Committed(q) => txidOf'[q] = t
  BY <1>1, <1>3 DEF Committed
<1>6. HeadEnded'
  BY <1>2 DEF ChainInv, HeadEnded
<1>7. \A sp \in Spaces : t > head[sp].key.txid
  BY <1>1 DEF ChainInv, HeadEnded
<1>8. ASSUME NEW q \in Seqs PROVE Behind(q)' = Behind(q)
  <2>1. Behind(q) => Behind(q)'
    BY <1>4 DEF Behind, After
  <2>2. Behind(q)' => Committed(q)
    BY <1>1, <1>5, <1>7 DEF Behind, After
  <2>3. Behind(q)' => Behind(q)
    BY <1>4, <2>2 DEF Behind, After
  <2>4. Behind(q) \in BOOLEAN /\ Behind(q)' \in BOOLEAN
    BY DEF Behind
  <2> QED
    BY <2>1, <2>3, <2>4
<1>9. \A q \in Seqs : Behind(q) => txidOf'[q] = txidOf[q] /\ spaceOf'[q] = spaceOf[q]
  BY <1>4 DEF Behind
<1>10. ChainVerifies'
  BY <1>8, <1>9, ChainSame DEF ChainInv
<1>11. ASSUME NEW w \in Workers PROVE Locked(w)' /\ Batched(w)'
  <2>1. Locked(w)'
    BY DEF ChainInv, Readers, Locked
  <2>2. CASE worker[w].pc \in {"write", "orphan"}
    <3> DEFINE me == worker[w]
    <3>1. /\ InBatch(me.last, me) /\ me.last \in Seqs
          /\ me.batch = {q \in Seqs : InBatch(q, me)}
          /\ \A u \in Txids : u <= txidOf[me.last] => Ended(u)
      BY <2>2 DEF ChainInv, Readers, Batched, Typed
    <3>2. /\ txidOf'[me.last] = txidOf[me.last] /\ Committed(me.last)
          /\ t > txidOf[me.last]
      BY <1>1, <1>4, <3>1 DEF InBatch
    <3>3. ASSUME NEW q \in Seqs PROVE InBatch(q, me)' <=> InBatch(q, me)
      <4>1. InBatch(q, me) => InBatch(q, me)'
        BY <1>4, <3>2 DEF InBatch, After, UpTo, Before
      <4>2. InBatch(q, me)' => Committed(q)
        BY <1>1, <1>5, <3>1, <3>2 DEF InBatch, UpTo, Before
      <4>3. InBatch(q, me)' => InBatch(q, me)
        BY <1>4, <3>2, <4>2 DEF InBatch, After, UpTo, Before
      <4> QED
        BY <4>1, <4>3
    <3> QED
      BY <1>2, <2>1, <3>1, <3>2, <3>3 DEF Batched
  <2> QED
    BY <2>1, <2>2 DEF Batched
<1> QED
  BY <1>6, <1>10, <1>11 DEF ChainInv, Readers

\* What a worker does to the head it holds disturbs no other worker.
LEMMA OthersKept ==
    ASSUME ChainInv, Typed', NEW w \in Workers, UNCHANGED writerVars,
           \A v \in Workers \ {w} : worker'[v] = worker[v],
           \A sp \in Spaces : headLock[sp] \in Workers \ {w} =>
               headLock'[sp] = headLock[sp] /\ head'[sp] = head[sp]
    PROVE  \A v \in Workers \ {w} : Locked(v)' /\ Batched(v)'
<1> SUFFICES ASSUME NEW v \in Workers \ {w} PROVE Locked(v)' /\ Batched(v)'
  OBVIOUS
<1>1. UNCHANGED <<tx, txidOf, spaceOf>>
  BY DEF writerVars
<1>2. worker[v].space \in Spaces
  BY DEF ChainInv, Typed, TypeOK, WorkerType
<1>3. Locked(v)'
  BY <1>2 DEF ChainInv, Readers, Locked
<1>4. \A q : InBatch(q, worker[v])' <=> InBatch(q, worker[v])
  BY <1>1 DEF InBatch, Committed, After, UpTo, Before
<1>5. Batched(v)'
  BY <1>1, <1>4 DEF ChainInv, Readers, Batched, Ended
<1> QED
  BY <1>3, <1>5

\* Nothing of the chain is disturbed by what writes neither receipts nor
\* checkpoints.
LEMMA ChainKept ==
    ASSUME ChainInv, Typed', UNCHANGED <<writerVars, chainVars>>
    PROVE  HeadEnded' /\ ChainVerifies'
<1>1. UNCHANGED <<tx, txidOf, spaceOf, position, head>>
  BY DEF writerVars, chainVars
<1>2. HeadEnded'
  BY <1>1 DEF ChainInv, HeadEnded, Ended
<1>3. \A q \in Seqs : Behind(q)' = Behind(q)
  BY <1>1 DEF Behind, Committed, After
<1>4. ChainVerifies'
  BY <1>1, <1>3, ChainSame DEF ChainInv
<1> QED
  BY <1>2, <1>4

LEMMA ChainNext == ChainInv /\ [Next]_vars => ChainInv'
<1> SUFFICES ASSUME ChainInv, [Next]_vars PROVE ChainInv'
  OBVIOUS
<1>t. Typed' /\ TypeOK /\ \A w \in Workers : worker[w] \in WorkerType
  BY TypedNext DEF ChainInv, Typed, TypeOK
\* A worker that reads or writes no checkpoint from here on.
<1>q. ASSUME NEW w \in Workers, NEW new, worker' = [worker EXCEPT ![w] = new],
             new.pc \notin {"read", "write", "orphan"}, UNCHANGED writerVars,
             \A sp \in Spaces : headLock[sp] \in Workers \ {w} =>
                 headLock'[sp] = headLock[sp] /\ head'[sp] = head[sp],
             HeadEnded', ChainVerifies'
      PROVE  ChainInv'
  <2>1. /\ \A v \in Workers \ {w} : worker'[v] = worker[v]
        /\ worker'[w] = new
    BY <1>q, <1>t DEF TypeOK
  <2>2. Locked(w)' /\ Batched(w)'
    BY <1>q, <2>1 DEF Locked, Batched
  <2> QED
    BY <1>q, <1>t, <2>1, <2>2, OthersKept DEF ChainInv, Readers
<1>1. ASSUME NEW t \in Txids, Begin(t) PROVE ChainInv'
  BY <1>1, <1>t, WritingChain
     DEF Begin, Ended, TypeOK, chainVars
<1>2. ASSUME NEW t \in Txids, NEW s \in Seqs, NEW sp \in Spaces, WriteReceipt(t, s, sp)
      PROVE  ChainInv'
  BY <1>2, <1>t, WritingChain DEF WriteReceipt, Ended, TypeOK, chainVars
<1>3. ASSUME NEW t \in Txids, NEW outcome \in {"committed", "aborted"}, End(t, outcome)
      PROVE  ChainInv'
  BY <1>3, <1>t, WritingChain DEF End, Ended, TypeOK, chainVars
<1>4. ASSUME NEW w \in Workers, NEW sp \in Spaces, StartSeal(w, sp) PROVE ChainInv'
  <2>1. At("lock", sp, 0).pc = "lock"
    BY DEF At, Slot
  <2> QED
    BY <1>4, <1>q, <1>t, <2>1, ChainKept DEF StartSeal, chainVars
<1>5. ASSUME NEW w \in Workers, LockHead(w) PROVE ChainInv'
  <2> DEFINE sp == worker[w].space
             new == Slot("read", sp, worker[w].rounds, head[sp].key,
                         head[sp].position, {}, 0, FALSE)
  <2>1. HeadEnded' /\ ChainVerifies' /\ UNCHANGED head
    BY <1>5, <1>t, ChainKept DEF LockHead, chainVars
  <2>2. /\ \A v \in Workers \ {w} : worker'[v] = worker[v]
        /\ worker'[w] = new
    BY <1>5, <1>t DEF LockHead, TypeOK
  <2>3. sp \in Spaces /\ headLock'[sp] = w /\ headLock[sp] = NoOne
    BY <1>5, <1>t DEF LockHead, WorkerType, TypeOK
  <2>4. \A a \in Spaces : headLock[a] \in Workers \ {w} => headLock'[a] = headLock[a]
    BY <1>5, <1>t, <2>3, SealingAssumption DEF LockHead, TypeOK
  <2>5. Locked(w)' /\ Batched(w)'
    BY <2>1, <2>2, <2>3 DEF Locked, Batched, Slot
  <2> QED
    BY <1>5, <1>t, <2>1, <2>2, <2>4, <2>5, OthersKept DEF LockHead, ChainInv, Readers
<1>6. ASSUME NEW w \in Workers, ReadBatch(w) PROVE ChainInv'
  <2> DEFINE me == worker[w]
             sp == me.space
             cand(xmin) == {s \in Sealable(me.key, xmin) : spaceOf[s] = sp}
             b(last, xmin) == {q \in cand(xmin) : UpTo(q, last)}
             new(last, xmin) == Slot("write", sp, me.rounds, me.key, me.count,
                                     b(last, xmin), last, b(last, xmin) # cand(xmin))
  <2>1. HeadEnded' /\ ChainVerifies' /\ UNCHANGED <<head, tx, txidOf, spaceOf>>
    BY <1>6, <1>t, ChainKept DEF ReadBatch, chainVars, writerVars
  <2>2. /\ headLock[sp] = w /\ me.key = head[sp].key /\ me.count = head[sp].position
        /\ sp \in Spaces /\ me.key \in Keys
    BY <1>6, <1>t DEF ReadBatch, ChainInv, Readers, Locked, WorkerType
  <2>3. PICK xmin \in 1 .. MaxTxid + 1 :
          /\ IsXmin(xmin)
          /\ \/ /\ headLock' = [headLock EXCEPT ![sp] = NoOne]
                /\ worker' = [worker EXCEPT ![w] = At("finish", sp, 0)]
             \/ /\ headLock' = headLock
                /\ \E last \in cand(xmin) : worker' = [worker EXCEPT ![w] = new(last, xmin)]
    BY <1>6 DEF ReadBatch
  <2>4. CASE /\ headLock' = [headLock EXCEPT ![sp] = NoOne]
             /\ worker' = [worker EXCEPT ![w] = At("finish", sp, 0)]
    <3>1. At("finish", sp, 0).pc = "finish"
      BY DEF At, Slot
    <3>2. \A a \in Spaces : headLock[a] \in Workers \ {w} =>
              headLock'[a] = headLock[a] /\ head'[a] = head[a]
      BY <1>t, <2>1, <2>2, <2>4 DEF TypeOK
    <3>3. UNCHANGED writerVars
      BY <2>1 DEF writerVars
    <3> QED
      BY <1>q, <2>1, <2>4, <3>1, <3>2, <3>3
  <2>5. ASSUME NEW last \in cand(xmin), headLock' = headLock,
               worker' = [worker EXCEPT ![w] = new(last, xmin)]
        PROVE  ChainInv'
    <3>1. /\ \A v \in Workers \ {w} : worker'[v] = worker[v]
          /\ worker'[w] = new(last, xmin)
      BY <1>t, <2>5 DEF TypeOK
    <3>2. /\ worker'[w].pc = "write" /\ worker'[w].space = sp /\ worker'[w].key = me.key
          /\ worker'[w].count = me.count /\ worker'[w].last = last
          /\ worker'[w].batch = b(last, xmin)
      BY <3>1 DEF Slot
    <3>3. Locked(w)'
      BY <2>1, <2>2, <2>5, <3>2 DEF Locked
    <3>4. /\ last \in Seqs /\ Committed(last) /\ After(last, me.key)
          /\ txidOf[last] < xmin /\ spaceOf[last] = sp
      BY DEF Sealable
    <3>5. \A q \in Seqs : UpTo(q, last) => txidOf[q] < xmin
      <4>1. \A q \in Seqs : txidOf[q] \in Nat
        BY <1>t, SealingAssumption DEF TypeOK
      <4> QED
        BY <1>t, <3>4, <4>1, Order
    <3>6. \A q \in Seqs : q \in b(last, xmin) <=>
              Committed(q) /\ spaceOf[q] = sp /\ After(q, me.key) /\ UpTo(q, last)
      BY <3>5 DEF Sealable
    <3>7. \A q \in Seqs : InBatch(q, worker[w])' <=>
              Committed(q) /\ spaceOf[q] = sp /\ After(q, me.key) /\ UpTo(q, last)
      BY <2>1, <3>2 DEF InBatch, Committed, After, UpTo, Before
    <3>8. b(last, xmin) \subseteq Seqs
      BY DEF Sealable
    <3>9. b(last, xmin) = {q \in Seqs : InBatch(q, worker[w])'}
      BY <3>6, <3>7, <3>8
    <3>10. InBatch(last, worker[w])'
      BY <1>t, <3>4, <3>7, Order
    <3>11. \A t \in Txids : t <= txidOf[last] => Ended(t)
      <4>1. txidOf[last] \in Nat /\ xmin \in Nat
        BY <1>t, <3>4, SealingAssumption DEF TypeOK
      <4> QED
        BY <2>3, <3>4, <4>1 DEF IsXmin, Txids
    <3>12. Batched(w)'
      BY <2>1, <3>2, <3>9, <3>10, <3>11 DEF Batched, Ended
    <3> QED
      BY <1>6, <1>t, <2>1, <2>5, <3>1, <3>3, <3>12, OthersKept DEF ReadBatch, ChainInv, Readers
  <2> QED
    BY <2>3, <2>4, <2>5
\* A worker that seals lets the head go as it moves it.
<1>s. ASSUME NEW w \in Workers, worker[w].pc \in {"write", "orphan"}, Seals(w)
      PROVE  \A sp \in Spaces : headLock[sp] \in Workers \ {w} =>
                 headLock'[sp] = headLock[sp] /\ head'[sp] = head[sp]
  <2>1. headLock[worker[w].space] = w
    BY <1>s DEF ChainInv, Readers, Locked
  <2> QED
    BY <1>s, <1>t, <2>1 DEF Seals, TypeOK
<1>7. ASSUME NEW w \in Workers, WriteCheckpoint(w) PROVE ChainInv'
  <2>1. PICK new \in {At("finish", worker[w].space, 0),
                      At("lock", worker[w].space, worker[w].rounds + 1), Idle} :
          worker' = [worker EXCEPT ![w] = new]
    BY <1>7 DEF WriteCheckpoint
  <2>2. new.pc \notin {"read", "write", "orphan"}
    BY <2>1 DEF Idle, At, Slot
  <2>3. worker[w].pc \in {"write", "orphan"} /\ Seals(w) /\ UNCHANGED writerVars
    BY <1>7 DEF WriteCheckpoint
  <2> QED
    BY <1>q, <1>s, <1>t, <2>1, <2>2, <2>3, SealsChain
<1>8. ASSUME NEW w \in Workers, LockCursor(w) PROVE ChainInv'
  <2> DEFINE new == Slot("check", worker[w].space, 0, cursor, 0, {}, 0, FALSE)
  <2>1. new.pc = "check"
    BY DEF Slot
  <2>2. worker' = [worker EXCEPT ![w] = new]
    BY <1>8 DEF LockCursor
  <2> HIDE DEF new
  <2> QED
    BY <1>8, <1>q, <1>t, <2>1, <2>2, ChainKept DEF LockCursor, chainVars
<1>9. ASSUME NEW w \in Workers, FinishSeal(w) PROVE ChainInv'
  <2>1. Idle.pc = "idle"
    BY DEF Idle, At, Slot
  <2> QED
    BY <1>9, <1>q, <1>t, <2>1, ChainKept DEF FinishSeal, chainVars
<1>10. ASSUME NEW w \in Workers, OrphanEnds(w) PROVE ChainInv'
  <2>1. Idle.pc = "idle"
    BY DEF Idle, At, Slot
  <2>2. worker[w].pc = "orphan" /\ worker' = [worker EXCEPT ![w] = Idle] /\ UNCHANGED writerVars
    BY <1>10 DEF OrphanEnds
  <2>3. CASE Seals(w)
    BY <1>q, <1>s, <1>t, <2>1, <2>2, <2>3, SealsChain
  <2>4. CASE UNCHANGED chainVars /\ headLock' = [headLock EXCEPT ![worker[w].space] = NoOne]
    <3>1. headLock[worker[w].space] = w
      BY <2>2 DEF ChainInv, Readers, Locked
    <3>2. \A sp \in Spaces : headLock[sp] \in Workers \ {w} =>
              headLock'[sp] = headLock[sp] /\ head'[sp] = head[sp]
      BY <1>t, <2>4, <3>1 DEF chainVars, TypeOK
    <3> QED
      BY <1>q, <1>t, <2>1, <2>2, <2>4, <3>2, ChainKept
  <2> QED
    BY <1>10, <2>3, <2>4 DEF OrphanEnds
<1>11. ASSUME UNCHANGED <<writerVars, chainVars, headLock, worker>> PROVE ChainInv'
  <2>1. HeadEnded' /\ ChainVerifies'
    BY <1>11, <1>t, ChainKept
  <2>2. \A w \in Workers : Locked(w)'
    BY <1>11 DEF ChainInv, Readers, Locked, chainVars
  <2>3. \A q, me : InBatch(q, me)' <=> InBatch(q, me)
    BY <1>11 DEF writerVars, InBatch, Committed, After, UpTo, Before
  <2>4. \A w \in Workers : Batched(w)'
    BY <1>11, <2>3 DEF ChainInv, Readers, Batched, Ended, writerVars
  <2> QED
    BY <1>t, <2>1, <2>2, <2>4 DEF ChainInv, Readers
<1>12. ASSUME NEW x \in Sweepers, Sweeping(x) \/ FailSweep(x) PROVE ChainInv'
  BY <1>11, <1>12 DEF Sweeping, StartSweep, LockSweep, MoveCursor, FailSweep
<1>14. ASSUME NEW w \in Workers, FailSeal(w) PROVE ChainInv'
  <2>1. Idle.pc = "idle"
    BY DEF Idle, At, Slot
  <2>2. \A sp \in Spaces : headLock[sp] \in Workers \ {w} => headLock'[sp] = headLock[sp]
    BY <1>14, <1>t DEF FailSeal, TypeOK
  <2> QED
    BY <1>14, <1>q, <1>t, <2>1, <2>2, ChainKept DEF FailSeal, chainVars
<1>15. ASSUME NEW w \in Workers, TimeoutSeal(w) PROVE ChainInv'
  <2> DEFINE me == worker[w]
             new == Slot("orphan", me.space, me.rounds, me.key, me.count,
                         me.batch, me.last, me.more)
  <2>1. HeadEnded' /\ ChainVerifies' /\ UNCHANGED <<head, headLock, tx, txidOf, spaceOf>>
    BY <1>15, <1>t, ChainKept DEF TimeoutSeal, chainVars, writerVars
  <2>2. /\ \A v \in Workers \ {w} : worker'[v] = worker[v]
        /\ worker'[w] = new
    BY <1>15, <1>t DEF TimeoutSeal, TypeOK
  <2>3. /\ me.pc = "write" /\ worker'[w].space = me.space /\ worker'[w].key = me.key
        /\ worker'[w].count = me.count /\ worker'[w].last = me.last
        /\ worker'[w].batch = me.batch
    BY <1>15, <2>2 DEF TimeoutSeal, Slot
  <2>4. Locked(w)'
    BY <2>1, <2>3 DEF ChainInv, Readers, Locked
  <2>5. \A q : InBatch(q, worker[w])' <=> InBatch(q, worker[w])
    BY <2>1, <2>3 DEF InBatch, Committed, After, UpTo, Before
  <2>6. Batched(w)'
    BY <2>1, <2>3, <2>5 DEF ChainInv, Readers, Batched, Ended
  <2> QED
    BY <1>15, <1>t, <2>1, <2>2, <2>4, <2>6, OthersKept DEF TimeoutSeal, ChainInv, Readers
<1>16. CASE UNCHANGED vars
  BY <1>11, <1>16 DEF vars
<1> QED
  BY <1>1, <1>2, <1>3, <1>4, <1>5, <1>6, <1>7, <1>8, <1>9, <1>10, <1>12, <1>14, <1>15, <1>16
     DEF Next, Writing, Working, Failing

LEMMA ChainInit == Init => ChainInv
<1> SUFFICES ASSUME Init PROVE ChainInv
  OBVIOUS
<1>1. Typed
  BY TypedInit
<1>2. \A t \in Txids, sp \in Spaces : ~(t <= head[sp].key.txid)
  BY SealingAssumption DEF Init, Start, Txids
<1>3. \A w \in Workers : worker[w].pc = "idle"
  BY DEF Init, Idle, At, Slot
<1>4. \A sp : Reread(sp) = {}
  BY DEF Init, Reread, Committed
<1>5. ChainVerifies
  <2>1. \A s \in Seqs : position[s] = 0 /\ s \notin Reread(spaceOf[s])
    BY <1>4 DEF Init
  <2>2. \A sp \in Spaces : head[sp].position = 0 /\ Cardinality(Reread(sp)) = 0
    BY <1>4, FS_EmptySet DEF Init
  <2> QED
    BY <2>1, <2>2 DEF ChainVerifies
<1> QED
  BY <1>1, <1>2, <1>3, <1>5 DEF ChainInv, HeadEnded, Readers, Locked, Batched

\* In every state, every space's chain is what reading its receipts again up
\* to the head gives.
THEOREM ChainCorrect == Spec => []ChainVerifies
<1>1. ChainInv => ChainVerifies
  BY DEF ChainInv
<1> QED
  BY <1>1, ChainInit, ChainNext, PTL DEF Spec

----------------------------------------------------------------------------
\* The sweep

\* A transaction that has ended stays ended.
LEMMA EndedStays ==
    ASSUME TypeOK, [Next]_vars
    PROVE  \A t \in Txids : Ended(t) => Ended(t)'
<1>1. ASSUME NEW t \in Txids, Begin(t) \/ \E outcome \in {"committed", "aborted"} : End(t, outcome)
      PROVE  \A u \in Txids : Ended(u) => Ended(u)'
  BY <1>1 DEF Begin, End, Ended, TypeOK
<1>2. CASE UNCHANGED tx
  BY <1>2 DEF Ended
<1> QED
  BY <1>1, <1>2 DEF Next, Writing, WriteReceipt, Working, StartSeal, LockHead, ReadBatch,
     WriteCheckpoint, LockCursor, FinishSeal, OrphanEnds, Sweeping, StartSweep, LockSweep,
     MoveCursor, Failing, FailSeal, TimeoutSeal, FailSweep, vars, writerVars

\* What a sweep passes was written by transactions that had ended.
LEMMA CursorNext ==
    ASSUME TypeOK, TypeOK', CursorEnded, SweepEnded, [Next]_vars
    PROVE  CursorEnded' /\ SweepEnded'
<1>1. \A t \in Txids : Ended(t) => Ended(t)'
  BY EndedStays
<1>2. CASE UNCHANGED <<cursor, sweep>>
  BY <1>1, <1>2 DEF CursorEnded, SweepEnded
<1>3. ASSUME NEW x \in Sweepers, StartSweep(x) PROVE CursorEnded' /\ SweepEnded'
  <2>1. PICK xmin \in 1 .. MaxTxid + 1 :
          /\ \A t \in Txids : t < xmin => Ended(t)
          /\ sweep' = [sweep EXCEPT ![x] = [pc |-> "lock", xmin |-> xmin]]
    BY <1>3 DEF StartSweep, IsXmin
  <2> QED
    BY <1>1, <1>3, <2>1 DEF StartSweep, CursorEnded, SweepEnded, TypeOK
<1>4. ASSUME NEW x \in Sweepers, LockSweep(x) PROVE CursorEnded' /\ SweepEnded'
  BY <1>1, <1>4 DEF LockSweep, CursorEnded, SweepEnded, TypeOK
<1>5. ASSUME NEW x \in Sweepers, sweep' = [sweep EXCEPT ![x] = [pc |-> "idle", xmin |-> 0]]
      PROVE  SweepEnded'
  BY <1>1, <1>5 DEF SweepEnded, TypeOK
<1>6. ASSUME NEW x \in Sweepers, MoveCursor(x) PROVE CursorEnded' /\ SweepEnded'
  <2>1. CASE UNCHANGED cursor
    BY <1>1, <1>5, <1>6, <2>1 DEF MoveCursor, CursorEnded
  <2>2. ASSUME NEW last \in Sealable(cursor, sweep[x].xmin), cursor' = KeyOf(last)
        PROVE  CursorEnded'
    <3>1. txidOf[last] < sweep[x].xmin /\ last \in Seqs
      BY DEF Sealable
    <3>2. \A t \in Txids : t < sweep[x].xmin => Ended(t)
      BY <1>6 DEF MoveCursor, SweepEnded
    <3>3. txidOf[last] \in Nat /\ sweep[x].xmin \in Nat
      BY <3>1, SealingAssumption DEF TypeOK
    <3>4. cursor'.txid = txidOf[last]
      BY <2>2 DEF KeyOf
    <3> QED
      BY <1>1, <3>1, <3>2, <3>3, <3>4 DEF CursorEnded, Txids
  <2> QED
    BY <1>5, <1>6, <2>1, <2>2 DEF MoveCursor
<1>7. ASSUME NEW x \in Sweepers, FailSweep(x) PROVE CursorEnded' /\ SweepEnded'
  BY <1>1, <1>5, <1>7 DEF FailSweep, CursorEnded
<1> QED
  BY <1>2, <1>3, <1>4, <1>6, <1>7 DEF Next, Writing, Begin, WriteReceipt, End, Working,
     StartSeal, LockHead, ReadBatch, WriteCheckpoint, LockCursor, FinishSeal, OrphanEnds,
     Sweeping, Failing, FailSeal, TimeoutSeal, vars, cursorVars

\* The cursor stands still while a job that read it decides.
LEMMA SharedNext ==
    ASSUME Typed, Typed', Shared, [Next]_vars
    PROVE  Shared'
<1>t. /\ worker \in [Workers -> WorkerType] /\ cursorShare \subseteq Workers
      /\ sweep \in [Sweepers -> [pc : {"idle", "lock", "move"}, xmin : 0 .. MaxTxid + 1]]
      /\ NoOne \notin Sweepers
  BY SealingAssumption DEF Typed, TypeOK
\* A worker that isn't left deciding keeps no share of the cursor.
<1>1. ASSUME NEW w \in Workers, \A v \in Workers \ {w} : worker'[v] = worker[v],
             worker'[w].pc # "check", UNCHANGED cursorVars,
             cursorShare' = cursorShare \/ cursorShare' = cursorShare \ {w}
      PROVE  Shared'
  BY <1>1 DEF Shared, cursorVars
<1>2. CASE UNCHANGED <<worker, cursorVars, cursorShare>>
  BY <1>2 DEF Shared, cursorVars
<1>3. ASSUME NEW w \in Workers, NEW sp \in Spaces, StartSeal(w, sp) PROVE Shared'
  BY <1>1, <1>3, <1>t DEF StartSeal, At, Slot
<1>4. ASSUME NEW w \in Workers, LockHead(w) PROVE Shared'
  BY <1>1, <1>4, <1>t DEF LockHead, Slot
<1>5. ASSUME NEW w \in Workers, ReadBatch(w) PROVE Shared'
  <2> DEFINE me == worker[w]
             sp == me.space
             cand(xmin) == {s \in Sealable(me.key, xmin) : spaceOf[s] = sp}
             b(last, xmin) == {q \in cand(xmin) : UpTo(q, last)}
             new(last, xmin) == Slot("write", sp, me.rounds, me.key, me.count,
                                     b(last, xmin), last, b(last, xmin) # cand(xmin))
  <2>a. \/ worker' = [worker EXCEPT ![w] = At("finish", sp, 0)]
        \/ \E xmin \in 1 .. MaxTxid + 1 : \E last \in cand(xmin) :
              worker' = [worker EXCEPT ![w] = new(last, xmin)]
    BY <1>5 DEF ReadBatch
  <2>b. /\ At("finish", sp, 0).pc = "finish"
        /\ \A xmin, last : new(last, xmin).pc = "write"
    BY DEF At, Slot
  <2> HIDE DEF new
  <2>1. /\ \A v \in Workers \ {w} : worker'[v] = worker[v]
        /\ worker'[w].pc # "check"
    BY <1>t, <2>a, <2>b
  <2> QED
    BY <1>1, <1>5, <2>1 DEF ReadBatch
<1>6. ASSUME NEW w \in Workers, WriteCheckpoint(w) PROVE Shared'
  <2>1. /\ \A v \in Workers \ {w} : worker'[v] = worker[v]
        /\ worker'[w].pc # "check"
    BY <1>6, <1>t DEF WriteCheckpoint, Idle, At, Slot
  <2> QED
    BY <1>1, <1>6, <2>1 DEF WriteCheckpoint
<1>7. ASSUME NEW w \in Workers, LockCursor(w) PROVE Shared'
  <2>1. /\ \A v \in Workers \ {w} : worker'[v] = worker[v]
        /\ worker'[w].key = cursor
    BY <1>7, <1>t DEF LockCursor, Slot
  <2> QED
    BY <1>7, <2>1 DEF LockCursor, Shared, cursorVars
<1>8. ASSUME NEW w \in Workers, FinishSeal(w) PROVE Shared'
  BY <1>1, <1>8, <1>t DEF FinishSeal, Idle, At, Slot
<1>9. ASSUME NEW w \in Workers, OrphanEnds(w) PROVE Shared'
  BY <1>1, <1>9, <1>t DEF OrphanEnds, Idle, At, Slot
<1>10. ASSUME NEW w \in Workers, FailSeal(w) PROVE Shared'
  BY <1>1, <1>10, <1>t DEF FailSeal, Idle, At, Slot
<1>11. ASSUME NEW w \in Workers, TimeoutSeal(w) PROVE Shared'
  BY <1>1, <1>11, <1>t DEF TimeoutSeal, Slot
<1>12. ASSUME NEW x \in Sweepers, StartSweep(x) PROVE Shared'
  BY <1>12, <1>t DEF StartSweep, Shared
<1>13. ASSUME NEW x \in Sweepers, LockSweep(x) PROVE Shared'
  BY <1>13, <1>t DEF LockSweep, Shared
<1>14. ASSUME NEW x \in Sweepers, MoveCursor(x) PROVE Shared'
  <2>1. cursorShare = {} /\ \A w \in Workers : worker[w].pc # "check"
    BY <1>14, <1>t DEF MoveCursor, Shared
  <2>2. \A y \in Sweepers : sweep'[y].pc # "move"
    BY <1>14, <1>t DEF MoveCursor, Shared
  <2> QED
    BY <1>14, <2>1, <2>2 DEF MoveCursor, Shared
<1>15. ASSUME NEW x \in Sweepers, FailSweep(x) PROVE Shared'
  BY <1>15, <1>t DEF FailSweep, Shared
<1> QED
  BY <1>2, <1>3, <1>4, <1>5, <1>6, <1>7, <1>8, <1>9, <1>10, <1>11, <1>12, <1>13, <1>14, <1>15
     DEF Next, Writing, Begin, WriteReceipt, End, Working, Sweeping, Failing, vars

\* A head moves forward, and a receipt's place is fixed once its transaction
\* has ended.
LEMMA HeadForward ==
    ASSUME ChainInv, NEW w \in Workers, worker[w].pc \in {"write", "orphan"}, Seals(w),
           NEW sp \in Spaces, NEW q \in Seqs, After(q, head'[sp].key)
    PROVE  After(q, head[sp].key)
<1> DEFINE me == worker[w]
<1>1. TypeOK /\ me.last \in Seqs /\ me.space \in Spaces /\ me.key \in Keys
  BY DEF ChainInv, Typed, TypeOK, WorkerType
<1>2. me.key = head[me.space].key /\ After(me.last, me.key)
  BY DEF ChainInv, Readers, Locked, Batched, InBatch
<1>3. CASE sp = me.space
  <2>1. head'[sp].key = KeyOf(me.last)
    BY <1>1, <1>3 DEF Seals, TypeOK
  <2>2. ~UpTo(q, me.last)
    BY <1>1, <2>1, Order
  <2>3. ~After(q, me.key) => UpTo(q, me.last)
    BY <1>1, <1>2, Order
  <2> QED
    BY <1>2, <1>3, <2>2, <2>3
<1>4. CASE sp # me.space
  BY <1>4, <1>1 DEF Seals, TypeOK
<1> QED
  BY <1>3, <1>4

LEMMA PlaceFixed ==
    ASSUME TypeOK, [Next]_vars, NEW q \in Seqs, txidOf'[q] \in Txids, Ended(txidOf'[q])
    PROVE  /\ txidOf'[q] = txidOf[q] /\ spaceOf'[q] = spaceOf[q]
           /\ tx'[txidOf'[q]] = tx[txidOf'[q]]
<1>1. ASSUME NEW t \in Txids, Begin(t) \/ \E outcome \in {"committed", "aborted"} : End(t, outcome)
      PROVE  UNCHANGED <<txidOf, spaceOf>> /\ \A u \in Txids \ {t} : tx'[u] = tx[u]
  BY <1>1 DEF Begin, End, TypeOK
<1>2. ASSUME NEW t \in Txids, Begin(t) \/ \E outcome \in {"committed", "aborted"} : End(t, outcome)
      PROVE  ~Ended(t)
  BY <1>2 DEF Begin, End, Ended
<1>3. ASSUME NEW t \in Txids, NEW s \in Seqs, NEW sp \in Spaces, WriteReceipt(t, s, sp)
      PROVE  txidOf'[q] = txidOf[q] /\ spaceOf'[q] = spaceOf[q] /\ UNCHANGED tx
  BY <1>3 DEF WriteReceipt, Ended, TypeOK
<1>4. CASE UNCHANGED writerVars
  BY <1>4 DEF writerVars
<1> QED
  BY <1>1, <1>2, <1>3, <1>4 DEF Next, Writing, Working, StartSeal, LockHead, ReadBatch,
     WriteCheckpoint, LockCursor, FinishSeal, OrphanEnds, Sweeping, StartSweep, LockSweep,
     MoveCursor, Failing, FailSeal, TimeoutSeal, FailSweep, vars

\* A step either leaves the heads alone or is a worker's checkpoint.
LEMMA HeadSteps ==
    ASSUME [Next]_vars
    PROVE  \/ UNCHANGED head
           \/ \E w \in Workers : worker[w].pc \in {"write", "orphan"} /\ Seals(w) /\ UNCHANGED writerVars
BY DEF Next, Writing, Begin, WriteReceipt, End, Working, StartSeal, LockHead, ReadBatch,
     WriteCheckpoint, LockCursor, FinishSeal, OrphanEnds, Sweeping, StartSweep, LockSweep,
     MoveCursor, Failing, FailSeal, TimeoutSeal, FailSweep, vars, chainVars

\* While the cursor stands, nothing new is behind it and unsealed.
LEMMA UnsealedShrinks ==
    ASSUME ChainInv, Typed', CursorEnded, [Next]_vars, UNCHANGED cursor, NEW sp \in Spaces,
           NEW q \in Unsealed(sp, cursor)'
    PROVE  q \in Unsealed(sp, cursor)
<1>1. /\ q \in Seqs /\ Committed(q)' /\ spaceOf'[q] = sp
      /\ After(q, head[sp].key)' /\ ~After(q, cursor)'
  BY DEF Unsealed
<1>2. TypeOK /\ txidOf'[q] \in 0 .. MaxTxid /\ cursor \in Keys
  BY <1>1 DEF ChainInv, Typed, TypeOK
<1>3. txidOf'[q] # 0 /\ txidOf'[q] \in Txids /\ txidOf'[q] <= cursor.txid
  BY <1>1, <1>2, SealingAssumption DEF Committed, After, Txids, Keys
<1>4. Ended(txidOf'[q])
  BY <1>3 DEF CursorEnded
<1>5. /\ txidOf'[q] = txidOf[q] /\ spaceOf'[q] = spaceOf[q]
      /\ tx'[txidOf'[q]] = tx[txidOf'[q]]
  BY <1>1, <1>2, <1>3, <1>4, PlaceFixed
<1>6. Committed(q) /\ spaceOf[q] = sp /\ ~After(q, cursor)
  BY <1>1, <1>5 DEF Committed, After
<1>7. After(q, head'[sp].key)
  BY <1>1, <1>5 DEF After
<1>8. After(q, head[sp].key)
  BY <1>1, <1>7, HeadSteps, HeadForward
<1> QED
  BY <1>1, <1>6, <1>8 DEF Unsealed

LEMMA PassedNext ==
    ASSUME ChainInv, Typed', SweepInv, [Next]_vars
    PROVE  PassedHasJob'
<1> DEFINE Has(sp) == job[sp] \in Pending \/ discarded[sp]
<1>t. /\ TypeOK /\ \A sp \in Spaces : Unsealed(sp, cursor) # {} => Has(sp)
      /\ CursorEnded /\ SweepEnded /\ Shared
  BY DEF ChainInv, Typed, SweepInv, PassedHasJob
\* A space whose job a step leaves alone, while the cursor stands.
<1>1. ASSUME UNCHANGED cursor, NEW sp \in Spaces, Unsealed(sp, cursor)' # {}
      PROVE  Unsealed(sp, cursor) # {}
  BY <1>1, <1>t, UnsealedShrinks
<1>2. ASSUME UNCHANGED cursor,
             \A sp \in Spaces : Has(sp)' \/ Unsealed(sp, cursor) = {} \/ (Has(sp) => Has(sp)')
      PROVE  PassedHasJob'
  BY <1>1, <1>2, <1>t DEF PassedHasJob
<1>3. CASE UNCHANGED <<cursor, jobVars>>
  BY <1>2, <1>3 DEF jobVars
<1>4. ASSUME NEW w \in Workers, NEW sp \in Spaces, StartSeal(w, sp) PROVE PassedHasJob'
  <2>1. \A a \in Spaces : Has(a) => Has(a)'
    BY <1>4, <1>t DEF StartSeal, Pending, TypeOK
  <2> QED
    BY <1>2, <1>4, <2>1 DEF StartSeal, cursorVars
<1>5. ASSUME NEW w \in Workers, WriteCheckpoint(w) PROVE PassedHasJob'
  <2>1. \A a \in Spaces : Has(a) => Has(a)'
    BY <1>5, <1>t DEF WriteCheckpoint, Pending, TypeOK
  <2> QED
    BY <1>2, <1>5, <2>1 DEF WriteCheckpoint, cursorVars
<1>6. ASSUME NEW w \in Workers, FinishSeal(w) PROVE PassedHasJob'
  <2>1. worker[w].key = cursor
    BY <1>6, <1>t DEF FinishSeal, Shared
  <2>2. ASSUME NEW a \in Spaces
        PROVE  Has(a)' \/ Unsealed(a, cursor) = {} \/ (Has(a) => Has(a)')
    <3>1. CASE a = worker[w].space /\ Unsealed(a, cursor) # {}
      BY <1>6, <1>t, <2>1, <3>1 DEF FinishSeal, Pending, TypeOK
    <3>2. CASE a # worker[w].space
      BY <1>6, <1>t, <3>2 DEF FinishSeal, TypeOK
    <3> QED
      BY <3>1, <3>2
  <2> QED
    BY <1>2, <1>6, <2>2 DEF FinishSeal, cursorVars
<1>7. ASSUME NEW w \in Workers, Fails(worker[w].space), UNCHANGED cursor PROVE PassedHasJob'
  <2> DEFINE sp == worker[w].space
  <2>1. \A a \in Spaces : Has(a) => Has(a)'
    <3>1. CASE attempts[sp] + 1 < MaxAttempts
      <4>1. job' = [job EXCEPT ![sp] = "retryable"] /\ discarded' = discarded
        BY <1>7, <3>1 DEF Fails
      <4> QED
        BY <1>t, <4>1 DEF Pending, TypeOK
    <3>2. CASE ~(attempts[sp] + 1 < MaxAttempts)
      <4>1. /\ job' = [job EXCEPT ![sp] = "none"]
            /\ discarded' = [discarded EXCEPT ![sp] = TRUE]
        BY <1>7, <3>2 DEF Fails
      <4>2. \A a \in Spaces : discarded[a] => discarded'[a]
        BY <1>t, <4>1, Zenon DEF TypeOK
      <4>3. \A a \in Spaces : a = sp => discarded'[a]
        BY <1>t, <4>1, Zenon DEF TypeOK
      <4>4. \A a \in Spaces : a # sp => job'[a] = job[a]
        BY <1>t, <4>1 DEF TypeOK
      <4> QED
        BY <4>2, <4>3, <4>4
    <3> QED
      BY <3>1, <3>2
  <2> QED
    BY <1>2, <1>7, <2>1
<1>8. ASSUME NEW x \in Sweepers, MoveCursor(x) PROVE PassedHasJob'
  <2>1. CASE UNCHANGED <<cursor, jobVars>>
    BY <1>3, <2>1
  <2>2. ASSUME NEW last \in Sealable(cursor, sweep[x].xmin), cursor' = KeyOf(last),
               NEW spaces,
               spaces = {spaceOf[s] : s \in {q \in Sealable(cursor, sweep[x].xmin) : UpTo(q, last)}},
               Queues(spaces), UNCHANGED <<tx, txidOf, spaceOf, head>>
        PROVE  PassedHasJob'
    <3>1. last \in Seqs /\ txidOf[last] < sweep[x].xmin
      BY DEF Sealable
    \* A space the sweep's batch names has a job; the others' jobs stay.
    <3>2. \A sp \in Spaces : /\ sp \in spaces => job'[sp] \in Pending
                             /\ Has(sp) => Has(sp)'
      BY <2>2 DEF Queues, Pending
    <3>3. ASSUME NEW sp \in Spaces, NEW q \in Unsealed(sp, cursor)', sp \notin spaces
          PROVE  q \in Unsealed(sp, cursor)
      <4>1. /\ q \in Seqs /\ Committed(q) /\ spaceOf[q] = sp
            /\ After(q, head[sp].key) /\ ~After(q, KeyOf(last))
        BY <2>2 DEF Unsealed, Committed, After
      <4>2. UpTo(q, last) /\ txidOf[q] <= txidOf[last]
        BY <1>t, <3>1, <4>1, Order
      <4>3. txidOf[q] < sweep[x].xmin
        <5>1. txidOf[q] \in Nat /\ txidOf[last] \in Nat /\ sweep[x].xmin \in Nat
          BY <1>t, <3>1, <4>1, SealingAssumption DEF TypeOK
        <5> QED
          BY <3>1, <4>2, <5>1
      <4>4. q \notin Sealable(cursor, sweep[x].xmin)
        BY <2>2, <3>3, <4>1, <4>2
      <4>5. ~After(q, cursor)
        BY <4>1, <4>3, <4>4 DEF Sealable
      <4> QED
        BY <4>1, <4>5 DEF Unsealed
    <3> QED
      BY <1>t, <3>2, <3>3 DEF PassedHasJob
  <2> QED
    BY <1>8, <2>1, <2>2 DEF MoveCursor, writerVars, chainVars
<1> QED
  BY <1>3, <1>4, <1>5, <1>6, <1>7, <1>8 DEF Next, Writing, Begin, WriteReceipt, End, Working,
     LockHead, ReadBatch, LockCursor, OrphanEnds, Sweeping, StartSweep, LockSweep, Failing,
     FailSeal, TimeoutSeal, FailSweep, vars, cursorVars

LEMMA SweepInit == Init => SweepInv
<1> SUFFICES ASSUME Init PROVE SweepInv
  OBVIOUS
<1>1. CursorEnded
  BY SealingAssumption DEF Init, CursorEnded, Start, Txids
<1>2. SweepEnded
  BY DEF Init, SweepEnded
<1>3. Shared
  BY DEF Init, Shared, Idle, At, Slot
<1>4. PassedHasJob
  BY DEF Init, PassedHasJob, Unsealed, Committed
<1> QED
  BY <1>1, <1>2, <1>3, <1>4 DEF SweepInv

\* In every state, a receipt that the sweep's cursor has passed and no
\* checkpoint covers has a seal job, unless River gave its space's up.
THEOREM NonePassedBy == Spec => []PassedHasJob
<1>1. Init => ChainInv /\ SweepInv
  BY ChainInit, SweepInit
<1>2. ChainInv /\ SweepInv /\ [Next]_vars => (ChainInv /\ SweepInv)'
  <2> SUFFICES ASSUME ChainInv, SweepInv, [Next]_vars PROVE ChainInv' /\ SweepInv'
    OBVIOUS
  <2>1. ChainInv'
    BY ChainNext
  <2>2. Typed /\ TypeOK /\ Typed' /\ TypeOK'
    BY <2>1 DEF ChainInv, Typed
  <2>3. CursorEnded' /\ SweepEnded'
    BY <2>2, CursorNext DEF SweepInv
  <2>4. Shared'
    BY <2>2, SharedNext DEF SweepInv
  <2>5. PassedHasJob'
    BY <2>2, PassedNext
  <2> QED
    BY <2>1, <2>3, <2>4, <2>5 DEF SweepInv
<1>3. SweepInv => PassedHasJob
  BY DEF SweepInv
<1> QED
  BY <1>1, <1>2, <1>3, PTL DEF Spec

----------------------------------------------------------------------------
\* Places in the chain

\* In a set of n receipts the ranks are 1 .. n, each had by one receipt.
LEMMA RanksFill ==
    ASSUME TypeOK, NEW S \in SUBSET Seqs
    PROVE  /\ \A s \in S : Rank(s, S) \in 1 .. Cardinality(S)
           /\ \A p, q \in S : Rank(p, S) = Rank(q, S) => p = q
           /\ \A i \in 1 .. Cardinality(S) : \E s \in S : Rank(s, S) = i
<1> DEFINE up(s) == {q \in S : UpTo(q, s)}
           n == Cardinality(S)
<1>1. IsFiniteSet(S) /\ n \in Nat
  BY SeqsFinite
<1>n. \A s \in S : s \in Nat /\ txidOf[s] \in Nat
  BY SealingAssumption DEF TypeOK, Seqs
<1>2. ASSUME NEW s \in S PROVE Rank(s, S) \in 1 .. n
  <2>1. up(s) \in SUBSET S /\ up(s) \in SUBSET Seqs /\ s \in up(s)
    BY Order
  <2>2. Cardinality(up(s)) \in Nat /\ Cardinality(up(s)) <= n /\ IsFiniteSet(up(s))
    BY <1>1, <2>1, FS_Subset, SeqsFinite
  <2>3. Cardinality(up(s)) # 0
    BY <2>1, <2>2, FS_EmptySet
  <2> QED
    BY <1>1, <2>2, <2>3 DEF Rank
<1>3. ASSUME NEW p \in S, NEW q \in S, Rank(p, S) = Rank(q, S) PROVE p = q
  <2>1. ASSUME NEW a \in S, NEW b \in S, UpTo(a, b), Rank(a, S) = Rank(b, S) PROVE a = b
    <3>1. up(a) \subseteq up(b)
      BY <2>1, Order
    <3>2. IsFiniteSet(up(b)) /\ Cardinality(up(a)) = Cardinality(up(b))
      BY <2>1, SeqsFinite DEF Rank
    <3>3. up(a) = up(b)
      <4> HIDE DEF up
      <4> QED
        BY <3>1, <3>2, FS_Subset
    <3>4. b \in up(b)
      BY Order
    <3>5. UpTo(b, a)
      BY <3>3, <3>4
    <3> QED
      BY <1>n, <2>1, <3>5 DEF UpTo, Before
  <2>2. UpTo(p, q) \/ UpTo(q, p)
    BY <1>n DEF UpTo, Before
  <2> QED
    BY <1>3, <2>1, <2>2
<1>4. ASSUME NEW i \in 1 .. n PROVE \E s \in S : Rank(s, S) = i
  <2> DEFINE f == [s \in S |-> Rank(s, S)]
  <2>a. f \in [S -> 1 .. n] /\ \A p, q \in S : f[p] = f[q] => p = q
    BY <1>2, <1>3
  <2>1. f \in Injection(S, 1 .. n)
    <3> HIDE DEF f, n
    <3> QED
      BY <2>a DEF Injection, IsInjective
  <2>2. IsFiniteSet(1 .. n) /\ Cardinality(1 .. n) = n
    BY <1>1, FS_Interval
  <2>3. f \in Surjection(S, 1 .. n)
    BY <2>1, <2>2, FS_Injection
  <2>4. PICK s \in S : f[s] = i
    BY <2>3 DEF Surjection
  <2> QED
    BY <2>4
<1> QED
  BY <1>2, <1>3, <1>4

\* Each place up to a head is one receipt's, and a sealed receipt has one.
LEMMA PlacesFilled ==
    ASSUME TypeOK, ChainVerifies, NEW sp \in Spaces
    PROVE  /\ head[sp].position \in Nat
           /\ \A i \in 1 .. head[sp].position :
                  \E s \in Seqs : spaceOf[s] = sp /\ position[s] = i
           /\ \A s \in Seqs : spaceOf[s] = sp /\ position[s] # 0 =>
                  position[s] <= head[sp].position /\ s \in Reread(sp)
<1>1. Reread(sp) \in SUBSET Seqs /\ \A s \in Reread(sp) : spaceOf[s] = sp
  BY DEF Reread
<1>2. head[sp].position = Cardinality(Reread(sp)) /\ head[sp].position \in Nat
  BY DEF ChainVerifies, TypeOK
<1>3. \A s \in Reread(sp) : position[s] = Rank(s, Reread(sp))
  BY <1>1 DEF ChainVerifies
<1>4. \A s \in Seqs : spaceOf[s] = sp /\ position[s] # 0 => s \in Reread(sp)
  BY DEF ChainVerifies
<1>5. \A s \in Reread(sp) : Rank(s, Reread(sp)) \in 1 .. head[sp].position
  BY <1>1, <1>2, RanksFill
<1>6. \A i \in 1 .. head[sp].position : \E s \in Reread(sp) : Rank(s, Reread(sp)) = i
  BY <1>1, <1>2, RanksFill
<1> QED
  BY <1>1, <1>2, <1>3, <1>4, <1>5, <1>6

\* A receipt that is sealed is committed, so it was written by a transaction
\* that has ended.
LEMMA SealedEnded ==
    ASSUME TypeOK, ChainVerifies, NEW s \in Seqs, position[s] # 0
    PROVE  txidOf[s] \in Txids /\ Ended(txidOf[s])
<1>1. Committed(s)
  BY DEF ChainVerifies, Reread
<1> QED
  BY <1>1, SealingAssumption DEF Committed, Ended, TypeOK, Txids

----------------------------------------------------------------------------
\* Steps

\* A step either leaves the chain alone or is a worker's checkpoint.
LEMMA ChainSteps ==
    ASSUME [Next]_vars
    PROVE  \/ UNCHANGED chainVars
           \/ \E w \in Workers : worker[w].pc \in {"write", "orphan"} /\ Seals(w) /\ UNCHANGED writerVars
BY DEF Next, Writing, Begin, WriteReceipt, End, Working, StartSeal, LockHead, ReadBatch,
     WriteCheckpoint, LockCursor, FinishSeal, OrphanEnds, Sweeping, StartSweep, LockSweep,
     MoveCursor, Failing, FailSeal, TimeoutSeal, FailSweep, vars, chainVars

\* A sealed receipt keeps its space.
LEMMA SealedStays ==
    ASSUME TypeOK, ChainVerifies, [Next]_vars, NEW s \in Seqs, position[s] # 0
    PROVE  spaceOf'[s] = spaceOf[s]
<1>1. txidOf[s] \in Txids /\ Ended(txidOf[s]) /\ txidOf[s] # 0
  BY SealedEnded DEF Txids
<1>2. ASSUME NEW t \in Txids, NEW q \in Seqs, NEW sp \in Spaces, WriteReceipt(t, q, sp)
      PROVE  spaceOf'[s] = spaceOf[s]
  BY <1>1, <1>2 DEF WriteReceipt, TypeOK
<1> QED
  BY <1>2 DEF Next, Writing, Begin, End, Working, StartSeal, LockHead, ReadBatch,
     WriteCheckpoint, LockCursor, FinishSeal, OrphanEnds, Sweeping, StartSweep, LockSweep,
     MoveCursor, Failing, FailSeal, TimeoutSeal, FailSweep, vars, writerVars

\* What a checkpoint adds: a batch that isn't empty, placed after the head.
LEMMA SealsPlaces ==
    ASSUME ChainInv, NEW w \in Workers, worker[w].pc \in {"write", "orphan"}, Seals(w),
           NEW sp, sp = worker[w].space, NEW n, n = Cardinality(worker[w].batch)
    PROVE  /\ sp \in Spaces /\ n \in Nat \ {0}
           /\ head'[sp].position = head[sp].position + n
           /\ head'[sp].number = head[sp].number + 1
           /\ checkpoints'[sp] = Append(checkpoints[sp],
                  [from |-> head[sp].position + 1, to |-> head[sp].position + n])
           /\ \A other \in Spaces \ {sp} :
                  head'[other] = head[other] /\ checkpoints'[other] = checkpoints[other]
           /\ \A s \in Seqs : IF s \in worker[w].batch
                  THEN position[s] = 0 /\ spaceOf[s] = sp /\ position'[s] > head[sp].position
                  ELSE position'[s] = position[s]
<1> DEFINE me == worker[w]
<1>1. TypeOK /\ me.last \in Seqs /\ sp \in Spaces /\ me.key = head[sp].key
      /\ me.count = head[sp].position /\ me.count \in Nat /\ me.batch \in SUBSET Seqs
  BY DEF ChainInv, Typed, TypeOK, WorkerType, Readers, Locked
<1>2. me.last \in me.batch /\ me.batch = {q \in Seqs : InBatch(q, me)}
  BY <1>1 DEF ChainInv, Readers, Batched
<1>3. n \in Nat \ {0} /\ IsFiniteSet(me.batch)
  <2>1. n \in Nat /\ IsFiniteSet(me.batch)
    BY <1>1, SeqsFinite
  <2> QED
    BY <1>2, <2>1, FS_EmptySet
<1>4. /\ head'[sp].position = head[sp].position + n
      /\ head'[sp].number = head[sp].number + 1
      /\ \A other \in Spaces \ {sp} : head'[other] = head[other]
  BY <1>1 DEF Seals, TypeOK
<1>5. /\ checkpoints'[sp] = Append(checkpoints[sp],
            [from |-> head[sp].position + 1, to |-> head[sp].position + n])
      /\ \A other \in Spaces \ {sp} : checkpoints'[other] = checkpoints[other]
  BY <1>1 DEF Seals, TypeOK
<1>6. ASSUME NEW s \in me.batch
      PROVE  position[s] = 0 /\ spaceOf[s] = sp /\ position'[s] > head[sp].position
  <2>1. s \in Seqs /\ spaceOf[s] = sp /\ After(s, head[sp].key)
    BY <1>1, <1>2 DEF InBatch
  <2>2. position[s] = 0
    BY <2>1 DEF ChainInv, ChainVerifies, Reread
  <2>3. Rank(s, me.batch) \in 1 .. n
    BY <1>1, RanksFill
  <2>4. position'[s] = me.count + Rank(s, me.batch)
    BY <2>1 DEF Seals
  <2>5. \A r \in 1 .. n : me.count + r > me.count
    BY <1>1, <1>3
  <2> QED
    BY <1>1, <2>1, <2>2, <2>3, <2>4, <2>5
<1>7. \A s \in Seqs \ me.batch : position'[s] = position[s]
  BY DEF Seals
<1> QED
  BY <1>1, <1>3, <1>4, <1>5, <1>6, <1>7

----------------------------------------------------------------------------
\* The checkpoints

\* A space that has no checkpoint has nothing sealed, so its first
\* checkpoint starts at 1.
FirstAtOne == \A sp \in Spaces : head[sp].number = 0 => head[sp].position = 0
Tiled == CheckpointsTile /\ FirstAtOne

LEMMA TiledInit == Init => Tiled
BY DEF Init, Tiled, CheckpointsTile, FirstAtOne

LEMMA TiledNext ==
    ASSUME ChainInv, Tiled, [Next]_vars
    PROVE  Tiled'
<1>t. TypeOK
  BY DEF ChainInv, Typed
<1>1. CASE UNCHANGED chainVars
  BY <1>1 DEF chainVars, Tiled, CheckpointsTile, FirstAtOne
<1>2. ASSUME NEW w \in Workers, worker[w].pc \in {"write", "orphan"}, Seals(w)
      PROVE  Tiled'
  <2>1. PICK sp, n : sp = worker[w].space /\ n = Cardinality(worker[w].batch)
    OBVIOUS
  <2> DEFINE c == checkpoints[sp]
             p == head[sp].position
             new == [from |-> p + 1, to |-> p + n]
  <2>2. /\ sp \in Spaces /\ n \in Nat \ {0}
        /\ head'[sp].position = p + n /\ head'[sp].number = head[sp].number + 1
        /\ checkpoints'[sp] = Append(c, new)
        /\ \A other \in Spaces \ {sp} :
               head'[other] = head[other] /\ checkpoints'[other] = checkpoints[other]
    BY <1>2, <2>1, SealsPlaces
  <2>3. c \in Seq([from : Nat, to : Nat]) /\ p \in Nat /\ head[sp].number = Len(c)
    BY <1>t, <2>2 DEF TypeOK, Tiled, CheckpointsTile
  <2>4. /\ \A i \in 1 .. Len(c) :
               c[i].from = (IF i = 1 THEN 1 ELSE c[i - 1].to + 1) /\ c[i].from <= c[i].to
        /\ Len(c) > 0 => c[Len(c)].to = p
        /\ Len(c) = 0 => p = 0
    BY <2>2, <2>3 DEF Tiled, CheckpointsTile, FirstAtOne
  <2> DEFINE d == Append(c, new)
             m == Len(c) + 1
  <2>5. /\ Len(d) = m /\ d[m] = new /\ \A i \in 1 .. Len(c) : d[i] = c[i]
        /\ Len(c) \in Nat
    BY <2>2, <2>3
  <2> HIDE DEF d, c, p
  <2>6. /\ new.from = p + 1 /\ new.to = p + n /\ new.from <= new.to
    BY <2>2, <2>3
  <2>7. new.from = IF m = 1 THEN 1 ELSE d[m - 1].to + 1
    BY <2>4, <2>5, <2>6
  <2>8. \A i \in 1 .. m :
            d[i].from = (IF i = 1 THEN 1 ELSE d[i - 1].to + 1) /\ d[i].from <= d[i].to
    <3>1. \A i \in 1 .. Len(c) : i # 1 => i - 1 \in 1 .. Len(c)
      BY <2>5
    <3>2. \A i \in 1 .. m : i \in 1 .. Len(c) \/ i = m
      BY <2>5
    <3> HIDE DEF m, new
    <3> QED
      BY <2>4, <2>5, <2>6, <2>7, <3>1, <3>2
  <2>9. /\ Len(d) = head'[sp].number /\ head'[sp].number # 0
        /\ d[Len(d)].to = head'[sp].position
    BY <2>2, <2>3, <2>5, <2>6 DEF c, p
  <2> DEFINE Good(chk, h) ==
               /\ Len(chk) = h.number
               /\ \A i \in 1 .. Len(chk) :
                     /\ chk[i].from = IF i = 1 THEN 1 ELSE chk[i - 1].to + 1
                     /\ chk[i].from <= chk[i].to
               /\ Len(chk) > 0 => chk[Len(chk)].to = h.position
               /\ h.number = 0 => h.position = 0
  <2>10. Good(checkpoints'[sp], head'[sp])
    <3>1. checkpoints'[sp] = d
      BY <2>2 DEF d, c
    <3>2. Good(d, head'[sp])
      BY <2>5, <2>8, <2>9
    <3> QED
      BY <3>1, <3>2
  <2>11. \A other \in Spaces \ {sp} : Good(checkpoints'[other], head'[other])
    <3>1. \A other \in Spaces : Good(checkpoints[other], head[other])
      BY DEF Tiled, CheckpointsTile, FirstAtOne
    <3> HIDE DEF Good
    <3> QED
      BY <2>2, <3>1
  <2>12. \A other \in Spaces : Good(checkpoints'[other], head'[other])
    <3> HIDE DEF Good
    <3> QED
      BY <2>10, <2>11
  <2> QED
    BY <2>12 DEF Tiled, CheckpointsTile, FirstAtOne
<1> QED
  BY <1>1, <1>2, ChainSteps

\* A space's checkpoints are numbered without a gap and cover its chain
\* without a hole or an overlap, however its seal jobs time out, overlap and
\* commit late (recordCheckpoint, NewVerifier).
THEOREM CheckpointsCover == Spec => []CheckpointsTile
<1>1. Init => ChainInv /\ Tiled
  BY ChainInit, TiledInit
<1>2. ChainInv /\ Tiled /\ [Next]_vars => (ChainInv /\ Tiled)'
  BY ChainNext, TiledNext
<1>3. Tiled => CheckpointsTile
  BY DEF Tiled
<1> QED
  BY <1>1, <1>2, <1>3, PTL DEF Spec

----------------------------------------------------------------------------
\* The log

LEMMA LogInit == Init => Log!Init
BY DEF Init, Log!Init, ChainLog

\* A receipt has the place it had, and no other has it, after every step.
LEMMA PlacesKept ==
    ASSUME ChainInv, [Next]_vars, NEW sp \in Spaces, NEW i \in 1 .. head[sp].position,
           NEW s \in Seqs
    PROVE  (spaceOf'[s] = sp /\ position'[s] = i) <=> (spaceOf[s] = sp /\ position[s] = i)
<1>t. TypeOK /\ TypeOK' /\ ChainVerifies /\ ChainVerifies'
  BY ChainNext DEF ChainInv, Typed
<1>1. head[sp].position \in Nat /\ i # 0 /\ i <= head[sp].position
  <2>1. head[sp].position \in Nat
    BY <1>t DEF TypeOK
  <2> QED
    BY <2>1
<1>2. position[s] # 0 => spaceOf'[s] = spaceOf[s]
  BY <1>t, SealedStays
<1>3. CASE UNCHANGED chainVars
  BY <1>1, <1>2, <1>3 DEF chainVars
<1>4. ASSUME NEW w \in Workers, worker[w].pc \in {"write", "orphan"}, Seals(w), UNCHANGED writerVars
      PROVE  (spaceOf'[s] = sp /\ position'[s] = i) <=> (spaceOf[s] = sp /\ position[s] = i)
  <2>1. spaceOf'[s] = spaceOf[s]
    BY <1>4 DEF writerVars
  <2>2. CASE s \in worker[w].batch
    <3>1. position[s] = 0 /\ spaceOf[s] = worker[w].space
          /\ position'[s] > head[worker[w].space].position
      BY <1>4, <2>2, SealsPlaces
    <3>2. spaceOf[s] = sp => position'[s] # i
      BY <1>1, <3>1
    <3> QED
      BY <1>1, <2>1, <3>1, <3>2
  <2>3. CASE s \notin worker[w].batch
    <3>1. position'[s] = position[s]
      BY <1>4, <2>3, SealsPlaces
    <3> QED
      BY <2>1, <3>1
  <2> QED
    BY <2>2, <2>3
<1> QED
  BY <1>3, <1>4, ChainSteps

\* The chain read as a log: at each place the one receipt that has it.
LogRead ==
    \A sp \in Spaces :
        /\ head[sp].position \in Nat
        /\ ChainLog[sp] \in Seq(Seqs) /\ Len(ChainLog[sp]) = head[sp].position
        /\ \A i \in 1 .. head[sp].position :
               spaceOf[ChainLog[sp][i]] = sp /\ position[ChainLog[sp][i]] = i

LEMMA LogReads == TypeOK /\ ChainVerifies => LogRead
<1> SUFFICES ASSUME TypeOK, ChainVerifies, NEW sp \in Spaces
             PROVE  /\ head[sp].position \in Nat
                    /\ ChainLog[sp] \in Seq(Seqs) /\ Len(ChainLog[sp]) = head[sp].position
                    /\ \A i \in 1 .. head[sp].position :
                           spaceOf[ChainLog[sp][i]] = sp /\ position[ChainLog[sp][i]] = i
  BY DEF LogRead
<1> DEFINE Has(i) == CHOOSE s \in Seqs : spaceOf[s] = sp /\ position[s] = i
           n == head[sp].position
<1>1. n \in Nat /\ \A i \in 1 .. n : \E s \in Seqs : spaceOf[s] = sp /\ position[s] = i
  BY PlacesFilled
<1>2. \A i \in 1 .. n : Has(i) \in Seqs /\ spaceOf[Has(i)] = sp /\ position[Has(i)] = i
  BY <1>1
<1>3. ChainLog[sp] = [i \in 1 .. n |-> Has(i)]
  BY DEF ChainLog
<1> HIDE DEF Has, n
<1>4. /\ ChainLog[sp] \in Seq(Seqs) /\ Len(ChainLog[sp]) = n
      /\ \A i \in 1 .. n : ChainLog[sp][i] = Has(i)
  BY <1>1, <1>2, <1>3
<1> QED
  BY <1>1, <1>2, <1>4 DEF n

\* Up to where the head stood, the log reads as it did.
LEMMA LogKept ==
    ASSUME ChainInv, [Next]_vars, NEW sp \in Spaces
    PROVE  \A i \in 1 .. head[sp].position :
               i <= head'[sp].position => ChainLog'[sp][i] = ChainLog[sp][i]
<1> SUFFICES ASSUME NEW i \in 1 .. head[sp].position, i <= head'[sp].position
             PROVE  ChainLog'[sp][i] = ChainLog[sp][i]
  OBVIOUS
<1>1. TypeOK /\ TypeOK'
  BY ChainNext DEF ChainInv, Typed
<1>2. head[sp].position \in Nat /\ head'[sp].position \in Nat
  BY <1>1 DEF TypeOK
<1>3. i \in 1 .. head'[sp].position
  BY <1>2
<1>4. ChainLog[sp][i] = CHOOSE s \in Seqs : spaceOf[s] = sp /\ position[s] = i
  BY DEF ChainLog
<1>5. ChainLog'[sp][i] = CHOOSE s \in Seqs : spaceOf'[s] = sp /\ position'[s] = i
  BY <1>3 DEF ChainLog
<1>6. \A s \in Seqs : (spaceOf'[s] = sp /\ position'[s] = i)
                         <=> (spaceOf[s] = sp /\ position[s] = i)
  BY PlacesKept
<1> QED
  BY <1>4, <1>5, <1>6

\* A step that isn't a checkpoint of a space leaves its log alone.
LEMMA LogStands ==
    ASSUME ChainInv, [Next]_vars, NEW sp \in Spaces, head'[sp] = head[sp]
    PROVE  ChainLog'[sp] = ChainLog[sp]
<1>1. \A i \in 1 .. head[sp].position : ChainLog'[sp][i] = ChainLog[sp][i]
  <2>1. TypeOK
    BY DEF ChainInv, Typed
  <2>2. head[sp].position \in Nat
    BY <2>1 DEF TypeOK
  <2> QED
    BY <2>2, LogKept
<1>2. ChainLog[sp] = [i \in 1 .. head[sp].position |-> ChainLog[sp][i]]
  BY DEF ChainLog
<1>3. ChainLog'[sp] = [i \in 1 .. head[sp].position |-> ChainLog'[sp][i]]
  BY DEF ChainLog
<1> QED
  BY <1>1, <1>2, <1>3

\* A checkpoint extends its space's log and no other.
LEMMA SealsExtends ==
    ASSUME ChainInv, [Next]_vars, NEW w \in Workers, worker[w].pc \in {"write", "orphan"}, Seals(w),
           NEW sp, sp = worker[w].space
    PROVE  sp \in Spaces /\ Log!Extend(sp)
<1>t. TypeOK /\ TypeOK' /\ ChainVerifies /\ ChainVerifies'
  BY ChainNext DEF ChainInv, Typed
<1>1. PICK n : n = Cardinality(worker[w].batch)
  OBVIOUS
<1>2. LogRead /\ LogRead'
  <2>1. LogRead
    BY <1>t, LogReads
  <2>2. LogRead'
    BY <1>t, LogReads, PTL
  <2> QED
    BY <2>1, <2>2
<1>s. /\ sp \in Spaces /\ n \in Nat \ {0} /\ head'[sp].position = head[sp].position + n
      /\ \A other \in Spaces \ {sp} : head'[other] = head[other]
  <2>1. sp = worker[w].space /\ n = Cardinality(worker[w].batch)
    BY <1>1
  <2>2. /\ sp \in Spaces /\ n \in Nat \ {0} /\ head'[sp].position = head[sp].position + n
        /\ checkpoints'[sp] = Append(checkpoints[sp],
               [from |-> head[sp].position + 1, to |-> head[sp].position + n])
        /\ \A other \in Spaces \ {sp} :
               head'[other] = head[other] /\ checkpoints'[other] = checkpoints[other]
    BY <2>1, SealsPlaces
  <2> QED
    BY <2>2
<1> DEFINE old == ChainLog[sp]
           new == ChainLog'[sp]
           p == head[sp].position
<1>3. /\ old \in Seq(Seqs) /\ Len(old) = p /\ p \in Nat
      /\ \A i \in 1 .. p : position[old[i]] = i
  BY <1>2, <1>s DEF LogRead
<1>4. /\ new \in Seq(Seqs) /\ Len(new) = p + n
      /\ \A i \in 1 .. p + n : position'[new[i]] = i
  BY <1>2, <1>s DEF LogRead
<1>5. \A i \in 1 .. p : new[i] = old[i]
  BY <1>s, <1>3, LogKept
<1>6. \A other \in Spaces \ {sp} : ChainLog'[other] = ChainLog[other]
  BY <1>s, LogStands
<1> HIDE DEF old, new, p
<1>7. SubSeq(new, 1, Len(old)) = old
  BY <1>s, <1>3, <1>4, <1>5
<1>8. \A i, j \in DOMAIN new : new[i] = new[j] => i = j
  BY <1>4
<1>9. Len(new) > Len(old) /\ \A i \in DOMAIN new : new[i] \in Seqs
  BY <1>s, <1>3, <1>4
<1> QED
  BY <1>s, <1>6, <1>7, <1>8, <1>9 DEF Log!Extend, Log!NoRepeat, old, new

\* The receipt chain implements the log its verifiers count on: each
\* checkpoint puts receipts on the end of one space's log, no receipt is put
\* in twice, and no step takes one out or moves it (seal.go, verify.go).
THEOREM ImplementsLog == Spec => LogSpec
<1>1. Init => ChainInv
  BY ChainInit
<1>2. ChainInv /\ [Next]_vars => ChainInv'
  BY ChainNext
<1>3. Init => Log!Init
  BY LogInit
<1>4. ChainInv /\ [Next]_vars => [Log!Next]_ChainLog
  <2> SUFFICES ASSUME ChainInv, [Next]_vars
               PROVE  Log!Next \/ ChainLog' = ChainLog
    OBVIOUS
  <2>1. CASE UNCHANGED chainVars
    <3>1. \A sp \in Spaces : ChainLog'[sp] = ChainLog[sp]
      BY <2>1, LogStands DEF chainVars
    <3>2. ChainLog = [sp \in Spaces |-> ChainLog[sp]] /\ ChainLog' = [sp \in Spaces |-> ChainLog'[sp]]
      BY DEF ChainLog
    <3> QED
      BY <3>1, <3>2
  <2>2. ASSUME NEW w \in Workers, worker[w].pc \in {"write", "orphan"}, Seals(w)
        PROVE  Log!Next
    BY <2>2, SealsExtends DEF Log!Next
  <2> QED
    BY <2>1, <2>2, ChainSteps
<1> QED
  BY <1>1, <1>2, <1>3, <1>4, PTL DEF Spec, LogSpec, Log!Spec

============================================================================

------------------------------ MODULE Sealing ------------------------------
(***************************************************************************)
(* The receipt hash chain of packages/server/internal: transactions write  *)
(* receipts (migration 039's receipts_stamp gives each its transaction's   *)
(* txid), a periodic sweep moves a cursor over the receipts whose          *)
(* transactions have ended and queues one seal job per space, and a seal   *)
(* job chains its space's receipts, in (txid, seq) order, into             *)
(* checkpoints (ledger/seal.go, sealer/sealer.go, sealer/jobs.go).         *)
(*                                                                         *)
(* A receipt is its seq: the identity column never gives one out twice.    *)
(* A hash is the sequence it is taken over, so a space's chain is the      *)
(* position each receipt has in it.  Locks are held by the database        *)
(* session of one worker or sweep, and end with its transaction.           *)
(***************************************************************************)
EXTENDS Naturals, FiniteSets, Sequences

CONSTANTS
    Spaces,       \* the spaces whose receipts are sealed
    Workers,      \* the seal queue's worker slots (sealer.MaxWorkers)
    Sweepers,     \* seal_sweep jobs that may run at once
    MaxTxid,      \* bound: transactions that may begin
    MaxSeq,       \* bound: receipts that may be written
    Batch,        \* the most receipts one checkpoint covers
    SweepBatch,   \* the most receipts one sweep passes
    MaxBatches,   \* the most checkpoints one seal job writes
    MaxAttempts,  \* River's MaxAttempts of seal_space
    MaxFailures,  \* bound: attempts and sweeps that may fail
    NoOne         \* the holder of a lock nobody holds

ASSUME SealingAssumption ==
    /\ MaxTxid \in Nat /\ MaxSeq \in Nat
    /\ Batch \in Nat \ {0} /\ SweepBatch \in Nat \ {0}
    /\ MaxBatches \in Nat \ {0} /\ MaxAttempts \in Nat \ {0}
    /\ MaxFailures \in Nat
    /\ Spaces # {}
    /\ NoOne \notin Workers \cup Sweepers

Txids == 1 .. MaxTxid
Seqs == 1 .. MaxSeq
\* A place in the (txid, seq) order; the start is before every receipt.
Keys == [txid : 0 .. MaxTxid, seq : 0 .. MaxSeq]
Start == [txid |-> 0, seq |-> 0]

VARIABLES
    tx,           \* a transaction is "unused", "open", "committed", "aborted"
    txidOf,       \* the transaction a receipt was written by (0: unwritten)
    spaceOf,      \* the space of a written receipt
    position,     \* where a receipt is in its space's chain (0: unsealed)
    head,         \* receipt_chain_heads: the last key, and how many are sealed
    checkpoints,  \* receipt_checkpoints: the ranges sealed, in number order
    headLock,     \* who holds the head row FOR UPDATE
    worker,       \* what each worker slot is doing
    job,          \* the space's seal_space job, by River state
    attempts,     \* how many attempts of that job failed
    discarded,    \* River gave the space's last job up
    cursor,       \* receipt_seal_cursor
    cursorLock,   \* the sweep that holds the cursor FOR UPDATE
    cursorShare,  \* the workers that hold it FOR SHARE
    sweep,        \* what each sweep is doing, and the xmin it read
    failures      \* how many attempts and sweeps have failed

writerVars == <<tx, txidOf, spaceOf>>
chainVars == <<position, head, checkpoints>>
jobVars == <<job, attempts, discarded>>
cursorVars == <<cursor, cursorLock, sweep>>
vars == <<writerVars, chainVars, headLock, worker, jobVars, cursorVars,
          cursorShare, failures>>

----------------------------------------------------------------------------
\* The order of the chain, and the watermark

Ended(t) == tx[t] \in {"committed", "aborted"}

\* mutant: the watermark forgets the transactions still in flight
IsNextTxid(x) ==
    /\ \A t \in Txids : t < x => tx[t] # "unused"
    /\ x \in Txids => tx[x] = "unused"

\* pg_snapshot_xmin: the first transaction that hasn't ended, or the next
\* to begin.
IsXmin(x) ==
    /\ \A t \in Txids : t < x => Ended(t)
    /\ x \in Txids => ~Ended(x)

Committed(s) == txidOf[s] # 0 /\ tx[txidOf[s]] = "committed"

Before(q, s) == txidOf[q] < txidOf[s] \/ (txidOf[q] = txidOf[s] /\ q < s)
UpTo(q, s) == q = s \/ Before(q, s)
After(s, k) == txidOf[s] > k.txid \/ (txidOf[s] = k.txid /\ s > k.seq)
\* mutant: the key's columns change places
KeyOfSwapped(s) == [txid |-> s, seq |-> txidOf[s]]

KeyOf(s) == [txid |-> txidOf[s], seq |-> s]

Rank(s, S) == Cardinality({q \in S : UpTo(q, s)})

\* What ORDER BY txid, seq LIMIT n takes of S when last is its last row.
Takes(S, n, last) ==
    LET b == {q \in S : UpTo(q, last)} IN
    Cardinality(b) = n \/ (b = S /\ Cardinality(b) < n)

----------------------------------------------------------------------------
\* The workers' records

Phases == {"idle", "lock", "read", "write", "orphan", "finish", "check"}
\* A slot in a job of space sp that has written n checkpoints: the key and
\* count it read, and the batch it would seal, with its last receipt and
\* whether receipts were left.
Slot(pc, sp, n, k, c, b, last, more) ==
    [pc |-> pc, space |-> sp, rounds |-> n, key |-> k, count |-> c,
     batch |-> b, last |-> last, more |-> more]
\* A slot that holds nothing it read.
At(pc, sp, n) == Slot(pc, sp, n, Start, 0, {}, 0, FALSE)
AnySpace == CHOOSE sp \in Spaces : TRUE
Idle == At("idle", AnySpace, 0)
Pending == {"available", "running", "retryable"}

Init ==
    /\ tx = [t \in Txids |-> "unused"]
    /\ txidOf = [s \in Seqs |-> 0]
    /\ spaceOf = [s \in Seqs |-> AnySpace]
    /\ position = [s \in Seqs |-> 0]
    /\ head = [sp \in Spaces |-> [key |-> Start, position |-> 0, number |-> 0]]
    /\ checkpoints = [sp \in Spaces |-> <<>>]
    /\ headLock = [sp \in Spaces |-> NoOne]
    /\ worker = [w \in Workers |-> Idle]
    /\ job = [sp \in Spaces |-> "none"]
    /\ attempts = [sp \in Spaces |-> 0]
    /\ discarded = [sp \in Spaces |-> FALSE]
    /\ cursor = Start
    /\ cursorLock = NoOne
    /\ cursorShare = {}
    /\ sweep = [x \in Sweepers |-> [pc |-> "idle", xmin |-> 0]]
    /\ failures = 0

----------------------------------------------------------------------------
\* Transactions that write receipts

\* A transaction's first write assigns its txid, above every one assigned.
Begin(t) ==
    /\ tx[t] = "unused"
    /\ \A u \in Txids : u < t => tx[u] # "unused"
    /\ tx' = [tx EXCEPT ![t] = "open"]
    /\ UNCHANGED <<txidOf, spaceOf, chainVars, headLock, worker, jobVars,
                   cursorVars, cursorShare, failures>>

\* An insert into v2.receipts takes the next seq, whatever other
\* transactions do, and is stamped with its transaction's txid.
WriteReceipt(t, s, sp) ==
    /\ tx[t] = "open"
    /\ txidOf[s] = 0
    /\ \A q \in Seqs : q < s => txidOf[q] # 0
    /\ txidOf' = [txidOf EXCEPT ![s] = t]
    /\ spaceOf' = [spaceOf EXCEPT ![s] = sp]
    /\ UNCHANGED <<tx, chainVars, headLock, worker, jobVars, cursorVars,
                   cursorShare, failures>>

End(t, outcome) ==
    /\ tx[t] = "open"
    /\ tx' = [tx EXCEPT ![t] = outcome]
    /\ UNCHANGED <<txidOf, spaceOf, chainVars, headLock, worker, jobVars,
                   cursorVars, cursorShare, failures>>

----------------------------------------------------------------------------
\* seal_space: one attempt of a space's job on a worker slot

\* River starts the job on a free slot.
StartSeal(w, sp) ==
    /\ worker[w].pc = "idle"
    /\ job[sp] \in {"available", "retryable"}
    /\ job' = [job EXCEPT ![sp] = "running"]
    /\ worker' = [worker EXCEPT ![w] = At("lock", sp, 0)]
    /\ UNCHANGED <<writerVars, chainVars, headLock, attempts, discarded,
                   cursorVars, cursorShare, failures>>

\* mutant: the head row is read without its lock
LockHeadUnlocked(w) ==
    LET sp == worker[w].space IN
    /\ worker[w].pc = "lock"
    /\ headLock' = [headLock EXCEPT ![sp] = w]
    /\ worker' = [worker EXCEPT ![w] = Slot("read", sp, worker[w].rounds,
                       head[sp].key, head[sp].position, {}, 0, FALSE)]
    /\ UNCHANGED <<writerVars, chainVars, jobVars, cursorVars, cursorShare,
                   failures>>

\* loadHead takes the head row FOR UPDATE and reads where the chain stands.
LockHead(w) ==
    LET sp == worker[w].space IN
    /\ worker[w].pc = "lock"
    /\ headLock[sp] = NoOne
    /\ headLock' = [headLock EXCEPT ![sp] = w]
    /\ worker' = [worker EXCEPT ![w] = Slot("read", sp, worker[w].rounds,
                       head[sp].key, head[sp].position, {}, 0, FALSE)]
    /\ UNCHANGED <<writerVars, chainVars, jobVars, cursorVars, cursorShare,
                   failures>>

\* The receipts after key k whose transactions ended below the watermark x.
Sealable(k, x) == {s \in Seqs : Committed(s) /\ After(s, k) /\ txidOf[s] < x}

\* The batch is read in one snapshot, taken after the lock was granted.
ReadBatch(w) ==
    \E xmin \in 1 .. MaxTxid + 1 :
    LET me == worker[w]
        sp == me.space
        cand == {s \in Sealable(me.key, xmin) : spaceOf[s] = sp}
    IN
    /\ me.pc = "read"
    /\ IsXmin(xmin)
    /\ \/ /\ cand = {}
          /\ headLock' = [headLock EXCEPT ![sp] = NoOne]
          /\ worker' = [worker EXCEPT ![w] = At("finish", sp, 0)]
       \/ \E last \in cand :
             LET b == {q \in cand : UpTo(q, last)} IN
             /\ Takes(cand, Batch, last)
             /\ worker' = [worker EXCEPT ![w] = Slot("write", sp, me.rounds,
                                me.key, me.count, b, last, b # cand)]
             /\ UNCHANGED headLock
    /\ UNCHANGED <<writerVars, chainVars, jobVars, cursorVars, cursorShare,
                   failures>>

\* mutant: a checkpoint's range starts at the last one's end
SealsOverlapping(w) ==
    LET me == worker[w]
        to == me.count + Cardinality(me.batch)
    IN
    /\ position' = [s \in Seqs |-> IF s \in me.batch
                                     THEN me.count + Rank(s, me.batch)
                                     ELSE position[s]]
    /\ head' = [head EXCEPT ![me.space] =
                   [key |-> KeyOf(me.last), position |-> to, number |-> @.number + 1]]
    /\ checkpoints' = [checkpoints EXCEPT ![me.space] =
                   Append(@, [from |-> me.count, to |-> to])]
    /\ headLock' = [headLock EXCEPT ![me.space] = NoOne]

\* The checkpoint and the moved head, as the transaction commits them: from
\* what the worker read, not from what the rows hold now.
Seals(w) ==
    LET me == worker[w]
        to == me.count + Cardinality(me.batch)
    IN
    /\ position' = [s \in Seqs |-> IF s \in me.batch
                                     THEN me.count + Rank(s, me.batch)
                                     ELSE position[s]]
    /\ head' = [head EXCEPT ![me.space] =
                   [key |-> KeyOf(me.last), position |-> to, number |-> @.number + 1]]
    /\ checkpoints' = [checkpoints EXCEPT ![me.space] =
                   Append(@, [from |-> me.count + 1, to |-> to])]
    /\ headLock' = [headLock EXCEPT ![me.space] = NoOne]

\* A full batch is followed by another, up to MaxBatches a job; then the
\* job snoozes (which costs it no attempt) and continues later.
WriteCheckpoint(w) ==
    LET me == worker[w] IN
    /\ me.pc = "write"
    /\ Seals(w)
    /\ \/ /\ ~me.more
          /\ worker' = [worker EXCEPT ![w] = At("finish", me.space, 0)]
          /\ UNCHANGED job
       \/ /\ me.more /\ me.rounds + 1 < MaxBatches
          /\ worker' = [worker EXCEPT ![w] = At("lock", me.space, me.rounds + 1)]
          /\ UNCHANGED job
       \/ /\ me.more /\ me.rounds + 1 = MaxBatches
          /\ worker' = [worker EXCEPT ![w] = Idle]
          /\ job' = [job EXCEPT ![me.space] = "available"]
    /\ UNCHANGED <<writerVars, attempts, discarded, cursorVars, cursorShare,
                   failures>>

\* FinishSeal takes the sweep's cursor FOR SHARE and reads it: no sweep may
\* move it until the job has decided whether it is done.
LockCursor(w) ==
    /\ worker[w].pc = "finish"
    /\ cursorLock = NoOne
    /\ cursorShare' = cursorShare \cup {w}
    /\ worker' = [worker EXCEPT ![w] =
                      Slot("check", worker[w].space, 0, cursor, 0, {}, 0, FALSE)]
    /\ UNCHANGED <<writerVars, chainVars, headLock, jobVars, cursorVars,
                   failures>>

\* The space's receipts up to key k that the head hasn't reached.
Unsealed(sp, k) == {s \in Seqs : /\ Committed(s) /\ spaceOf[s] = sp
                                 /\ After(s, head[sp].key) /\ ~After(s, k)}

\* mutant: the job completes itself without looking at the cursor
FinishSealBlind(w) ==
    /\ worker[w].pc = "check"
    /\ job' = [job EXCEPT ![worker[w].space] = "none"]
    /\ cursorShare' = cursorShare \ {w}
    /\ worker' = [worker EXCEPT ![w] = Idle]
    /\ UNCHANGED <<writerVars, chainVars, headLock, attempts, discarded,
                   cursorVars, failures>>

\* Then the job completes itself in the same transaction, or, when the
\* sweep passed a receipt it missed, snoozes and seals again.
FinishSeal(w) ==
    LET sp == worker[w].space IN
    /\ worker[w].pc = "check"
    /\ job' = [job EXCEPT ![sp] = IF Unsealed(sp, worker[w].key) = {} THEN "none" ELSE "available"]
    /\ cursorShare' = cursorShare \ {w}
    /\ worker' = [worker EXCEPT ![w] = Idle]
    /\ UNCHANGED <<writerVars, chainVars, headLock, attempts, discarded,
                   cursorVars, failures>>

\* A failed attempt is retried until River's attempts run out.
Fails(sp) ==
    /\ failures < MaxFailures
    /\ failures' = failures + 1
    /\ attempts' = [attempts EXCEPT ![sp] = @ + 1]
    /\ IF attempts[sp] + 1 < MaxAttempts
         THEN /\ job' = [job EXCEPT ![sp] = "retryable"]
              /\ UNCHANGED discarded
         ELSE /\ job' = [job EXCEPT ![sp] = "none"]
              /\ discarded' = [discarded EXCEPT ![sp] = TRUE]

\* An attempt fails (an error, or the worker's process ends): its
\* transaction rolls back and its locks go.
FailSeal(w) ==
    LET sp == worker[w].space IN
    /\ worker[w].pc \in {"lock", "read", "write", "finish", "check"}
    /\ Fails(sp)
    /\ headLock' = [headLock EXCEPT ![sp] = IF @ = w THEN NoOne ELSE @]
    /\ cursorShare' = cursorShare \ {w}
    /\ worker' = [worker EXCEPT ![w] = Idle]
    /\ UNCHANGED <<writerVars, chainVars, cursorVars>>

\* The attempt's context ends (Timeout, a shutdown) while its commit is on
\* the way: River retries the job though the database may yet commit it.
TimeoutSeal(w) ==
    LET me == worker[w] IN
    /\ me.pc = "write"
    /\ Fails(me.space)
    /\ worker' = [worker EXCEPT ![w] = Slot("orphan", me.space, me.rounds,
                       me.key, me.count, me.batch, me.last, me.more)]
    /\ UNCHANGED <<writerVars, chainVars, headLock, cursorVars, cursorShare>>

OrphanEnds(w) ==
    LET sp == worker[w].space IN
    /\ worker[w].pc = "orphan"
    /\ \/ Seals(w)
       \/ /\ headLock' = [headLock EXCEPT ![sp] = NoOne]
          /\ UNCHANGED chainVars
    /\ worker' = [worker EXCEPT ![w] = Idle]
    /\ UNCHANGED <<writerVars, jobVars, cursorVars, cursorShare, failures>>

----------------------------------------------------------------------------
\* seal_sweep: v2.unsealed_spaces and SealSweep's enqueue, one transaction

\* The function's declarations read xmin before the cursor is locked.
StartSweep(x) ==
    /\ sweep[x].pc = "idle"
    /\ \E xmin \in 1 .. MaxTxid + 1 :
          /\ IsXmin(xmin)
          /\ sweep' = [sweep EXCEPT ![x] = [pc |-> "lock", xmin |-> xmin]]
    /\ UNCHANGED <<writerVars, chainVars, headLock, worker, jobVars, cursor,
                   cursorLock, cursorShare, failures>>

\* mutant: the sweep doesn't wait for the jobs that hold the cursor
LockSweepUnshared(x) ==
    /\ sweep[x].pc = "lock"
    /\ cursorLock = NoOne
    /\ cursorLock' = x
    /\ sweep' = [sweep EXCEPT ![x] = [pc |-> "move", xmin |-> sweep[x].xmin]]
    /\ UNCHANGED <<writerVars, chainVars, headLock, worker, jobVars, cursor,
                   cursorShare, failures>>

\* SELECT ... FOR UPDATE waits for every holder of the cursor.
LockSweep(x) ==
    /\ sweep[x].pc = "lock"
    /\ cursorLock = NoOne
    /\ cursorShare = {}
    /\ cursorLock' = x
    /\ sweep' = [sweep EXCEPT ![x] = [pc |-> "move", xmin |-> sweep[x].xmin]]
    /\ UNCHANGED <<writerVars, chainVars, headLock, worker, jobVars, cursor,
                   cursorShare, failures>>

\* A seal job is unique by space over its unfinished states: a space that
\* has one gets no other.
Queues(spaces) ==
    LET fresh == {sp \in spaces : job[sp] \notin Pending} IN
    /\ job' = [sp \in Spaces |-> IF sp \in fresh THEN "available" ELSE job[sp]]
    /\ attempts' = [sp \in Spaces |-> IF sp \in fresh THEN 0 ELSE attempts[sp]]
    /\ discarded' = [sp \in Spaces |-> discarded[sp] /\ sp \notin fresh]

\* The batch, the moved cursor and the jobs commit together.
MoveCursor(x) ==
    LET cand == Sealable(cursor, sweep[x].xmin) IN
    /\ sweep[x].pc = "move"
    /\ \/ cand = {} /\ UNCHANGED <<cursor, jobVars>>
       \/ \E last \in cand :
             /\ Takes(cand, SweepBatch, last)
             /\ cursor' = KeyOf(last)
             /\ Queues({spaceOf[s] : s \in {q \in cand : UpTo(q, last)}})
    /\ cursorLock' = NoOne
    /\ sweep' = [sweep EXCEPT ![x] = [pc |-> "idle", xmin |-> 0]]
    /\ UNCHANGED <<writerVars, chainVars, headLock, worker, cursorShare,
                   failures>>

\* A failed sweep moves nothing; the next period starts another.
FailSweep(x) ==
    /\ sweep[x].pc \in {"lock", "move"}
    /\ failures < MaxFailures
    /\ failures' = failures + 1
    /\ cursorLock' = IF cursorLock = x THEN NoOne ELSE cursorLock
    /\ sweep' = [sweep EXCEPT ![x] = [pc |-> "idle", xmin |-> 0]]
    /\ UNCHANGED <<writerVars, chainVars, headLock, worker, jobVars, cursor,
                   cursorShare>>

----------------------------------------------------------------------------
Writing ==
    \E t \in Txids :
        \/ Begin(t)
        \/ \E s \in Seqs, sp \in Spaces : WriteReceipt(t, s, sp)
        \/ \E outcome \in {"committed", "aborted"} : End(t, outcome)

Working(w) ==
    \/ \E sp \in Spaces : StartSeal(w, sp)
    \/ LockHead(w) \/ ReadBatch(w) \/ WriteCheckpoint(w)
    \/ LockCursor(w) \/ FinishSeal(w) \/ OrphanEnds(w)

Sweeping(x) == StartSweep(x) \/ LockSweep(x) \/ MoveCursor(x)

Failing ==
    \/ \E w \in Workers : FailSeal(w) \/ TimeoutSeal(w)
    \/ \E x \in Sweepers : FailSweep(x)

Next ==
    \/ Writing
    \/ \E w \in Workers : Working(w)
    \/ \E x \in Sweepers : Sweeping(x)
    \/ Failing

Spec == Init /\ [][Next]_vars

\* River runs queued jobs and the periodic sweep; the database ends every
\* transaction (its timeouts, a lost connection); PostgreSQL grants row
\* locks in the order they were asked for.
Fairness ==
    /\ \A t \in Txids : WF_vars(\E outcome \in {"committed", "aborted"} : End(t, outcome))
    /\ \A w \in Workers : WF_vars(Working(w))
    /\ \A w \in Workers : SF_vars(LockHead(w)) /\ SF_vars(LockCursor(w))
    /\ \A x \in Sweepers : WF_vars(Sweeping(x)) /\ SF_vars(LockSweep(x))

FairSpec == Spec /\ Fairness

----------------------------------------------------------------------------
\* What is promised

\* Every variable has its type.
WorkerType == [pc : Phases, space : Spaces, key : Keys, count : Nat,
               batch : SUBSET Seqs, last : 0 .. MaxSeq, more : BOOLEAN,
               rounds : Nat]
TypeOK ==
    /\ tx \in [Txids -> {"unused", "open", "committed", "aborted"}]
    /\ txidOf \in [Seqs -> 0 .. MaxTxid]
    /\ spaceOf \in [Seqs -> Spaces]
    /\ position \in [Seqs -> Nat]
    /\ head \in [Spaces -> [key : Keys, position : Nat, number : Nat]]
    /\ checkpoints \in [Spaces -> Seq([from : Nat, to : Nat])]
    /\ headLock \in [Spaces -> Workers \cup {NoOne}]
    /\ worker \in [Workers -> WorkerType]
    /\ job \in [Spaces -> Pending \cup {"none"}]
    /\ attempts \in [Spaces -> Nat]
    /\ discarded \in [Spaces -> BOOLEAN]
    /\ cursor \in Keys
    /\ cursorLock \in Sweepers \cup {NoOne}
    /\ cursorShare \subseteq Workers
    /\ sweep \in [Sweepers -> [pc : {"idle", "lock", "move"}, xmin : 0 .. MaxTxid + 1]]
    /\ failures \in Nat

\* Reading the table again in (txid, seq) order up to a space's head gives
\* the chain that was sealed: every committed receipt there is in it once,
\* at its rank, and nothing else is (what VerifySpace recomputes nightly).
Reread(sp) == {s \in Seqs : Committed(s) /\ spaceOf[s] = sp /\ ~After(s, head[sp].key)}
ChainVerifies ==
    /\ \A s \in Seqs :
          position[s] = IF s \in Reread(spaceOf[s])
                          THEN Rank(s, Reread(spaceOf[s])) ELSE 0
    /\ \A sp \in Spaces : head[sp].position = Cardinality(Reread(sp))

\* A space's checkpoints are numbered without a gap and their ranges tile
\* the chain (NewVerifier's range check).
CheckpointsTile ==
    \A sp \in Spaces :
        LET c == checkpoints[sp] IN
        /\ Len(c) = head[sp].number
        /\ \A i \in 1 .. Len(c) :
              /\ c[i].from = IF i = 1 THEN 1 ELSE c[i - 1].to + 1
              /\ c[i].from <= c[i].to
        /\ Len(c) > 0 => c[Len(c)].to = head[sp].position

\* The sweep never passes a receipt by: one that is behind the cursor and
\* not sealed has a seal job that is not finished, unless River gave that
\* job up (FinishSeal against the sweep's deduplication).
PassedHasJob ==
    \A sp \in Spaces : Unsealed(sp, cursor) # {} => job[sp] \in Pending \/ discarded[sp]

\* Every committed receipt is sealed in the end, while River's attempts
\* outnumber the failures.
EventuallySealed ==
    \A s \in Seqs : Committed(s) ~> (position[s] # 0)

\* A space's chain as the log of its receipts, for the abstract log.
ChainLog ==
    [sp \in Spaces |-> [i \in 1 .. head[sp].position |->
        CHOOSE s \in Seqs : spaceOf[s] = sp /\ position[s] = i]]
Log == INSTANCE SealedLog WITH log <- ChainLog, Receipts <- Seqs
LogSpec == Log!Spec
============================================================================

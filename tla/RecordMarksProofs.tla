------------------------- MODULE RecordMarksProofs -------------------------
(***************************************************************************)
(* What the marks of a memory mean, for every set of memories.             *)
(*                                                                         *)
(* A superseded decision was superseded for a cause that stands, in every  *)
(* history in which no conflict is resolved; with resolutions this is      *)
(* false (RecordReturned): a decision a person settled a conflict for gets *)
(* no receipt if it was kept already.  A proposal has a verdict or a job.  *)
(*                                                                         *)
(* A contradiction is flagged in every history; a flag has a conflict in   *)
(* every history in which nothing is forgotten, and with Forgets it need   *)
(* not (RecordStuckFlag): an Undo brings back a flag whose conflict a      *)
(* Forget has ended.                                                       *)
(***************************************************************************)
EXTENDS RecordUndoProofs

----------------------------------------------------------------------------
\* Proposals are judged

\* What is in Review has a verdict on its words, or a job that SkipJob may
\* not drop while they are.
Watched(m) ==
    \/ \E w \in verdicts : w.mem = m /\ w.version = mem[m].version
    \/ \E j \in jobs : j.mem = m /\ j.version = mem[m].version /\ j.mode = "proposal"

JobInv ==
    /\ "edit" \notin Commands => \A m \in Memories : top[m] <= 1
    /\ \A m \in Memories : mem[m].life = "proposed" => Watched(m)

LEMMA StillWatched ==
    ASSUME verdicts \subseteq verdicts', jobs \subseteq jobs', NEW m \in Memories, Watched(m),
           mem'[m].version = mem[m].version
    PROVE  Watched(m)'
  BY DEF Watched

LEMMA Queues ==
    ASSUME NEW ch, Commit(ch)
    PROVE  mem' = ch.mem /\ top' = ch.top /\ jobs \subseteq jobs' /\ ch.queue \subseteq jobs'
  BY DEF Commit

LEMMA MarkingWatched ==
    ASSUME JobInv, verdicts \subseteq verdicts', NEW ch, NEW ms, Ready(ch, ms), Marking(ch, ms), Commit(ch)
    PROVE  JobInv'
<1>1. mem' = ch.mem /\ top' = ch.top /\ jobs \subseteq jobs' /\ ch.queue \subseteq jobs'
  BY Queues
<1>2. ASSUME "edit" \notin Commands, NEW m \in Memories PROVE top'[m] <= 1
  <2>1. ch.top[m] \in {top[m], 1} /\ top[m] <= 1
    BY <1>2 DEF JobInv, Marking
  <2> QED
    BY <1>1, <2>1
<1>3. ASSUME NEW m \in Memories, mem'[m].life = "proposed" PROVE Watched(m)'
  <2>1. CASE m \in ms
    <3>1. Watching(ch, m)
      BY <2>1 DEF Marking
    <3>2. \/ mem[m].life = "proposed" /\ mem'[m].version = mem[m].version
          \/ \E j \in ch.queue : j.mem = m /\ j.version = mem'[m].version /\ j.mode = "proposal"
          \/ \E w \in verdicts' : w.mem = m /\ w.version = mem'[m].version
      BY <1>1, <1>3, <3>1 DEF Watching
    <3>3. CASE mem[m].life = "proposed" /\ mem'[m].version = mem[m].version
      BY <1>1, <3>3, StillWatched DEF JobInv
    <3>4. CASE \E j \in ch.queue : j.mem = m /\ j.version = mem'[m].version /\ j.mode = "proposal"
      BY <1>1, <3>4 DEF Watched
    <3>5. CASE \E w \in verdicts' : w.mem = m /\ w.version = mem'[m].version
      BY <3>5 DEF Watched
    <3> QED
      BY <3>2, <3>3, <3>4, <3>5
  <2>2. CASE m \notin ms
    <3>1. mem'[m] = mem[m]
      BY <1>1, <2>2 DEF Ready, Plain
    <3> QED
      BY <1>1, <1>3, <3>1, StillWatched DEF JobInv
  <2> QED
    BY <2>1, <2>2
<1> QED
  BY <1>2, <1>3 DEF JobInv

LEMMA ForgettingWatched ==
    ASSUME JobInv, verdicts \subseteq verdicts', NEW ch, NEW gone, NEW freed, Forgetting(ch, gone, freed), Commit(ch)
    PROVE  JobInv'
<1>1. mem' = ch.mem /\ top' = top /\ jobs \subseteq jobs'
  BY Queues DEF Forgetting
<1>2. ASSUME NEW m \in Memories, mem'[m].life = "proposed"
      PROVE  mem[m].life = "proposed" /\ mem'[m].version = mem[m].version
  <2>1. CASE m \in gone
    BY <1>1, <1>2, <2>1 DEF Forgetting
  <2>2. CASE m \in freed
    BY <1>1, <1>2, <2>2 DEF Forgetting
  <2>3. CASE m \notin gone /\ m \notin freed
    BY <1>1, <1>2, <2>3 DEF Forgetting, Plain
  <2> QED
    BY <2>1, <2>2, <2>3
<1>3. \A m \in Memories : mem'[m].life = "proposed" => Watched(m)'
  BY <1>1, <1>2, StillWatched DEF JobInv
<1> QED
  BY <1>1, <1>3 DEF JobInv

\* What an Undo puts back in Review has a verdict, or gets a job.
LEMMA RejudgeWatches ==
    ASSUME NEW c, NEW m
    PROVE  \/ \E w \in verdicts : w.mem = m /\ w.version = journal[c].before[m].version
           \/ \E j \in Rejudge(c, m) : j.mem = m /\ j.version = journal[c].before[m].version /\ j.mode = "proposal"
<1> DEFINE v      == journal[c].before[m].version
           rounds == {w.round : w \in VerdictsOn(m, v)}
           fold   == journal[c].kind = "judge_fold"
           next   == IF rounds = {} THEN 1
                     ELSE CHOOSE r \in 1..MaxCommands : r - 1 \in rounds /\ \A q \in rounds : q < r
           j == [Job(m, v, "proposal") EXCEPT !.round = next, !.force = fold, !.cause = c]
<1>1. Rejudge(c, m) = IF rounds # {} /\ ~fold THEN {} ELSE {j}
  BY DEF Rejudge
<1>2. j.mem = m /\ j.version = v /\ j.mode = "proposal"
  <2> HIDE DEF next, fold, v
  <2> QED
    BY DEF Job
<1>3. rounds # {} => \E w \in verdicts : w.mem = m /\ w.version = v
  BY DEF VerdictsOn
<1> HIDE DEF j, rounds, fold
<1> QED
  BY <1>1, <1>2, <1>3

LEMMA RevertingWatched ==
    ASSUME Recorded, JobInv, "edit" \notin Commands, verdicts \subseteq verdicts',
           NEW c \in 1..Len(journal), Undoable(c), NEW ch, Reverting(ch, c), Commit(ch)
    PROVE  JobInv'
<1>1. mem' = ch.mem /\ top' = top /\ jobs \subseteq jobs' /\ ch.queue \subseteq jobs'
  BY Queues DEF Reverting, Restoring
<1>2. ASSUME NEW m \in Memories, mem'[m].life = "proposed" PROVE Watched(m)'
  <2>1. CASE m \notin journal[c].touch
    <3>1. mem'[m] = mem[m]
      BY <1>1, <2>1 DEF Reverting, Restoring
    <3> QED
      BY <1>1, <1>2, <3>1, StillWatched DEF JobInv
  <2>2. CASE m \in journal[c].touch
    <3>1. mem'[m] = journal[c].before[m]
      BY <1>1, <2>2 DEF Reverting, Restoring
    <3>2. CASE mem[m].life = "proposed"
      <4>1. /\ Fits(journal[c].before[m], top[m]) /\ Fits(mem[m], top[m]) /\ top[m] <= 1 /\ top[m] \in Nat
        BY <2>2, Existing DEF Recorded, Entry, JobInv
      <4>2. /\ mem'[m].version \in Nat /\ mem'[m].version # 0 /\ mem'[m].version <= top[m]
            /\ mem[m].version \in Nat /\ mem[m].version # 0 /\ mem[m].version <= top[m]
        BY <1>2, <3>1, <3>2, <4>1 DEF Fits, AnyRow
      <4>3. mem'[m].version = mem[m].version
        BY <4>1, <4>2
      <4> QED
        BY <1>1, <3>2, <4>3, StillWatched DEF JobInv
    <3>3. CASE mem[m].life # "proposed"
      <4>1. Rejudge(c, m) \subseteq jobs'
        BY <1>1, <1>2, <2>2, <3>1, <3>3 DEF Reverting, Restoring
      <4>2. \/ \E w \in verdicts : w.mem = m /\ w.version = mem'[m].version
            \/ \E j \in Rejudge(c, m) : j.mem = m /\ j.version = mem'[m].version /\ j.mode = "proposal"
        BY <3>1, RejudgeWatches
      <4> QED
        BY <4>1, <4>2 DEF Watched
    <3> QED
      BY <3>2, <3>3
  <2> QED
    BY <2>1, <2>2
<1> QED
  BY <1>1, <1>2 DEF JobInv

\* A job is only skipped once what it was to look at has moved on.
LEMMA QuietWatched ==
    ASSUME JobInv, Quiet
    PROVE  JobInv'
<1>1. ASSUME NEW m \in Memories, mem[m].life = "proposed" PROVE Watched(m)'
  <2>1. Watched(m)
    BY <1>1 DEF JobInv
  <2>2. CASE \E w \in verdicts : w.mem = m /\ w.version = mem[m].version
    BY <2>2 DEF Quiet, Watched
  <2>3. ASSUME NEW j \in jobs, j.mem = m, j.version = mem[m].version, j.mode = "proposal"
        PROVE  Watched(m)'
    <3>1. Eligible(j)
      BY <1>1, <2>3 DEF Eligible
    <3>2. j \in jobs'
      BY <3>1 DEF Quiet
    <3> QED
      BY <2>3, <3>2 DEF Quiet, Watched
  <2> QED
    BY <2>1, <2>2, <2>3 DEF Watched
<1> QED
  BY <1>1 DEF JobInv, Quiet

LEMMA InitJobs == Init => JobInv
<1> SUFFICES ASSUME Init, NEW m \in Memories PROVE top[m] <= 1 /\ mem[m].life # "proposed"
  BY DEF JobInv
<1>1. CASE m \in Standing
  BY <1>1 DEF Init, Row
<1>2. CASE m \notin Standing
  BY <1>2 DEF Init, Row
<1> QED
  BY <1>1, <1>2

LEMMA NextJobs ==
    ASSUME "resolve" \notin Commands, "edit" \notin Commands \/ "undo" \notin Commands, Inv, Exact, JobInv, [Next]_vars
    PROVE  JobInv'
<1>1. Recorded
  BY DEF Inv, Typed
<1>2. verdicts \subseteq verdicts'
  BY NextKinds
<1>3. ASSUME NEW ch, NEW ms, Ready(ch, ms), Marking(ch, ms), Commit(ch) PROVE JobInv'
  BY <1>2, <1>3, MarkingWatched
<1>4. ASSUME NEW ch, NEW gone, NEW freed, Forgetting(ch, gone, freed), Commit(ch) PROVE JobInv'
  BY <1>2, <1>4, ForgettingWatched
<1>5. ASSUME NEW c \in 1..Len(journal), NEW ch, "undo" \in Commands, Undoable(c), Reverting(ch, c), Commit(ch)
      PROVE  JobInv'
  BY <1>1, <1>2, <1>5, RevertingWatched
<1>6. ASSUME Quiet PROVE JobInv'
  BY <1>6, QuietWatched
<1>7. \/ \E ch, ms : Ready(ch, ms) /\ Marking(ch, ms) /\ Commit(ch)
      \/ \E ch, gone, freed : Forgetting(ch, gone, freed) /\ Commit(ch)
      \/ "undo" \in Commands /\ \E c \in 1..Len(journal) : \E ch : Undoable(c) /\ Reverting(ch, c) /\ Commit(ch)
      \/ Quiet
  BY NextKinds
<1> QED
  BY <1>3, <1>4, <1>5, <1>6, <1>7

\* While no conflict is resolved and words either are never replaced or the
\* replacing is never undone, a proposal always has a verdict on its words
\* or a job that will look at them, whatever jobs are late or skipped
\* (judgeAfterWrite, rejudge).
THEOREM ProposalsWatched ==
    ("resolve" \notin Commands) /\ ("edit" \notin Commands \/ "undo" \notin Commands) /\ Spec => []ProposalsJudged
<1>1. JobInv => ProposalsJudged
  BY DEF JobInv, Watched, ProposalsJudged, VerdictsOn
<1>2. ASSUME "resolve" \notin Commands, "edit" \notin Commands \/ "undo" \notin Commands
      PROVE  Inv /\ Exact /\ JobInv /\ [Next]_vars => Inv' /\ Exact' /\ JobInv'
  BY <1>2, NextInv, NextExact, NextJobs
<1>3. Init => Inv /\ Exact /\ JobInv
  BY InitInv, InitExact, InitJobs
<1>4. ASSUME "resolve" \notin Commands, "edit" \notin Commands \/ "undo" \notin Commands
      PROVE  Spec => []ProposalsJudged
  BY <1>1, <1>2, <1>3, <1>4, PTL DEF Spec
<1> QED
  BY <1>4

----------------------------------------------------------------------------
\* Superseded decisions have a cause

\* Command k had a person keep m.
KeptBy(m, k) == \E r \in Receipts(m) : r.cmd = k /\ r.act = "kept" /\ r.by = "person"

\* It superseded d, which m supersedes, and stands.
Cause(k, m, d) ==
    /\ Stood(k) /\ d \in journal[k].touch /\ KeptBy(m, k)
    /\ Triple("supersedes", m, d) \in Active

Caused(d, n) == \E k \in 1..n, m \in Memories : Cause(k, m, d)

\* A decision is superseded for a cause, and one a command found superseded
\* for an earlier one.
ForCause ==
    /\ \A d \in Memories : mem[d].status = "superseded" => Caused(d, Len(journal))
    /\ \A c \in 1..Len(journal) : Stood(c) => \A d \in journal[c].touch :
          journal[c].before[d].status = "superseded" => Caused(d, c - 1)

\* What a command that stands kept is kept, or gone with its cause in place,
\* and a later command that may be undone found it kept.
KeepsStand ==
    \A k \in 1..Len(journal) : \A m \in Memories : Stood(k) /\ KeptBy(m, k) =>
        /\ mem[m].life \in {"kept", "forgotten"}
        /\ \A c \in 1..Len(journal) :
              k < c /\ Stood(c) /\ m \in journal[c].touch => journal[c].before[m].life = "kept"

\* The only links an Undo ends are a fold's.
MadeFolds == \A c \in 1..Len(journal) : Stood(c) => \A t \in journal[c].made : t.kind = "merged_into"

CauseInv == ForCause /\ KeepsStand /\ MadeFolds

LEMMA Said ==
    ASSUME Recorded, Streams, NEW ch, NEW ms, Plain(ch, ms), Commit(ch), NEW m \in Memories
    PROVE  /\ \A a \in ActsOn(ch, m) : \E r \in Receipts(m)' : r.cmd = Len(journal) + 1 /\ r.act = a /\ r.by = ch.by
           /\ \A r \in Receipts(m)' :
                 \/ r \in Receipts(m)
                 \/ r.cmd = Len(journal) + 1 /\ r.by = ch.by /\ r.act \in ActsOn(ch, m)
<1> DEFINE a == Len(hist[m])
           b == Len(ch.acts[m])
           new(i) == Receipt(Len(journal) + 1, ch.by, ch.acts[m][i], ch.of)
<1>1. ch.of = 0 /\ ch.of \in 0..Len(journal) /\ ch.by \in By
  BY DEF Plain, Recorded
<1>2. ch.acts[m] \in Seq(Deeds \cup Notes)
  BY PlainActs
<1>3. /\ Len(hist'[m]) = a + b
      /\ \A i \in 1..a : hist'[m][i] = hist[m][i]
      /\ \A i \in 1..b : hist'[m][a + i] = new(i)
  BY <1>1, <1>2, Streamed
<1>4. a \in Nat /\ b \in Nat
  <2>1. hist[m] \in Seq(AnyReceipt)
    BY DEF Streams
  <2> QED
    BY <1>2, <2>1, LenProperties
<1>5. \A i \in 1..b : new(i).cmd = Len(journal) + 1 /\ new(i).by = ch.by /\ new(i).act = ch.acts[m][i]
  BY DEF Receipt
<1>6. ActsOn(ch, m) = {ch.acts[m][i] : i \in 1..b}
  BY DEF ActsOn
<1> HIDE DEF a, b, new
<1>7. Receipts(m)' = {hist'[m][i] : i \in 1..Len(hist'[m])} /\ Receipts(m) = {hist[m][i] : i \in 1..a}
  BY DEF Receipts, a
<1>8. ASSUME NEW x \in ActsOn(ch, m)
      PROVE  \E r \in Receipts(m)' : r.cmd = Len(journal) + 1 /\ r.act = x /\ r.by = ch.by
  <2>1. PICK i \in 1..b : x = ch.acts[m][i]
    BY <1>6
  <2>2. a + i \in 1..Len(hist'[m])
    BY <1>3, <1>4
  <2>3. hist'[m][a + i] \in Receipts(m)' /\ hist'[m][a + i] = new(i)
    BY <1>3, <1>7, <2>2
  <2> QED
    BY <1>5, <2>1, <2>3
<1>9. ASSUME NEW r \in Receipts(m)', r \notin Receipts(m)
      PROVE  r.cmd = Len(journal) + 1 /\ r.by = ch.by /\ r.act \in ActsOn(ch, m)
  <2>1. PICK i \in 1..Len(hist'[m]) : r = hist'[m][i]
    BY <1>7
  <2>2. i \notin 1..a
    BY <1>3, <1>7, <1>9, <2>1
  <2>3. i - a \in 1..b /\ a + (i - a) = i
    BY <1>3, <1>4, <2>1, <2>2
  <2>4. r = new(i - a)
    BY <1>3, <2>1, <2>3
  <2> QED
    BY <1>5, <1>6, <2>3, <2>4
<1> QED
  BY <1>8, <1>9

\* A link that a command does not end stays.
LEMMA LinkStays ==
    ASSUME NEW ch, Commit(ch), NEW t \in Active, t \notin ch.end
    PROVE  t \in Active'
<1>1. links' = {l \in links : Of(l) \notin ch.end} \cup
                   {[kind |-> x.kind, from |-> x.from, to |-> x.to, cmd |-> Now] : x \in ch.make \ Active}
  BY DEF Commit
<1>2. PICK l \in links : t = Of(l)
  BY DEF Active
<1>3. l \in links'
  BY <1>1, <1>2
<1> QED
  BY <1>2, <1>3 DEF Active, Of

\* A command other than an Undo: what it supersedes has a cause, and it
\* leaves kept what a person kept, or forgets it.
Upheld(ch, ms) ==
    /\ Plain(ch, ms)
    /\ \A t \in ch.end : t.kind = "conflicts_with"
    /\ \A t \in ch.make : ch.undo # "none" => t.kind = "merged_into"
    /\ \A m \in ms :
          /\ StatusMeant(ch, ms, m)
          /\ Keeping(ch, m) => ch.mem[m].life = "kept"
          /\ mem[m].life \in {"kept", "forgotten"} =>
                ch.mem[m].life \in {"kept", "forgotten"} \/ \A r \in Receipts(m) : r.by # "person"

LEMMA MarkingUpheld ==
    ASSUME NEW ch, NEW ms, Ready(ch, ms), Marking(ch, ms)
    PROVE  Upheld(ch, ms)
<1>1. Plain(ch, ms) /\ \A m \in ms : mem[m].life # "forgotten"
  BY DEF Ready, Rightful
<1>2. ch.end = {} /\ \A t \in ch.make : ch.undo # "none" => t.kind = "merged_into"
  BY DEF Marking
<1>3. ASSUME NEW m \in ms
      PROVE  /\ StatusMeant(ch, ms, m)
             /\ Keeping(ch, m) => ch.mem[m].life = "kept"
             /\ mem[m].life \in {"kept", "forgotten"} =>
                   ch.mem[m].life \in {"kept", "forgotten"} \/ \A r \in Receipts(m) : r.by # "person"
  <2>1. StatusMeant(ch, ms, m) /\ KeptStays(ch, m)
    BY DEF Marking
  <2> QED
    BY <1>1, <2>1 DEF KeptStays
<1> QED
  BY <1>1, <1>2, <1>3 DEF Upheld

LEMMA ForgettingUpheld ==
    ASSUME NEW ch, NEW gone, NEW freed, Forgetting(ch, gone, freed)
    PROVE  Upheld(ch, gone \cup freed)
<1>1. /\ Plain(ch, gone \cup freed) /\ ch.make = {} /\ ch.undo = "none"
      /\ \A t \in ch.end : t.kind = "conflicts_with"
  BY DEF Forgetting
<1>2. ASSUME NEW m \in gone \cup freed
      PROVE  /\ StatusMeant(ch, gone \cup freed, m)
             /\ Keeping(ch, m) => ch.mem[m].life = "kept"
             /\ mem[m].life \in {"kept", "forgotten"} =>
                   ch.mem[m].life \in {"kept", "forgotten"} \/ \A r \in Receipts(m) : r.by # "person"
  <2>1. ch.mem[m].status = mem[m].status
    BY DEF Forgetting
  <2>2. StatusMeant(ch, gone \cup freed, m)
    BY <1>1, <2>1 DEF StatusMeant
  <2>3. ~Keeping(ch, m)
    BY <1>1 DEF Keeping
  <2>4. ch.mem[m].life = "forgotten" \/ ch.mem[m].life = mem[m].life
    BY DEF Forgetting
  <2> QED
    BY <2>2, <2>3, <2>4
<1> QED
  BY <1>1, <1>2 DEF Upheld

\* A cause stays one.
LEMMA UpheldCause ==
    ASSUME Recorded, Streams, NEW ch, NEW ms, Upheld(ch, ms), Commit(ch),
           NEW n \in 0..Len(journal), NEW d, Caused(d, n)
    PROVE  Caused(d, n)'
<1>1. Added(ch, ms)
  BY PlainAdds DEF Upheld
<1>2. PICK k \in 1..n, m \in Memories : Cause(k, m, d)
  BY DEF Caused
<1>3. Len(journal) \in Nat /\ k \in 1..Len(journal) /\ k \in 1..Len(journal') /\ journal'[k] = journal[k]
  BY <1>1, <1>2 DEF Added
<1>4. Stood(k)' /\ d \in journal'[k].touch
  BY <1>2, <1>3 DEF Cause, Stood, Undoing
<1>5. KeptBy(m, k)'
  BY <1>1, <1>2 DEF Cause, KeptBy, Added
<1>6. Triple("supersedes", m, d) \in Active'
  <2>1. Triple("supersedes", m, d) \notin ch.end
    BY DEF Upheld, Triple
  <2> QED
    BY <1>2, <2>1, LinkStays DEF Cause
<1> QED
  BY <1>2, <1>4, <1>5, <1>6 DEF Caused, Cause

LEMMA UpheldForCause ==
    ASSUME Recorded, Streams, ForCause, NEW ch, NEW ms, Upheld(ch, ms), Commit(ch)
    PROVE  ForCause'
<1> DEFINE n == Len(journal) + 1
<1>1. Added(ch, ms)
  BY PlainAdds DEF Upheld
<1>2. Len(journal) \in Nat /\ Len(journal') = n /\ mem' = ch.mem /\ \A c \in 1..Len(journal) : journal'[c] = journal[c]
  BY <1>1 DEF Added
<1>3. /\ journal'[n].kind = ch.undo /\ journal'[n].touch = ch.touch /\ ~journal'[n].undone
      /\ \A m \in ch.touch : journal'[n].before[m] = ch.before[m]
  BY <1>1 DEF Added
<1>4. ch.undo # "none" => ch.touch = ms
  BY DEF Upheld, Plain
<1>5. ASSUME NEW d \in Memories, mem[d].status = "superseded"
      PROVE  Caused(d, Len(journal))'
  <2>1. Caused(d, Len(journal))
    BY <1>5 DEF ForCause
  <2>2. PICK l \in Nat : l = Len(journal)
    BY <1>2
  <2>3. Caused(d, l)'
    BY <2>1, <2>2, UpheldCause
  <2>4. PICK k \in 1..l, m \in Memories : Cause(k, m, d)'
    BY <2>3 DEF Caused
  <2>5. k \in 1..Len(journal')
    BY <1>2, <2>2, <2>4
  <2> QED
    BY <2>4, <2>5 DEF Caused
<1>6. ASSUME NEW d \in Memories, mem'[d].status = "superseded" PROVE Caused(d, Len(journal))'
  <2>1. CASE mem[d].status = "superseded"
    BY <1>5, <2>1
  <2>2. CASE mem[d].status # "superseded"
    <3>1. d \in ms
      BY <1>2, <1>6, <2>2 DEF Upheld, Plain
    <3>2. StatusMeant(ch, ms, d)
      BY <3>1 DEF Upheld
    <3>3. PICK k \in ms : Triple("supersedes", k, d) \in Active /\ Keeping(ch, k)
      BY <1>2, <1>6, <2>2, <3>2 DEF StatusMeant
    <3>4. k \in Memories
      BY DEF Upheld, Plain
    <3>5. ch.undo # "none" /\ ch.by = "person" /\ "kept" \in ActsOn(ch, k)
      BY <3>3 DEF Keeping
    <3>6. n \in 1..Len(journal') /\ d \in journal'[n].touch
      BY <1>2, <1>3, <1>4, <3>1, <3>5
    <3>9. PICK z : z = n
      OBVIOUS
    <3>7. Stood(z)' /\ d \in journal'[z].touch /\ z \in 1..Len(journal')
      BY <1>3, <3>5, <3>6, <3>9 DEF Stood, Undoing
    <3>8. \E r \in Receipts(k)' : r.cmd = n /\ r.act = "kept" /\ r.by = "person"
      <4> HIDE DEF ActsOn
      <4> QED
        BY <3>4, <3>5, Said DEF Upheld
    <3>10. KeptBy(k, z)'
      BY <3>8, <3>9 DEF KeptBy
    <3>11. Triple("supersedes", k, d) \in Active'
      <4>1. Triple("supersedes", k, d) \notin ch.end
        BY DEF Upheld, Triple
      <4> QED
        BY <3>3, <4>1, LinkStays
    <3>12. Cause(z, k, d)'
      BY <3>7, <3>10, <3>11 DEF Cause
    <3> QED
      BY <3>4, <3>7, <3>12 DEF Caused
  <2> QED
    BY <2>1, <2>2
<1>7. ASSUME NEW c \in 1..Len(journal'), Stood(c)', NEW d \in journal'[c].touch,
             journal'[c].before[d].status = "superseded"
      PROVE  Caused(d, c - 1)'
  <2>1. CASE c = n
    <3>1. ch.undo # "none" /\ d \in ms /\ d \in Memories /\ journal'[c].before[d] = ch.before[d]
      BY <1>3, <1>4, <1>7, <2>1 DEF Stood, Undoing, Upheld, Plain
    <3>2. StatusMeant(ch, ms, d)
      BY <3>1 DEF Upheld
    <3>3. mem[d].status = "superseded"
      BY <1>7, <3>1, <3>2 DEF StatusMeant
    <3>4. Caused(d, Len(journal))
      BY <3>1, <3>3 DEF ForCause
    <3>5. PICK l \in Nat : l = Len(journal)
      BY <1>2
    <3>6. Caused(d, l)'
      BY <3>4, <3>5, UpheldCause
    <3>7. c - 1 = l
      BY <1>2, <2>1, <3>5
    <3> QED
      BY <3>6, <3>7
  <2>2. CASE c # n
    <3>1. c \in 1..Len(journal) /\ journal'[c] = journal[c]
      BY <1>2, <2>2
    <3>2. Stood(c)
      BY <1>7, <3>1 DEF Stood, Undoing
    <3>3. Caused(d, c - 1)
      BY <1>7, <3>1, <3>2 DEF ForCause
    <3>4. c - 1 \in 0..Len(journal)
      BY <1>2, <3>1
    <3> QED
      BY <3>3, <3>4, UpheldCause
  <2> QED
    BY <2>1, <2>2
<1> QED
  BY <1>6, <1>7 DEF ForCause

LEMMA UpheldKeeps ==
    ASSUME Recorded, Streams, KeepsStand, NEW ch, NEW ms, Upheld(ch, ms), Commit(ch)
    PROVE  KeepsStand'
<1> DEFINE n == Len(journal) + 1
<1>1. Added(ch, ms) /\ Plain(ch, ms)
  BY PlainAdds DEF Upheld
<1>2. Len(journal) \in Nat /\ Len(journal') = n /\ mem' = ch.mem /\ \A c \in 1..Len(journal) : journal'[c] = journal[c]
  BY <1>1 DEF Added
<1>3. /\ journal'[n].kind = ch.undo /\ journal'[n].touch = ch.touch
      /\ \A m \in ch.touch : journal'[n].before[m] = ch.before[m]
  BY <1>1 DEF Added
<1>4. ch.undo # "none" => ch.touch = ms
  BY <1>1 DEF Plain
<1> SUFFICES ASSUME NEW k \in 1..Len(journal'), NEW m \in Memories, Stood(k)', KeptBy(m, k)'
             PROVE  /\ mem'[m].life \in {"kept", "forgotten"}
                    /\ \A c \in 1..Len(journal') :
                          k < c /\ Stood(c)' /\ m \in journal'[c].touch => journal'[c].before[m].life = "kept"
  BY DEF KeepsStand
<1>5. PICK r \in Receipts(m)' : r.cmd = k /\ r.act = "kept" /\ r.by = "person"
  BY DEF KeptBy
<1>6. CASE k = n
  <2>1. r \notin Receipts(m)
    BY <1>1, <1>2, <1>5, <1>6 DEF Added
  <2>2. ch.by = "person" /\ "kept" \in ActsOn(ch, m)
    <3> HIDE DEF ActsOn
    <3> QED
      BY <1>1, <1>5, <2>1, Said
  <2>3. ch.undo # "none"
    BY <1>3, <1>6 DEF Stood, Undoing
  <2>4. m \in ms
    BY <1>1, <2>2, PlainActs
  <2>5. Keeping(ch, m)
    BY <2>2, <2>3 DEF Keeping
  <2>6. ch.mem[m].life = "kept"
    BY <2>4, <2>5 DEF Upheld
  <2>7. \A c \in 1..Len(journal') : ~(k < c)
    BY <1>2, <1>6
  <2> QED
    BY <1>2, <2>6, <2>7
<1>7. CASE k # n
  <2>1. k \in 1..Len(journal) /\ journal'[k] = journal[k]
    BY <1>2, <1>7
  <2>2. Stood(k)
    BY <2>1 DEF Stood, Undoing
  <2>3. r \in Receipts(m)
    BY <1>1, <1>5, <1>7 DEF Added
  <2>4. KeptBy(m, k)
    BY <1>5, <2>3 DEF KeptBy
  <2>5. /\ mem[m].life \in {"kept", "forgotten"}
        /\ \A c \in 1..Len(journal) :
              k < c /\ Stood(c) /\ m \in journal[c].touch => journal[c].before[m].life = "kept"
    BY <2>1, <2>2, <2>4 DEF KeepsStand
  <2>6. mem'[m].life \in {"kept", "forgotten"}
    <3>1. CASE m \in ms
      BY <1>2, <1>5, <2>3, <2>5, <3>1 DEF Upheld
    <3>2. CASE m \notin ms
      BY <1>1, <1>2, <2>5, <3>2 DEF Plain
    <3> QED
      BY <3>1, <3>2
  <2>7. ASSUME NEW c \in 1..Len(journal'), k < c, Stood(c)', m \in journal'[c].touch
        PROVE  journal'[c].before[m].life = "kept"
    <3>1. CASE c = n
      <4>1. ch.undo # "none" /\ m \in ms /\ journal'[c].before[m] = ch.before[m]
        BY <1>3, <1>4, <2>7, <3>1 DEF Stood, Undoing
      <4>2. mem[m].life \in {"proposed", "kept"} /\ ch.before[m] = mem[m]
        BY <1>1, <2>5, <4>1 DEF Plain
      <4> QED
        BY <2>5, <4>1, <4>2
    <3>2. CASE c # n
      <4>1. c \in 1..Len(journal) /\ journal'[c] = journal[c]
        BY <1>2, <3>2
      <4>2. Stood(c)
        BY <2>7, <4>1 DEF Stood, Undoing
      <4> QED
        BY <2>5, <2>7, <4>1, <4>2
    <3> QED
      BY <3>1, <3>2
  <2> QED
    BY <2>6, <2>7
<1> QED
  BY <1>6, <1>7

LEMMA UpheldFolds ==
    ASSUME Recorded, Streams, MadeFolds, NEW ch, NEW ms, Upheld(ch, ms), Commit(ch)
    PROVE  MadeFolds'
<1> DEFINE n == Len(journal) + 1
<1>1. Added(ch, ms) /\ ch.of \in 0..Len(journal)
  BY PlainAdds DEF Upheld, Plain, Recorded
<1>2. Len(journal) \in Nat /\ Len(journal') = n /\ \A c \in 1..Len(journal) : journal'[c] = journal[c]
  BY <1>1 DEF Added
<1>3. journal'[n].kind = ch.undo
  BY <1>1 DEF Added
<1>4. journal'[n].made = ch.make \ Active
  <2> DEFINE x == journal'[Len(journal) + 1]
             b == [m \in ch.touch |-> ch.before[m]]
             a == [m \in ch.touch |-> ch.mem[m]]
             made == ch.make \ Active
  <2>1. x = [kind |-> ch.undo, touch |-> ch.touch, undone |-> FALSE, made |-> made, ended |-> ch.end,
             before |-> b, after |-> a]
    BY <1>1, Journalled
  <2> HIDE DEF x, a, b, made
  <2>2. x.made = made
    BY <2>1
  <2> QED
    BY <2>2 DEF x, made
<1> SUFFICES ASSUME NEW c \in 1..Len(journal'), Stood(c)', NEW t \in journal'[c].made
             PROVE  t.kind = "merged_into"
  BY DEF MadeFolds
<1>5. CASE c = n
  BY <1>3, <1>4, <1>5 DEF Stood, Undoing, Upheld
<1>6. CASE c # n
  <2>1. c \in 1..Len(journal) /\ journal'[c] = journal[c]
    BY <1>2, <1>6
  <2>2. Stood(c)
    BY <2>1 DEF Stood, Undoing
  <2> QED
    BY <2>1, <2>2 DEF MadeFolds
<1> QED
  BY <1>5, <1>6

\* An Undo takes a cause away only with what it caused.
LEMMA UndoCause ==
    ASSUME Recorded, MadeFolds, NEW c \in 1..Len(journal), Undoable(c), NEW ch, Reverting(ch, c), Commit(ch),
           Reverted(c), \A m \in Memories : Marks(c, m), NEW n \in 0..Len(journal), NEW d, Caused(d, n),
           n < c \/ d \notin journal[c].touch
    PROVE  Caused(d, n)'
<1>1. PICK k \in 1..n, m \in Memories : Cause(k, m, d)
  BY DEF Caused
<1>2. Len(journal) \in Nat /\ Len(journal') = Len(journal) + 1
  BY DEF Reverted
<1>3. k \in 1..Len(journal) /\ k \in 1..Len(journal') /\ k # c
  BY <1>1, <1>2 DEF Cause
<1>4. Alike(journal'[k], journal[k]) /\ (journal'[k].undone <=> journal[k].undone \/ k = c)
  BY <1>3 DEF Reverted
<1>5. journal'[k].kind = journal[k].kind /\ journal'[k].touch = journal[k].touch
  BY <1>4 DEF Alike
<1>6. Stood(k)' /\ d \in journal'[k].touch
  BY <1>1, <1>3, <1>4, <1>5 DEF Cause, Stood, Undoing
<1>7. KeptBy(m, k)'
  BY <1>1 DEF Cause, KeptBy, Marks
<1>8. Triple("supersedes", m, d) \in Active'
  <2>1. Stood(c)
    BY UndoableFacts
  <2>2. Triple("supersedes", m, d) \notin ch.end
    BY <2>1 DEF Reverting, Restoring, MadeFolds, Triple
  <2> QED
    BY <1>1, <2>2, LinkStays DEF Cause
<1> QED
  BY <1>1, <1>6, <1>7, <1>8 DEF Caused, Cause

LEMMA UndoForCause ==
    ASSUME Recorded, Touched, ForCause, MadeFolds, NEW c \in 1..Len(journal), Undoable(c),
           NEW ch, Reverting(ch, c), Commit(ch), Reverted(c), \A m \in Memories : Marks(c, m)
    PROVE  ForCause'
<1>1. Len(journal) \in Nat /\ Len(journal') = Len(journal) + 1
  BY DEF Reverted
<1>2. Stood(c)
  BY UndoableFacts
<1>3. ASSUME NEW d \in Memories, mem'[d].status = "superseded" PROVE Caused(d, Len(journal))'
  <2>1. \E n \in 0..Len(journal) : Caused(d, n)'
    <3>1. CASE d \in journal[c].touch
      <4>1. journal[c].before[d].status = "superseded"
        BY <1>3, <3>1 DEF Reverted
      <4>2. Caused(d, c - 1)
        BY <1>2, <3>1, <4>1 DEF ForCause
      <4>3. PICK l \in 0..Len(journal) : l = c - 1
        BY <1>1
      <4>4. l < c
        BY <1>1, <4>3
      <4>5. Caused(d, l)'
        BY <4>2, <4>3, <4>4, UndoCause
      <4> QED
        BY <4>5
    <3>2. CASE d \notin journal[c].touch
      <4>1. mem[d].status = "superseded"
        BY <1>3, <3>2 DEF Reverted
      <4>2. Caused(d, Len(journal))
        BY <4>1 DEF ForCause
      <4>3. PICK l \in 0..Len(journal) : l = Len(journal)
        BY <1>1
      <4>4. Caused(d, l)'
        BY <3>2, <4>2, <4>3, UndoCause
      <4> QED
        BY <4>4
    <3> QED
      BY <3>1, <3>2
  <2>2. PICK n \in 0..Len(journal) : Caused(d, n)'
    BY <2>1
  <2>3. PICK k \in 1..n, m \in Memories : Cause(k, m, d)'
    BY <2>2 DEF Caused
  <2>4. k \in 1..Len(journal')
    BY <1>1, <2>3
  <2> QED
    BY <2>3, <2>4 DEF Caused
<1>4. ASSUME NEW e \in 1..Len(journal'), Stood(e)', NEW d \in journal'[e].touch,
             journal'[e].before[d].status = "superseded"
      PROVE  Caused(d, e - 1)'
  <2>1. e \in 1..Len(journal) /\ e # c /\ Stood(e) /\ Alike(journal'[e], journal[e])
    BY <1>4, StillThere DEF Stood
  <2>2. journal'[e].touch = journal[e].touch /\ journal'[e].before = journal[e].before
    BY <2>1 DEF Alike
  <2>3. Caused(d, e - 1)
    BY <1>4, <2>1, <2>2 DEF ForCause
  <2>4. e - 1 < c \/ d \notin journal[c].touch
    <3> SUFFICES ASSUME d \in journal[c].touch PROVE e - 1 < c
      OBVIOUS
    <3>1. ~(e > c)
      BY <2>1, <2>2, NoLaterDeed
    <3> QED
      BY <1>1, <2>1, <3>1
  <2>5. e - 1 \in 0..Len(journal)
    BY <1>1, <2>1
  <2> QED
    BY <2>3, <2>4, <2>5, UndoCause
<1> QED
  BY <1>3, <1>4 DEF ForCause

LEMMA UndoKeeps ==
    ASSUME Recorded, Touched, KeepsStand, MadeFolds, NEW c \in 1..Len(journal), Undoable(c),
           Reverted(c), \A m \in Memories : Marks(c, m)
    PROVE  KeepsStand' /\ MadeFolds'
<1>1. ASSUME NEW k \in 1..Len(journal'), NEW m \in Memories, Stood(k)', KeptBy(m, k)'
      PROVE  /\ mem'[m].life \in {"kept", "forgotten"}
             /\ \A e \in 1..Len(journal') :
                   k < e /\ Stood(e)' /\ m \in journal'[e].touch => journal'[e].before[m].life = "kept"
  <2>1. k \in 1..Len(journal) /\ k # c /\ Stood(k)
    BY <1>1, StillThere DEF Stood
  <2>2. PICK r \in Receipts(m)' : r.cmd = k /\ r.act = "kept" /\ r.by = "person"
    BY <1>1 DEF KeptBy
  <2>3. r \in Receipts(m)
    <3>1. CASE m \in journal[c].touch
      BY <2>2, <3>1 DEF Marks
    <3>2. CASE m \notin journal[c].touch
      <4>1. hist'[m] = hist[m]
        BY <3>2 DEF Marks
      <4> QED
        BY <4>1 DEF Receipts
    <3> QED
      BY <3>1, <3>2
  <2>4. KeptBy(m, k)
    BY <2>2, <2>3 DEF KeptBy
  <2>5. /\ mem[m].life \in {"kept", "forgotten"}
        /\ \A e \in 1..Len(journal) :
              k < e /\ Stood(e) /\ m \in journal[e].touch => journal[e].before[m].life = "kept"
    BY <2>1, <2>4 DEF KeepsStand
  <2>6. mem'[m].life \in {"kept", "forgotten"}
    <3>1. CASE m \in journal[c].touch
      <4>1. m \in journal[k].touch
        BY <2>1, <2>2, <2>3 DEF Touched, Stood
      <4>2. ~(k > c)
        BY <2>1, <3>1, <4>1, NoLaterDeed
      <4>3. Stood(c) /\ k < c
        BY <2>1, <4>2, UndoableFacts DEF Recorded
      <4>4. journal[c].before[m].life = "kept"
        BY <2>5, <3>1, <4>3
      <4> QED
        BY <3>1, <4>4 DEF Reverted
    <3>2. CASE m \notin journal[c].touch
      BY <2>5, <3>2 DEF Reverted
    <3> QED
      BY <3>1, <3>2
  <2>7. ASSUME NEW e \in 1..Len(journal'), k < e, Stood(e)', m \in journal'[e].touch
        PROVE  journal'[e].before[m].life = "kept"
    <3>1. e \in 1..Len(journal) /\ Stood(e) /\ Alike(journal'[e], journal[e])
      BY <2>7, StillThere DEF Stood
    <3>2. journal'[e].touch = journal[e].touch /\ journal'[e].before = journal[e].before
      BY <3>1 DEF Alike
    <3> QED
      BY <2>5, <2>7, <3>1, <3>2
  <2> QED
    BY <2>6, <2>7
<1>2. ASSUME NEW e \in 1..Len(journal'), Stood(e)', NEW t \in journal'[e].made PROVE t.kind = "merged_into"
  <2>1. e \in 1..Len(journal) /\ Stood(e) /\ Alike(journal'[e], journal[e])
    BY <1>2, StillThere DEF Stood
  <2>2. journal'[e].made = journal[e].made
    BY <2>1 DEF Alike
  <2> QED
    BY <2>1, <2>2 DEF MadeFolds
<1> QED
  BY <1>1, <1>2 DEF KeepsStand, MadeFolds

LEMMA QuietCause ==
    ASSUME CauseInv, UNCHANGED <<mem, hist, links, journal>>
    PROVE  CauseInv'
<1>1. \A k, m, d : Cause(k, m, d)' <=> Cause(k, m, d)
  BY DEF Cause, Stood, Undoing, KeptBy, Receipts, Active
<1>2. \A d, n : Caused(d, n)' <=> Caused(d, n)
  BY <1>1 DEF Caused
<1>3. ForCause'
  BY <1>2 DEF CauseInv, ForCause, Stood, Undoing
<1>4. KeepsStand' /\ MadeFolds'
  BY DEF CauseInv, KeepsStand, MadeFolds, Stood, Undoing, KeptBy, Receipts
<1> QED
  BY <1>3, <1>4 DEF CauseInv

LEMMA InitCause == Init => CauseInv
<1> SUFFICES ASSUME Init PROVE CauseInv
  OBVIOUS
<1>1. \A m \in Memories : mem[m].status = "in_force"
  <2> TAKE m \in Memories
  <2>1. CASE m \in Standing
    BY <2>1 DEF Init, Row
  <2>2. CASE m \notin Standing
    <3> DEFINE no == FALSE
    <3>1. mem[m] = [[life |-> "none", conflict |-> no, version |-> 1, status |-> "in_force"] EXCEPT !.version = 0]
      BY <2>2 DEF Init, Row
    <3> HIDE DEF no
    <3> QED
      BY <3>1
  <2> QED
    BY <2>1, <2>2
<1>2. 1..Len(journal) = {}
  <2>1. journal = <<>>
    BY DEF Init
  <2>2. Len(journal) = 0
    BY <2>1
  <2> QED
    BY <2>2
<1> QED
  BY <1>1, <1>2 DEF CauseInv, ForCause, KeepsStand, MadeFolds

LEMMA NextCause ==
    ASSUME "resolve" \notin Commands, Inv, Exact, CauseInv, [Next]_vars
    PROVE  CauseInv'
<1>1. Recorded /\ Streams /\ Touched /\ ForCause /\ KeepsStand /\ MadeFolds
  BY DEF Inv, Typed, Exact, CauseInv
<1>2. ASSUME NEW ch, NEW ms, Upheld(ch, ms), Commit(ch) PROVE CauseInv'
  BY <1>1, <1>2, UpheldForCause, UpheldKeeps, UpheldFolds DEF CauseInv
<1>3. ASSUME NEW ch, NEW ms, Ready(ch, ms), Marking(ch, ms), Commit(ch) PROVE CauseInv'
  BY <1>2, <1>3, MarkingUpheld
<1>4. ASSUME NEW ch, NEW gone, NEW freed, Forgetting(ch, gone, freed), Commit(ch) PROVE CauseInv'
  BY <1>2, <1>4, ForgettingUpheld
<1>5. ASSUME NEW c \in 1..Len(journal), NEW ch, Undoable(c), Reverting(ch, c), Commit(ch) PROVE CauseInv'
  <2>1. Reverted(c) /\ \A m \in Memories : Marks(c, m)
    BY <1>1, <1>5, RevertReverts, RevertMarks
  <2> QED
    BY <1>1, <1>5, <2>1, UndoForCause, UndoKeeps DEF CauseInv
<1>6. ASSUME Quiet PROVE CauseInv'
  BY <1>6, QuietCause DEF Quiet
<1>7. \/ \E ch, ms : Ready(ch, ms) /\ Marking(ch, ms) /\ Commit(ch)
      \/ \E ch, gone, freed : Forgetting(ch, gone, freed) /\ Commit(ch)
      \/ \E c \in 1..Len(journal) : \E ch : Undoable(c) /\ Reverting(ch, c) /\ Commit(ch)
      \/ Quiet
  BY NextKinds
<1> QED
  BY <1>3, <1>4, <1>5, <1>6, <1>7

\* While no conflict is resolved, a superseded decision is superseded for a
\* cause that stands: a memory that supersedes it and that a person kept,
\* which is still kept or was forgotten since.  An Undo takes that memory
\* back only with the superseding it did, in whatever order what was done
\* to the two is undone (supersedeOnKeep, checkUndoLinks, forget.go).
THEOREM SupersededStays == ("resolve" \notin Commands) /\ Spec => []SupersededForCause
<1>1. CauseInv => SupersededForCause
  <2> SUFFICES ASSUME CauseInv, NEW d \in Memories, mem[d].status = "superseded"
               PROVE  \E t \in Active :
                         t.kind = "supersedes" /\ t.to = d /\ mem[t.from].life \in {"kept", "forgotten"}
    BY DEF SupersededForCause
  <2>1. PICK k \in 1..Len(journal), m \in Memories : Cause(k, m, d)
    BY DEF CauseInv, ForCause, Caused
  <2>2. mem[m].life \in {"kept", "forgotten"}
    BY <2>1 DEF CauseInv, KeepsStand, Cause
  <2>3. Triple("supersedes", m, d) \in Active
    BY <2>1 DEF Cause
  <2> QED
    BY <2>2, <2>3 DEF Triple
<1>2. ASSUME "resolve" \notin Commands
      PROVE  Inv /\ Exact /\ CauseInv /\ [Next]_vars => Inv' /\ Exact' /\ CauseInv'
  BY <1>2, NextInv, NextExact, NextCause
<1>3. Init => Inv /\ Exact /\ CauseInv
  BY InitInv, InitExact, InitCause
<1>4. ASSUME "resolve" \notin Commands PROVE Spec => []SupersededForCause
  BY <1>1, <1>2, <1>3, <1>4, PTL DEF Spec
<1> QED
  BY <1>4

----------------------------------------------------------------------------
\* Flags and conflicts

\* What a resolution says of the memories: no receipt of it is taken back.
Words == Deeds \cup Notes \cup {"faded", "drafted"}

Spoken(ac) == \A m \in Memories : ac[m] \in Seq(Words)

\* f is said to be settled.
Says(ac, f) == Spoken(ac) /\ \E i \in 1..Len(ac[f]) : ac[f][i] = "resolved"

LEMMA ConcatKeeps ==
    ASSUME NEW D, NEW a \in Seq(D), NEW b \in Seq(D)
    PROVE  /\ a \o b \in Seq(D)
           /\ \A i \in 1..Len(a) : i \in 1..Len(a \o b) /\ (a \o b)[i] = a[i]
<1>1. a \o b \in Seq(D) /\ Len(a \o b) = Len(a) + Len(b)
      /\ \A i \in 1..Len(a) + Len(b) : (a \o b)[i] = IF i <= Len(a) THEN a[i] ELSE b[i - Len(a)]
  BY ConcatProperties, Zenon
<1> DEFINE x == Len(a)
           y == Len(b)
           c == a \o b
<1>2. x \in Nat /\ y \in Nat
  BY LenProperties
<1>3. c \in Seq(D) /\ Len(c) = x + y
      /\ \A i \in 1..x + y : c[i] = IF i <= x THEN a[i] ELSE b[i - x]
  BY <1>1
<1> HIDE DEF x, y, c
<1>4. \A i \in 1..x : i \in 1..Len(c) /\ c[i] = a[i]
  BY <1>2, <1>3
<1> QED
  BY <1>3, <1>4 DEF x, y, c

LEMMA WithSpoken ==
    ASSUME NEW ac, Spoken(ac), NEW ms, NEW as, as \in Seq(Words)
    PROVE  /\ Spoken(With(ac, ms, as))
           /\ \A f \in Memories : Says(ac, f) => Says(With(ac, ms, as), f)
<1> DEFINE n == With(ac, ms, as)
           D == Words
<1>1. \A k \in Memories : n[k] = IF k \in ms THEN ac[k] \o as ELSE ac[k]
  BY DEF With
<1> HIDE DEF n, D
<1>2. ASSUME NEW k \in Memories
      PROVE  n[k] \in Seq(D) /\ \A i \in 1..Len(ac[k]) : i \in 1..Len(n[k]) /\ n[k][i] = ac[k][i]
  <2> DEFINE b == ac[k]
  <2>1. b \in Seq(D) /\ as \in Seq(D)
    BY DEF Spoken, D
  <2> HIDE DEF b
  <2>2. b \o as \in Seq(D) /\ \A i \in 1..Len(b) : i \in 1..Len(b \o as) /\ (b \o as)[i] = b[i]
    BY <2>1, ConcatKeeps
  <2>3. CASE k \in ms
    BY <1>1, <2>2, <2>3 DEF b
  <2>4. CASE k \notin ms
    BY <1>1, <2>1, <2>4 DEF b
  <2> QED
    BY <2>3, <2>4
<1>3. Spoken(n)
  BY <1>2 DEF Spoken, D
<1>4. ASSUME NEW f \in Memories, Says(ac, f) PROVE Says(n, f)
  BY <1>2, <1>3, <1>4 DEF Says
<1> QED
  BY <1>3, <1>4 DEF n

LEMMA OneWord ==
    /\ <<"kept">> \in Seq(Words) /\ <<"edited">> \in Seq(Words) /\ <<"rejected">> \in Seq(Words)
    /\ <<"faded">> \in Seq(Words) /\ <<"drafted">> \in Seq(Words) /\ <<"superseded">> \in Seq(Words)
    /\ <<"resolved">> \in Seq(Words) /\ <<>> \in Seq(Words)
<1> DEFINE D == Words
<1>1. /\ "kept" \in D /\ "edited" \in D /\ "rejected" \in D /\ "faded" \in D /\ "drafted" \in D
      /\ "superseded" \in D /\ "resolved" \in D
  BY DEF Words, Deeds
<1> HIDE DEF D
<1>2. /\ <<"kept">> \in Seq(D) /\ <<"edited">> \in Seq(D) /\ <<"rejected">> \in Seq(D)
      /\ <<"faded">> \in Seq(D) /\ <<"drafted">> \in Seq(D) /\ <<"superseded">> \in Seq(D)
      /\ <<"resolved">> \in Seq(D) /\ <<>> \in Seq(D)
  BY <1>1, OneAct
<1> QED
  BY <1>2 DEF D

----------------------------------------------------------------------------
\* Settling a conflict

\* What flags are kept of.
InPlay(row) == row.life \in {"proposed", "kept"}

\* Settling f's conflicts leaves a memory in play only if it was, and only
\* f's flag goes.
Calms(row, f, m) == InPlay(row) => InPlay(mem[m]) /\ (row.conflict <=> m # f /\ mem[m].conflict)

\* A resolution that settles f's conflicts, as the change it makes.
Settles(ch, f) ==
    /\ Steady(ch) /\ f \in Memories /\ mem[f].conflict
    /\ ch.undo = "resolve" /\ f \in ch.touch
    /\ ch.end = {Triple("conflicts_with", f, e) : e \in Contradicts(f)}
    /\ \A t \in ch.make : t.kind = "supersedes"
    /\ Says(ch.acts, f)
    /\ \A m \in Memories : Calms(ch.mem[m], f, m)

\* The rows and the receipts a settling may go on to write.
LEMMA WriteSettles ==
    ASSUME NEW f, NEW ch, Settles(ch, f), NEW m \in Memories, NEW row, NEW as, as \in Seq(Words),
           Steady(Write(ch, m, row, as)), Calms(row, f, m)
    PROVE  /\ Settles(Write(ch, m, row, as), f)
           /\ SameAll(Write(ch, m, row, as), ch, {"mem", "acts"})
           /\ Write(ch, m, row, as).mem = [ch.mem EXCEPT ![m] = row]
<1> DEFINE n == Write(ch, m, row, as)
           rs == [ch.mem EXCEPT ![m] = row]
           ac == With(ch.acts, {m}, as)
<1>1. Shape(ch) /\ f \in Memories /\ DOMAIN ch.mem = Memories
  BY DEF Settles, Steady, Rowed
<1>2. n = [[ch EXCEPT !["mem"] = rs] EXCEPT !["acts"] = ac]
  BY <1>1 DEF Write, Shape
<1>3. Says(ac, f)
  <2>1. Says(ch.acts, f) /\ Spoken(ch.acts)
    BY DEF Settles, Says
  <2> QED
    BY <1>1, <2>1, WithSpoken
<1>4. \A k \in Memories : rs[k] = IF k = m THEN row ELSE ch.mem[k]
  BY <1>1
<1>5. Steady(n)
  OBVIOUS
<1>6. rs = [ch.mem EXCEPT ![m] = row]
  OBVIOUS
<1> HIDE DEF n, rs, ac
<1>7. SameAll(n, ch, {"mem", "acts"}) /\ n.mem = rs /\ n.acts = ac
  BY <1>1, <1>2, FieldNames DEF SameAll, Shape
<1>8. n.undo = ch.undo /\ n.end = ch.end /\ n.touch = ch.touch /\ n.make = ch.make
  BY <1>7, FieldNames DEF SameAll
<1>9. \A k \in Memories : Calms(n.mem[k], f, k)
  BY <1>4, <1>7 DEF Settles
<1>10. Settles(n, f)
  BY <1>3, <1>5, <1>7, <1>8, <1>9 DEF Settles
<1> QED
  BY <1>6, <1>7, <1>10 DEF n

LEMMA KeepItSettles ==
    ASSUME NEW f, NEW ch, Settles(ch, f), NEW m \in Memories
    PROVE  Settles(KeepIt(ch, m), f)
<1>1. Steady(KeepIt(ch, m))
  BY SteadyKeepIt DEF Settles
<1>2. CASE ch.mem[m].life = "proposed"
  <2> DEFINE r == ch.mem[m]
             row == [r EXCEPT !.life = "kept"]
             as == <<"kept">>
  <2>1. KeepIt(ch, m) = Write(ch, m, row, as)
    BY <1>2 DEF KeepIt
  <2>2. Calms(r, f, m) /\ r \in AnyRow /\ r.life = "proposed"
    BY <1>2 DEF Settles, Steady, Rowed, Fits
  <2> HIDE DEF r
  <2>3. row = [life |-> "kept", conflict |-> r.conflict, version |-> r.version, status |-> r.status]
    BY <2>2, RowSet
  <2>4. Calms(row, f, m)
    BY <2>2, <2>3 DEF Calms, InPlay
  <2>5. as \in Seq(Words)
    BY OneWord
  <2> HIDE DEF row, as
  <2>6. Steady(Write(ch, m, row, as))
    BY <1>1, <2>1
  <2>7. Settles(Write(ch, m, row, as), f)
    BY <2>4, <2>5, <2>6, WriteSettles
  <2> QED
    BY <2>1, <2>7
<1>3. CASE ch.mem[m].life # "proposed"
  BY <1>3 DEF KeepIt
<1> QED
  BY <1>2, <1>3

LEMMA SupersedeSettles ==
    ASSUME NEW f, NEW ch, Settles(ch, f), NEW ds, Steady(SupersedeAll(ch, ds))
    PROVE  Settles(SupersedeAll(ch, ds), f)
<1> DEFINE n == SupersedeAll(ch, ds)
           rs == [d \in Memories |-> IF d \in ds THEN [ch.mem[d] EXCEPT !.status = "superseded"] ELSE ch.mem[d]]
           as == <<"superseded">>
           ac == With(ch.acts, ds, as)
           ts == ch.touch \cup ds
<1>1. Shape(ch) /\ f \in Memories /\ \A m \in Memories : ch.mem[m] \in AnyRow
  BY DEF Settles, Steady, Rowed, Fits
<1>2. n = [[[ch EXCEPT !["mem"] = rs] EXCEPT !["acts"] = ac] EXCEPT !["touch"] = ts]
  BY <1>1 DEF SupersedeAll, Shape
<1>3. Says(ac, f)
  <2>1. Says(ch.acts, f) /\ Spoken(ch.acts) /\ as \in Seq(Words)
    BY OneWord DEF Settles, Says
  <2> QED
    BY <1>1, <2>1, WithSpoken
<1>4. ASSUME NEW m \in Memories PROVE Calms(rs[m], f, m)
  <2> DEFINE r == ch.mem[m]
             row == [r EXCEPT !.status = "superseded"]
  <2>1. Calms(r, f, m) /\ r \in AnyRow
    BY <1>1 DEF Settles
  <2>2. rs[m] = row \/ rs[m] = r
    OBVIOUS
  <2> HIDE DEF r
  <2>3. row = [life |-> r.life, conflict |-> r.conflict, version |-> r.version, status |-> "superseded"]
    BY <2>1, RowSet
  <2>4. Calms(row, f, m)
    BY <2>1, <2>3 DEF Calms, InPlay
  <2> HIDE DEF row, rs
  <2> QED
    BY <2>1, <2>2, <2>4
<1>5. Steady(n) /\ ch.touch \subseteq ts
  OBVIOUS
<1> HIDE DEF n, rs, ac, ts
<1>6. SameAll(n, ch, {"mem", "acts", "touch"}) /\ n.mem = rs /\ n.acts = ac /\ n.touch = ts
  BY <1>1, <1>2, FieldNames DEF SameAll, Shape
<1>7. n.undo = ch.undo /\ n.end = ch.end /\ n.make = ch.make
  BY <1>6, FieldNames DEF SameAll
<1>8. Settles(n, f)
  BY <1>3, <1>4, <1>5, <1>6, <1>7 DEF Settles
<1> QED
  BY <1>8 DEF n

LEMMA GiveWaySettles ==
    ASSUME Recorded, NEW f, NEW ch, Settles(ch, f), NEW loser \in Memories, NEW winner \in Memories, loser # winner,
           top[loser] # 0, top[winner] # 0
    PROVE  Settles(GiveWay(ch, loser, winner), f)
<1> DEFINE made == {Triple("supersedes", winner, loser)}
           linked == [ch EXCEPT !.make = made]
           r == ch.mem[loser]
<1>1. Steady(ch) /\ Shape(ch) /\ f \in Memories
  BY DEF Settles, Steady
<1>2. Steady(GiveWay(ch, loser, winner))
  BY <1>1, SteadyGiveWay
<1>3. \A m \in {winner} : \A t \in made : t.kind = "supersedes"
  BY DEF Triple
<1>4. r \in AnyRow /\ Calms(r, f, loser)
  BY DEF Settles, Steady, Rowed, Fits
<1>5. ASSUME NEW life \in {"rejected", "faded"} PROVE Calms(Away(r, life), f, loser)
  <2> DEFINE x == [r EXCEPT !.life = life]
  <2> HIDE DEF r
  <2>1. x = [life |-> life, conflict |-> r.conflict, version |-> r.version, status |-> r.status]
    BY <1>4, RowSet
  <2>2. Away(r, life) = [x EXCEPT !.conflict = FALSE]
    BY DEF Away
  <2> HIDE DEF x
  <2>3. Away(r, life).life = life
    BY <2>1, <2>2
  <2> QED
    BY <2>3 DEF Calms, InPlay
<1>6. GiveWay(ch, loser, winner) =
         IF r.life = "proposed" THEN Write(ch, loser, Away(r, "rejected"), <<"rejected">>)
         ELSE IF loser \in Decisions THEN SupersedeAll(linked, {loser})
         ELSE Write(linked, loser, Away(linked.mem[loser], "faded"), <<"faded">>)
  <2>1. CASE r.life = "proposed"
    BY <2>1 DEF GiveWay
  <2>2. CASE r.life # "proposed" /\ loser \in Decisions
    BY <2>2 DEF GiveWay
  <2>3. CASE r.life # "proposed" /\ loser \notin Decisions
    BY <2>3, <1>1 DEF GiveWay, Shape, ChangeFields
  <2> QED
    BY <2>1, <2>2, <2>3
<1> HIDE DEF made, linked
<1>7. SameAll(linked, ch, {"make"}) /\ linked.make = made
  <2>1. linked = [ch EXCEPT !["make"] = made]
    BY DEF linked
  <2> QED
    BY <1>1, <2>1, FieldNames DEF SameAll, Shape
<1>8. /\ linked.undo = ch.undo /\ linked.end = ch.end /\ linked.touch = ch.touch /\ linked.mem = ch.mem
      /\ linked.acts = ch.acts /\ Shape(linked)
  BY <1>7, FieldNames DEF SameAll
<1>9. Steady(linked)
  <2>1. /\ top \in [Memories -> Nat] /\ ch.top \in [Memories -> Nat] /\ \A m \in Memories : top[m] <= ch.top[m]
    BY <1>1, Tops DEF Steady
  <2>2. ch.top[loser] # 0 /\ ch.top[winner] # 0
    BY <2>1
  <2>3. \A t \in made : Linkable(ch.top, t) /\ t.kind # "merged_into"
    BY <2>2 DEF made, Linkable, Triple, Triples, Kinds
  <2>4. Same(linked, ch, {"make"})
    BY <1>7 DEF SameAll, Same
  <2> QED
    BY <1>1, <1>7, <2>3, <2>4, SteadyField
<1>10. Settles(linked, f)
  <2>1. \A t \in linked.make : t.kind = "supersedes"
    BY <1>3, <1>7
  <2> QED
    BY <1>8, <1>9, <2>1 DEF Settles
<1>11. CASE r.life = "proposed"
  <2> DEFINE row == Away(r, "rejected")
             as == <<"rejected">>
  <2>1. Calms(row, f, loser) /\ as \in Seq(Words)
    BY <1>5, OneWord
  <2>2. GiveWay(ch, loser, winner) = Write(ch, loser, row, as)
    BY <1>6, <1>11
  <2> HIDE DEF row, as
  <2>3. Steady(Write(ch, loser, row, as))
    BY <1>2, <2>2
  <2>4. Settles(Write(ch, loser, row, as), f)
    BY <2>1, <2>3, WriteSettles
  <2> QED
    BY <2>2, <2>4
<1>12. CASE r.life # "proposed" /\ loser \in Decisions
  <2> DEFINE ds == {loser}
  <2>1. GiveWay(ch, loser, winner) = SupersedeAll(linked, ds)
    BY <1>6, <1>12
  <2> HIDE DEF ds
  <2>2. Steady(SupersedeAll(linked, ds))
    BY <1>2, <2>1
  <2>3. Settles(SupersedeAll(linked, ds), f)
    BY <1>10, <2>2, SupersedeSettles
  <2> QED
    BY <2>1, <2>3
<1>13. CASE r.life # "proposed" /\ loser \notin Decisions
  <2> DEFINE row == Away(linked.mem[loser], "faded")
             as == <<"faded">>
  <2>1. Calms(row, f, loser) /\ as \in Seq(Words)
    BY <1>5, <1>8, OneWord
  <2>2. GiveWay(ch, loser, winner) = Write(linked, loser, row, as)
    BY <1>6, <1>13
  <2> HIDE DEF row, as
  <2>3. Steady(Write(linked, loser, row, as))
    BY <1>2, <2>2
  <2>4. Settles(Write(linked, loser, row, as), f)
    BY <1>10, <2>1, <2>3, WriteSettles
  <2> QED
    BY <2>2, <2>4
<1> QED
  BY <1>11, <1>12, <1>13

LEMMA PutSettles ==
    ASSUME Recorded, NEW f, NEW ch, Settles(ch, f), NEW m \in Memories, top[m] # 0, NEW v \in Wordings(m)
    PROVE  Settles(Put(ch, m, v), f)
<1>1. Steady(Put(ch, m, v)) /\ Shape(ch)
  BY SteadyPut DEF Settles, Steady
<1>2. CASE v = mem[m].version
  BY <1>2 DEF Put
<1>3. CASE v # mem[m].version
  <2> DEFINE r == ch.mem[m]
             row == [r EXCEPT !.version = v]
             as == <<"edited">>
             rs == [ch.mem EXCEPT ![m] = row]
             ac == With(ch.acts, {m}, as)
             w == Write(ch, m, row, as)
             n == Put(ch, m, v)
             ts == [w.top EXCEPT ![m] = IF v > w.top[m] THEN v ELSE w.top[m]]
  <2>1. r \in AnyRow /\ Calms(r, f, m) /\ f \in Memories /\ DOMAIN ch.mem = Memories
    BY DEF Settles, Steady, Rowed, Fits
  <2>2. n = [w EXCEPT !["top"] = ts]
    BY <1>3 DEF Put
  <2>3. w = [[ch EXCEPT !["mem"] = rs] EXCEPT !["acts"] = ac]
    BY <1>1 DEF Write, Shape
  <2>4. Says(ac, f)
    <3>1. Says(ch.acts, f) /\ Spoken(ch.acts) /\ as \in Seq(Words)
      BY OneWord DEF Settles, Says
    <3> QED
      BY <2>1, <3>1, WithSpoken
  <2>5. Calms(row, f, m)
    <3> HIDE DEF r
    <3>1. row = [life |-> r.life, conflict |-> r.conflict, version |-> v, status |-> r.status]
      BY <2>1, RowSet
    <3> QED
      BY <2>1, <3>1 DEF Calms, InPlay
  <2>6. \A k \in Memories : rs[k] = IF k = m THEN row ELSE ch.mem[k]
    BY <2>1
  <2>7. Steady(n)
    BY <1>1
  <2> HIDE DEF n, w, ts, rs, ac, row
  <2>8. SameAll(w, ch, {"mem", "acts"}) /\ w.mem = rs /\ w.acts = ac
    BY <1>1, <2>3, FieldNames DEF SameAll, Shape
  <2>9. SameAll(n, w, {"top"})
    BY <2>2, <2>8, FieldNames DEF SameAll, Shape
  <2>10. /\ n.undo = ch.undo /\ n.end = ch.end /\ n.touch = ch.touch /\ n.make = ch.make
         /\ n.mem = rs /\ n.acts = ac
    BY <2>8, <2>9, FieldNames DEF SameAll
  <2>11. \A k \in Memories : Calms(n.mem[k], f, k)
    BY <2>5, <2>6, <2>10 DEF Settles
  <2>12. Settles(n, f)
    BY <2>4, <2>7, <2>10, <2>11 DEF Settles
  <2> QED
    BY <2>12 DEF n
<1> QED
  BY <1>2, <1>3

LEMMA SettledSettles ==
    ASSUME Recorded, NEW f \in Memories, NEW d \in Memories, NEW ends, Settling(f, d), ends = Contradicts(f)
    PROVE  Settles(Settled(f, d, ends), f)
<1> DEFINE n == Settled(f, d, ends)
           row == [mem[f] EXCEPT !.conflict = FALSE]
           c0 == Change("person")
           as == <<"resolved">>
           ac == With(c0.acts, {f}, as)
           w == Write(c0, f, row, as)
           es == {Triple("conflicts_with", f, e) : e \in ends}
           ms == {f, d}
           n1 == [w EXCEPT !["undo"] = "resolve"]
           n2 == [n1 EXCEPT !["touch"] = ms]
           n3 == [n2 EXCEPT !["end"] = es]
<1>1. /\ top[f] # 0 /\ top[d] # 0 /\ mem[f].conflict
      /\ \A e \in ends : Triple("conflicts_with", f, e) \in Active
  BY SettlingThere DEF Settling
<1>2. /\ Steady(n) /\ n.mem = [mem EXCEPT ![f] = row] /\ n.touch = {f, d} /\ n.make = {}
  BY <1>1, SteadySettled
<1>3. /\ Same(n, c0, {"mem", "undo", "touch", "end"})
      /\ n.mem = [mem EXCEPT ![f] = row]
      /\ n.undo = "resolve"
      /\ n.touch = {f, d}
      /\ n.end = es
  BY SettledShape
<1>4. Says(ac, f)
  <2>1. c0.acts = [m \in Memories |-> <<>>]
    BY DEF Change
  <2>2. Spoken(c0.acts) /\ as \in Seq(Words)
    BY <2>1, OneWord DEF Spoken
  <2>3. Spoken(ac)
    BY <2>2, WithSpoken
  <2>4. ac[f] = <<>> \o as
    BY <2>1 DEF With
  <2>5. <<>> \o as = as /\ Len(as) = 1 /\ as[1] = "resolved"
    OBVIOUS
  <2>6. ac[f] = as
    BY <2>4, <2>5
  <2> HIDE DEF ac, as
  <2>7. Len(ac[f]) = 1 /\ ac[f][1] = "resolved"
    BY <2>5, <2>6
  <2>8. 1 \in 1..Len(ac[f])
    BY <2>7
  <2> QED
    BY <2>3, <2>7, <2>8 DEF Says
<1>5. n.acts = ac
  <2>1. Shape(c0)
    BY ChangeShape
  <2>2. w = [[c0 EXCEPT !["mem"] = [c0.mem EXCEPT ![f] = row]] EXCEPT !["acts"] = ac]
    BY <2>1 DEF Write, Shape
  <2> DEFINE rs == [c0.mem EXCEPT ![f] = row]
  <2>3. n = n3
    <3>1. n = [w EXCEPT !.undo = "resolve", !.touch = ms, !.end = es]
      BY DEF Settled
    <3> HIDE DEF n, w, es, ms
    <3> QED
      BY <3>1
  <2> HIDE DEF c0, ac, rs, w, n, es, ms
  <2>4. SameAll(w, c0, {"mem", "acts"}) /\ w.acts = ac
    BY <2>1, <2>2, FieldNames DEF SameAll, Shape, rs
  <2>5. SameAll(n1, w, {"undo"})
    BY <2>4, FieldNames DEF SameAll, Shape
  <2> HIDE DEF n1
  <2>6. SameAll(n2, n1, {"touch"})
    BY <2>5, FieldNames DEF SameAll, Shape
  <2> HIDE DEF n2
  <2>7. SameAll(n3, n2, {"end"})
    BY <2>6, FieldNames DEF SameAll, Shape
  <2> HIDE DEF n3
  <2> QED
    BY <2>3, <2>4, <2>5, <2>6, <2>7, FieldNames DEF SameAll
<1>6. ASSUME NEW m \in Memories PROVE Calms(n.mem[m], f, m)
  <2> DEFINE r == mem[f]
  <2>1. r \in AnyRow /\ mem = [k \in Memories |-> mem[k]]
    BY DEF Recorded, Rowed, Fits
  <2>2. n.mem[m] = IF m = f THEN row ELSE mem[m]
    BY <1>2, <2>1
  <2>3. row.life = r.life /\ ~row.conflict
    <3> HIDE DEF r
    <3>1. [r EXCEPT !.conflict = FALSE] = [life |-> r.life, conflict |-> FALSE, version |-> r.version, status |-> r.status]
      BY <2>1, RowSet
    <3> QED
      BY <3>1 DEF r
  <2> HIDE DEF row, n
  <2> QED
    BY <2>2, <2>3 DEF Calms, InPlay
<1>7. n.end = {Triple("conflicts_with", f, e) : e \in Contradicts(f)}
  BY <1>3
<1> HIDE DEF n, ac, row
<1>8. Settles(n, f)
  BY <1>1, <1>2, <1>3, <1>4, <1>5, <1>6, <1>7 DEF Settles
<1> QED
  BY <1>8 DEF n

LEMMA ForFlaggedSettles ==
    ASSUME Recorded, NEW f \in Memories, NEW d \in Memories, ResolveForFlagged(f, d)
    PROVE  \E ch : Settles(ch, f) /\ Commit(ch)
<1> DEFINE ends == {d}
           c1 == Settled(f, d, ends)
           c2 == KeepIt(c1, f)
           c3 == GiveWay(c2, d, f)
<1>1. Settling(f, d) /\ Commit(c3) /\ Contradicts(f) = {d}
  BY DEF ResolveForFlagged
<1>2. f # d /\ top[f] # 0 /\ top[d] # 0 /\ ends = Contradicts(f)
  BY <1>1, SettlingThere
<1> HIDE DEF ends
<1>3. Settles(c1, f)
  BY <1>1, <1>2, SettledSettles
<1> HIDE DEF c1
<1>4. Settles(c2, f)
  BY <1>3, KeepItSettles
<1> HIDE DEF c2
<1>5. Settles(c3, f)
  BY <1>2, <1>4, GiveWaySettles
<1> HIDE DEF c3
<1> QED
  BY <1>1, <1>5

LEMMA ForDecisionSettles ==
    ASSUME Recorded, NEW f \in Memories, NEW d \in Memories, ResolveForDecision(f, d)
    PROVE  \E ch : Settles(ch, f) /\ Commit(ch)
<1> DEFINE ends == Contradicts(f)
           c1 == Settled(f, d, ends)
           c2 == KeepIt(c1, d)
           c3 == GiveWay(c2, f, d)
<1>1. Settling(f, d) /\ Commit(c3)
  BY DEF ResolveForDecision
<1>2. f # d /\ top[f] # 0 /\ top[d] # 0 /\ ends = Contradicts(f)
  BY <1>1, SettlingThere
<1> HIDE DEF ends
<1>3. Settles(c1, f)
  BY <1>1, <1>2, SettledSettles
<1> HIDE DEF c1
<1>4. Settles(c2, f)
  BY <1>3, KeepItSettles
<1> HIDE DEF c2
<1>5. Settles(c3, f)
  BY <1>2, <1>4, GiveWaySettles
<1> HIDE DEF c3
<1> QED
  BY <1>1, <1>5

LEMMA BothSettles ==
    ASSUME Recorded, NEW f \in Memories, NEW d \in Memories, ResolveBoth(f, d)
    PROVE  \E ch : Settles(ch, f) /\ Commit(ch)
<1> DEFINE ends == {d}
           c1 == Settled(f, d, ends)
           c2(v) == Put(c1, f, v)
           c3(v, w) == Put(c2(v), d, w)
           c4(v, w) == KeepIt(c3(v, w), f)
<1>1. Settling(f, d) /\ Contradicts(f) = {d} /\ \E v \in Wordings(f), w \in Wordings(d) : Commit(c4(v, w))
  BY DEF ResolveBoth
<1>2. f # d /\ top[f] # 0 /\ top[d] # 0 /\ ends = Contradicts(f)
  BY <1>1, SettlingThere
<1> HIDE DEF ends
<1>3. Settles(c1, f)
  BY <1>1, <1>2, SettledSettles
<1> HIDE DEF c1
<1>4. PICK v \in Wordings(f), w \in Wordings(d) : Commit(c4(v, w))
  BY <1>1
<1>5. Settles(c2(v), f)
  BY <1>2, <1>3, PutSettles
<1> HIDE DEF c2
<1>6. Settles(c3(v, w), f)
  BY <1>2, <1>5, PutSettles
<1> HIDE DEF c3
<1>7. Settles(c4(v, w), f)
  BY <1>6, KeepItSettles
<1> HIDE DEF c4
<1> QED
  BY <1>4, <1>7

LEMMA OpenSettles ==
    ASSUME Recorded, NEW f \in Memories, NEW d \in Memories, ResolveOpen(f, d)
    PROVE  \E ch : Settles(ch, f) /\ Commit(ch)
<1> DEFINE ends == {d}
           c1 == Settled(f, d, ends)
           c2 == KeepIt(c1, f)
           open == {f} \cup {m \in {d} : InForce(m)}
           rows == [m \in Memories |-> IF m \in open \cap Decisions THEN [c2.mem[m] EXCEPT !.status = "open"]
                                       ELSE c2.mem[m]]
           as == <<"resolved">>
           ac == With(c2.acts, open, as)
           n1 == [c2 EXCEPT !["mem"] = rows]
           n2 == [n1 EXCEPT !["acts"] = ac]
<1>1. /\ Settling(f, d) /\ Contradicts(f) = {d}
      /\ Commit([c2 EXCEPT !.mem = rows, !.acts = With(@, open, <<"resolved">>)])
  BY DEF ResolveOpen
<1>2. f # d /\ top[f] # 0 /\ top[d] # 0 /\ ends = Contradicts(f)
  BY <1>1, SettlingThere
<1> HIDE DEF ends
<1>3. Settles(c1, f)
  BY <1>1, <1>2, SettledSettles
<1> HIDE DEF c1
<1>4. Settles(c2, f)
  BY <1>3, KeepItSettles
<1> HIDE DEF c2, open
<1>5. Steady(c2) /\ Shape(c2)
  BY <1>4 DEF Settles, Steady
<1>6. Says(ac, f)
  <2>1. Says(c2.acts, f) /\ Spoken(c2.acts) /\ as \in Seq(Words)
    BY <1>4, OneWord DEF Settles, Says
  <2> QED
    BY <2>1, WithSpoken
<1>7. [c2 EXCEPT !.mem = rows, !.acts = With(@, open, <<"resolved">>)] = n2
  <2> HIDE DEF rows
  <2>1. n1.acts = c2.acts
    BY <1>5, FieldNames DEF Shape
  <2> QED
    BY <2>1
<1>8. ASSUME NEW m \in Memories
      PROVE  Fits(rows[m], c2.top[m]) /\ rows[m].life = c2.mem[m].life /\ Calms(rows[m], f, m)
  <2> DEFINE r == c2.mem[m]
             t == c2.top[m]
             row == [r EXCEPT !.status = "open"]
  <2>1. Fits(r, t) /\ t \in Nat /\ r \in AnyRow /\ Calms(r, f, m)
    BY <1>4 DEF Settles, Steady, Rowed, Fits
  <2>2. rows[m] = row \/ rows[m] = r
    OBVIOUS
  <2> HIDE DEF r, t, rows
  <2>3. \A s \in {"in_force", "open", "superseded"} :
           Fits([r EXCEPT !.status = s], t) /\ [r EXCEPT !.status = s].life = r.life
    BY <2>1, RowKept
  <2>4. Fits(row, t) /\ row.life = r.life
    BY <2>3
  <2>5. row = [life |-> r.life, conflict |-> r.conflict, version |-> r.version, status |-> "open"]
    BY <2>1, RowSet
  <2>6. Calms(row, f, m)
    BY <2>1, <2>5 DEF Calms, InPlay
  <2> HIDE DEF row
  <2> QED
    BY <2>1, <2>2, <2>4, <2>6 DEF r, t
<1>9. DOMAIN rows = Memories /\ rows = [m \in Memories |-> rows[m]]
  OBVIOUS
<1>10. Commit(n2)
  BY <1>1, <1>7
<1> HIDE DEF rows, ac, n1
<1>11. SameAll(n1, c2, {"mem"}) /\ n1.mem = rows
  BY <1>5, FieldNames DEF SameAll, Shape, n1
<1> HIDE DEF n2
<1>12. SameAll(n2, n1, {"acts"}) /\ n2.acts = ac
  BY <1>11, FieldNames DEF SameAll, Shape, n2
<1>13. /\ n2.of = c2.of /\ n2.before = c2.before /\ n2.top = c2.top /\ n2.make = c2.make /\ n2.end = c2.end
       /\ n2.queue = c2.queue /\ n2.touch = c2.touch /\ n2.undo = c2.undo /\ n2.mem = rows /\ n2.acts = ac
       /\ Shape(n2)
  BY <1>11, <1>12, FieldNames DEF SameAll
<1>14. Rowed(n2.top, n2.mem)
  BY <1>8, <1>9, <1>13 DEF Rowed
<1>15. \A m \in Memories : Stands(mem[m]) => Stands(n2.mem[m])
  BY <1>5, <1>8, <1>13 DEF Steady, Stands
<1>16. Steady(n2)
  BY <1>5, <1>13, <1>14, <1>15 DEF Steady
<1>17. Settles(n2, f)
  BY <1>4, <1>6, <1>8, <1>13, <1>16 DEF Settles
<1> QED
  BY <1>10, <1>17

\* A resolution settles the conflicts of its flagged side, or is held.
LEMMA ResolveSettles ==
    ASSUME Recorded, NEW f \in Memories, NEW d \in Memories, Resolve(f, d)
    PROVE  \/ \E ch : Settles(ch, f) /\ Commit(ch)
           \/ \E ch, saved, new : Holding(ch, saved, new) /\ Commit(ch)
  BY ForFlaggedSettles, ForDecisionSettles, OpenSettles, BothSettles, HoldBothHolds DEF Resolve

----------------------------------------------------------------------------
\* The invariant of the flags

\* The conflicts of m that command c ended.
Ended(c, m) == {d \in Memories : Triple("conflicts_with", m, d) \in journal[c].ended}

\* A memory in play with a conflict of its own is flagged,
NoneUnmarked == \A m \in Memories : InPlay(mem[m]) /\ Contradicts(m) # {} => mem[m].conflict

\* and was so when a command that stands wrote it down;
UnmarkedThen ==
    \A c \in 1..Len(journal) : Stood(c) => \A m \in journal[c].touch :
        InPlay(journal[c].before[m]) /\ ~journal[c].before[m].conflict =>
            /\ Ended(c, m) = {}
            /\ \A l \in links : l.kind = "conflicts_with" /\ l.from = m => l.cmd > c

\* a command that may be undone makes no conflict, and ends those of
\* memories it touches.
EndsTouched ==
    \A c \in 1..Len(journal) : Undoing(c) =>
        /\ \A t \in journal[c].made : t.kind # "conflicts_with"
        /\ \A m \in Memories : Ended(c, m) # {} => m \in journal[c].touch

NoneMissed == NoneUnmarked /\ UnmarkedThen /\ EndsTouched

\* While nothing is forgotten, a flagged memory in play has a conflict,
NoneIdle == \A m \in Memories : InPlay(mem[m]) /\ mem[m].conflict => Contradicts(m) # {}

\* and what was flagged when a command that stands wrote it down has one
\* still, unless that command or one since that stands ended it,
FlaggedThen ==
    \A c \in 1..Len(journal) : Stood(c) => \A m \in journal[c].touch :
        InPlay(journal[c].before[m]) /\ journal[c].before[m].conflict =>
            Contradicts(m) # {} \/ \E k \in c..Len(journal) : Stood(k) /\ Ended(k, m) # {}

\* which left a receipt that says so.
EndsSaid ==
    \A c \in 1..Len(journal) : Undoing(c) => \A m \in Memories :
        Ended(c, m) # {} => \E r \in Receipts(m) : r.cmd = c /\ r.act = "resolved"

\* (hist holds its own receipts)
Heard == \A m \in Memories : hist[m] \in Seq(Receipts(m))

NoneLost == NoneIdle /\ FlaggedThen /\ EndsSaid /\ Heard

----------------------------------------------------------------------------
\* What a command does to the conflicts

\* The conflicts of m a change ends, and those it leaves m with.
Parted(ch, m) == {d \in Memories : Triple("conflicts_with", m, d) \in ch.end}

Left(ch, m) ==
    {d \in Memories :
        \/ d \in Contradicts(m) /\ d \notin Parted(ch, m)
        \/ Triple("conflicts_with", m, d) \in ch.make /\ d \notin Contradicts(m)}

LEMMA ContradictsAfter ==
    ASSUME Recorded, Recorded', NEW ch, Commit(ch), ch.of \in 0..Len(journal), NEW m \in Memories
    PROVE  Contradicts(m)' = Left(ch, m)
<1> DEFINE n == Len(journal) + 1
           link(t) == [kind |-> t.kind, from |-> t.from, to |-> t.to, cmd |-> Now]
<1>1. links' = {l \in links : Of(l) \notin ch.end} \cup {link(t) : t \in ch.make \ Active}
  BY DEF Commit
<1>2. \A t \in ch.make \ Active : t \in Triples
  <2>1. /\ Len(journal') = n /\ journal'[n].made = ch.make \ Active /\ Len(journal) \in Nat
    <3>1. /\ Len(journal') = Len(journal) + 1
          /\ journal'[Len(journal) + 1] =
                 [kind |-> ch.undo, touch |-> ch.touch, undone |-> FALSE, made |-> ch.make \ Active, ended |-> ch.end,
                  before |-> [k \in ch.touch |-> ch.before[k]], after |-> [k \in ch.touch |-> ch.mem[k]]]
      BY Journalled
    <3> QED
      BY <3>1 DEF Recorded
  <2>2. n \in 1..Len(journal')
    BY <2>1
  <2>3. Entry(top', journal'[n])
    BY <2>2 DEF Recorded
  <2> QED
    BY <2>1, <2>3 DEF Entry, Linkable
<1>3. \A t \in ch.make \ Active : Of(link(t)) = t
  BY <1>2 DEF Of, Triple, Triples
<1> HIDE DEF link
<1>4. ASSUME NEW t
      PROVE  (\E l \in links' : Of(l) = t) <=> (t \in Active /\ t \notin ch.end) \/ t \in ch.make \ Active
  BY <1>1, <1>3 DEF Active
<1>5. \A t : t \in Active' <=> (t \in Active /\ t \notin ch.end) \/ t \in ch.make \ Active
  BY <1>4 DEF Active, Of, Triple
<1> DEFINE T(d) == Triple("conflicts_with", m, d)
<1>6. /\ Contradicts(m)' = {d \in Memories : T(d) \in Active'}
      /\ Contradicts(m) = {d \in Memories : T(d) \in Active}
      /\ Parted(ch, m) = {d \in Memories : T(d) \in ch.end}
      /\ Left(ch, m) = {d \in Memories : \/ d \in Contradicts(m) /\ d \notin Parted(ch, m)
                                         \/ T(d) \in ch.make /\ d \notin Contradicts(m)}
  BY DEF Contradicts, Parted, Left, Triple
<1> HIDE DEF T
<1> QED
  BY <1>5, <1>6

\* The entry a command other than an Undo adds.
Entered(ch) ==
    LET n == Len(journal) + 1 IN
    /\ Len(journal) \in Nat /\ Len(journal') = n
    /\ \A c \in 1..Len(journal) : journal'[c] = journal[c]
    /\ journal'[n].kind = ch.undo /\ journal'[n].touch = ch.touch /\ ~journal'[n].undone /\ journal'[n].ended = ch.end
    /\ journal'[n].made \subseteq ch.make
    /\ \A m \in ch.touch : journal'[n].before[m] = ch.before[m]
    /\ mem' = ch.mem

LEMMA CommitEnters ==
    ASSUME Recorded, NEW ch, Commit(ch), ch.of = 0
    PROVE  Entered(ch)
<1> DEFINE n == Len(journal) + 1
           e == [kind |-> ch.undo, touch |-> ch.touch, undone |-> FALSE, made |-> ch.make \ Active, ended |-> ch.end,
                 before |-> [m \in ch.touch |-> ch.before[m]], after |-> [m \in ch.touch |-> ch.mem[m]]]
<1>1. Len(journal) \in Nat /\ ch.of \in 0..Len(journal) /\ mem' = ch.mem
  BY DEF Recorded, Commit
<1>2. /\ Len(journal') = n
      /\ \A c \in 1..Len(journal) : journal'[c] = IF c = ch.of THEN [journal[c] EXCEPT !.undone = TRUE] ELSE journal[c]
      /\ journal'[n] = e
  BY <1>1, Journalled
<1>3. \A c \in 1..Len(journal) : c # ch.of
  OBVIOUS
<1>4. \A c \in 1..Len(journal) : journal'[c] = journal[c]
  <2> TAKE c \in 1..Len(journal)
  <2>1. c # ch.of
    BY <1>3
  <2>2. journal'[c] = IF c = ch.of THEN [journal[c] EXCEPT !.undone = TRUE] ELSE journal[c]
    BY <1>1, Journalled
  <2> QED
    BY <2>1, <2>2
<1>5. /\ e.kind = ch.undo /\ e.touch = ch.touch /\ ~e.undone /\ e.ended = ch.end /\ e.made \subseteq ch.make
      /\ \A m \in ch.touch : e.before[m] = ch.before[m]
  OBVIOUS
<1> QED
  BY <1>1, <1>2, <1>4, <1>5 DEF Entered

\* What may be undone after it could be undone before it, or is it.
LEMMA EnteredKinds ==
    ASSUME NEW ch, Entered(ch), NEW c \in 1..Len(journal'), Undoing(c)'
    PROVE  \/ /\ c \in 1..Len(journal) /\ Undoing(c) /\ journal'[c] = journal[c]
              /\ Stood(c)' => Stood(c)
              /\ \A m : Ended(c, m)' = Ended(c, m)
           \/ /\ c = Len(journal) + 1 /\ ch.undo # "none" /\ \A m : Ended(c, m)' = Parted(ch, m)
              /\ Stood(c)'
<1>1. CASE c \in 1..Len(journal)
  <2>1. journal'[c] = journal[c]
    BY <1>1 DEF Entered
  <2>2. \A m : Ended(c, m)' = Ended(c, m)
    BY <2>1 DEF Ended, Triple
  <2> QED
    BY <1>1, <2>1, <2>2 DEF Undoing, Stood
<1>2. CASE c = Len(journal) + 1
  <2>1. journal'[c].ended = ch.end /\ journal'[c].kind = ch.undo /\ ~journal'[c].undone
    BY <1>2 DEF Entered
  <2>2. \A m : Ended(c, m)' = Parted(ch, m)
    BY <2>1 DEF Ended, Parted, Triple
  <2> QED
    BY <1>2, <2>1, <2>2 DEF Undoing, Stood
<1> QED
  BY <1>1, <1>2 DEF Entered

\* A change that leaves no conflict unmarked, and ends those of flagged
\* memories it touches.
Minds(ch) ==
    /\ ch.of = 0
    /\ \A m \in Memories : InPlay(ch.mem[m]) /\ Left(ch, m) # {} => ch.mem[m].conflict
    /\ \A m \in Memories : Parted(ch, m) # {} /\ ch.undo # "none" => m \in ch.touch /\ mem[m].conflict
    /\ ch.undo # "none" =>
          /\ \A t \in ch.make : t.kind # "conflicts_with"
          /\ \A m \in ch.touch : m \in Memories /\ (InPlay(ch.before[m]) => ch.before[m] = mem[m])

LEMMA MindsMissed ==
    ASSUME Recorded, Recorded', NoneMissed, NEW ch, Minds(ch), Commit(ch)
    PROVE  NoneMissed'
<1>1. Entered(ch) /\ ch.of \in 0..Len(journal) /\ Len(journal) \in Nat
  BY CommitEnters DEF Minds, Recorded
<1>2. NoneUnmarked /\ UnmarkedThen /\ EndsTouched
  BY DEF NoneMissed
<1>3. NoneUnmarked'
  <2> SUFFICES ASSUME NEW m \in Memories, InPlay(mem[m])', Contradicts(m)' # {} PROVE mem'[m].conflict
    BY DEF NoneUnmarked
  <2>1. Contradicts(m)' = Left(ch, m)
    BY <1>1, ContradictsAfter
  <2>2. mem' = ch.mem
    BY <1>1 DEF Entered
  <2>3. InPlay(ch.mem[m])
    BY <2>2 DEF InPlay
  <2> QED
    BY <2>1, <2>2, <2>3 DEF Minds
<1>4. EndsTouched'
  <2> SUFFICES ASSUME NEW c \in 1..Len(journal'), Undoing(c)'
               PROVE  /\ \A t \in journal'[c].made : t.kind # "conflicts_with"
                      /\ \A m \in Memories : Ended(c, m)' # {} => m \in journal'[c].touch
    BY DEF EndsTouched
  <2>1. CASE c \in 1..Len(journal)
    <3>1. /\ Undoing(c) /\ journal'[c] = journal[c] /\ \A m : Ended(c, m)' = Ended(c, m)
      BY <1>1, <2>1, EnteredKinds
    <3> QED
      BY <1>2, <2>1, <3>1 DEF EndsTouched
  <2>2. CASE c \notin 1..Len(journal)
    <3>1. c = Len(journal) + 1 /\ ch.undo # "none" /\ \A m : Ended(c, m)' = Parted(ch, m)
      BY <1>1, <2>2, EnteredKinds
    <3>2. journal'[c].made \subseteq ch.make /\ journal'[c].touch = ch.touch
      BY <1>1, <3>1 DEF Entered
    <3> QED
      BY <3>1, <3>2 DEF Minds
  <2> QED
    BY <2>1, <2>2
<1>5. UnmarkedThen'
  <2> SUFFICES ASSUME NEW c \in 1..Len(journal'), Stood(c)', NEW m \in journal'[c].touch,
                      InPlay(journal[c].before[m])', ~journal'[c].before[m].conflict
               PROVE  /\ Ended(c, m)' = {}
                      /\ \A l \in links' : l.kind = "conflicts_with" /\ l.from = m => l.cmd > c
    BY DEF UnmarkedThen
  <2>0. Undoing(c)'
    BY DEF Stood
  <2>1. CASE c \in 1..Len(journal)
    <3>1. Stood(c) /\ journal'[c] = journal[c] /\ Ended(c, m)' = Ended(c, m)
      BY <1>1, <2>0, <2>1, EnteredKinds
    <3>2. InPlay(journal[c].before[m]) /\ ~journal[c].before[m].conflict /\ m \in journal[c].touch
      BY <3>1 DEF InPlay
    <3>3. /\ Ended(c, m) = {}
          /\ \A l \in links : l.kind = "conflicts_with" /\ l.from = m => l.cmd > c
      BY <1>2, <2>1, <3>1, <3>2 DEF UnmarkedThen
    <3>4. ASSUME NEW l \in links', l.kind = "conflicts_with", l.from = m PROVE l.cmd > c
      <4>1. l \in links \/ l.cmd = Len(journal) + 1
        BY NewLinks
      <4> QED
        BY <1>1, <2>1, <3>3, <3>4, <4>1
    <3> QED
      BY <3>1, <3>3, <3>4
  <2>2. CASE c \notin 1..Len(journal)
    <3>1. c = Len(journal) + 1 /\ ch.undo # "none" /\ Ended(c, m)' = Parted(ch, m)
      BY <1>1, <2>0, <2>2, EnteredKinds
    <3>2. journal'[c].touch = ch.touch /\ \A k \in ch.touch : journal'[c].before[k] = ch.before[k]
      BY <1>1, <3>1 DEF Entered
    <3>3. m \in ch.touch /\ InPlay(ch.before[m]) /\ ~ch.before[m].conflict
      BY <3>2 DEF InPlay
    <3>4. m \in Memories /\ InPlay(mem[m]) /\ ~mem[m].conflict
      BY <3>1, <3>3 DEF Minds
    <3>5. Parted(ch, m) = {}
      BY <3>1, <3>4 DEF Minds
    <3>6. Contradicts(m) = {}
      BY <1>2, <3>4 DEF NoneUnmarked
    <3>7. ASSUME NEW l \in links', l.kind = "conflicts_with", l.from = m PROVE FALSE
      <4>1. CASE l \in links
        <5>1. Of(l) = Triple("conflicts_with", m, l.to) /\ l.to \in Memories
          BY <3>7, <4>1, LinkThere DEF Of
        <5> QED
          BY <3>6, <4>1, <5>1 DEF Contradicts, Active
      <4>2. CASE l \notin links
        <5>1. \E t \in ch.make : l.kind = t.kind
          BY <4>2, NewLinks
        <5> QED
          BY <3>1, <3>7, <5>1 DEF Minds
      <4> QED
        BY <4>1, <4>2
    <3> QED
      BY <3>1, <3>5, <3>7
  <2> QED
    BY <2>1, <2>2
<1> QED
  BY <1>3, <1>4, <1>5 DEF NoneMissed

LEMMA HeardOn ==
    ASSUME Heard, NEW ch, Commit(ch), NEW m \in Memories, Len(ch.acts[m]) \in Nat
    PROVE  /\ hist'[m] \in Seq(Receipts(m)')
           /\ \A r \in Receipts(m) : r \in Receipts(m)'
           /\ \A a \in ActsOn(ch, m) : Receipt(Len(journal) + 1, ch.by, a, ch.of) \in Receipts(m)'
<1> DEFINE s == hist[m]
           b == Len(ch.acts[m])
           new(i) == Receipt(Len(journal) + 1, ch.by, ch.acts[m][i], ch.of)
           u == [i \in 1..b |-> new(i)]
           t == s \o u
           S == Receipts(m) \cup {new(i) : i \in 1..b}
<1>1. hist'[m] = t
  BY DEF Commit, Now
<1>2. s \in Seq(S)
  <2>1. s \in Seq(Receipts(m)) /\ \A x \in Receipts(m) : x \in S
    BY DEF Heard
  <2> DEFINE R == Receipts(m)
  <2> HIDE DEF S, s, R
  <2>2. s \in Seq(R) /\ \A x \in R : x \in S
    BY <2>1 DEF R
  <2> QED
    BY <2>2
<1>3. u \in Seq(S) /\ Len(u) = b /\ b \in Nat /\ \A i \in 1..b : u[i] = new(i)
  <2>1. b \in Nat /\ \A i \in 1..b : new(i) \in S
    OBVIOUS
  <2>2. u = [i \in 1..b |-> new(i)]
    OBVIOUS
  <2> HIDE DEF b, new, S, u
  <2>3. u \in [1..b -> S]
    BY <2>1, <2>2
  <2>4. u \in Seq(S) /\ Len(u) = b
    BY <2>1, <2>3
  <2> QED
    BY <2>1, <2>2, <2>4
<1>4. Receipts(m) = {s[i] : i \in 1..Len(s)} /\ Receipts(m)' = {t[i] : i \in 1..Len(t)}
  BY <1>1 DEF Receipts
<1>5. ActsOn(ch, m) = {ch.acts[m][i] : i \in 1..b}
  BY DEF ActsOn
<1> HIDE DEF S, s, u, b
<1>6. t \in Seq(S) /\ Len(t) = Len(s) + Len(u)
      /\ \A i \in 1..Len(s) + Len(u) : t[i] = IF i <= Len(s) THEN s[i] ELSE u[i - Len(s)]
  BY <1>2, <1>3, ConcatProperties, Zenon
<1> DEFINE a == Len(s)
<1>7. a \in Nat
  BY <1>2, LenProperties
<1>8. t \in Seq(S) /\ Len(t) = a + b /\ \A i \in 1..a + b : t[i] = IF i <= a THEN s[i] ELSE u[i - a]
  BY <1>3, <1>6
<1> HIDE DEF t, a
<1>9. \A i \in 1..a : i \in 1..Len(t) /\ t[i] = s[i]
  BY <1>3, <1>7, <1>8
<1>10. \A i \in 1..b : a + i \in 1..Len(t) /\ t[a + i] = u[i]
  <2> TAKE i \in 1..b
  <2>1. a + i \in 1..a + b /\ ~(a + i <= a) /\ (a + i) - a = i
    BY <1>3, <1>7
  <2> QED
    BY <1>8, <2>1
<1>11. \A r \in Receipts(m) : r \in Receipts(m)'
  BY <1>4, <1>9 DEF a
<1>12. \A i \in 1..b : new(i) \in Receipts(m)'
  BY <1>3, <1>4, <1>10
<1>13. t \in Seq({t[i] : i \in 1..Len(t)})
  <2> DEFINE z == Len(t)
             R == {t[i] : i \in 1..z}
  <2>1. z \in Nat /\ t \in [1..z -> S]
    BY <1>8, LenProperties
  <2>2. \A i \in 1..z : t[i] \in R
    OBVIOUS
  <2> HIDE DEF R, z
  <2>3. t \in [1..z -> R]
    BY <2>1, <2>2
  <2>4. t \in Seq(R)
    BY <2>1, <2>3
  <2> QED
    BY <2>4 DEF R, z
<1>14. \A x \in ActsOn(ch, m) : Receipt(Len(journal) + 1, ch.by, x, ch.of) \in Receipts(m)'
  BY <1>5, <1>12
<1> QED
  BY <1>1, <1>4, <1>11, <1>13, <1>14

\* A change that leaves no flag idle, and tells what it ends.
Means(ch) ==
    /\ ch.of = 0
    /\ \A m \in Memories : Len(ch.acts[m]) \in Nat
    /\ \A m \in Memories : InPlay(ch.mem[m]) /\ ch.mem[m].conflict => Left(ch, m) # {}
    /\ \A m \in Memories : Parted(ch, m) # {} => ch.undo # "none" /\ "resolved" \in ActsOn(ch, m)

LEMMA MeansLost ==
    ASSUME Recorded, Recorded', NoneLost, NEW ch, Minds(ch), Means(ch), Commit(ch)
    PROVE  NoneLost'
<1>1. Entered(ch) /\ ch.of \in 0..Len(journal) /\ Len(journal) \in Nat
  BY CommitEnters DEF Minds, Recorded
<1>2. NoneIdle /\ FlaggedThen /\ EndsSaid /\ Heard
  BY DEF NoneLost
<1>3. NoneIdle'
  <2> SUFFICES ASSUME NEW m \in Memories, InPlay(mem[m])', mem'[m].conflict PROVE Contradicts(m)' # {}
    BY DEF NoneIdle
  <2>1. Contradicts(m)' = Left(ch, m)
    BY <1>1, ContradictsAfter
  <2>2. mem' = ch.mem
    BY <1>1 DEF Entered
  <2>3. InPlay(ch.mem[m])
    BY <2>2 DEF InPlay
  <2> QED
    BY <2>1, <2>2, <2>3 DEF Means
<1>4. \A m \in Memories :
         /\ hist'[m] \in Seq(Receipts(m)')
         /\ \A r \in Receipts(m) : r \in Receipts(m)'
         /\ \A a \in ActsOn(ch, m) : Receipt(Len(journal) + 1, ch.by, a, ch.of) \in Receipts(m)'
  BY <1>2, HeardOn DEF Means
<1>5. Heard'
  BY <1>4 DEF Heard
<1>6. EndsSaid'
  <2> SUFFICES ASSUME NEW c \in 1..Len(journal'), Undoing(c)', NEW m \in Memories, Ended(c, m)' # {}
               PROVE  \E r \in Receipts(m)' : r.cmd = c /\ r.act = "resolved"
    BY DEF EndsSaid
  <2>1. CASE c \in 1..Len(journal)
    <3>1. Undoing(c) /\ Ended(c, m)' = Ended(c, m)
      BY <1>1, <2>1, EnteredKinds
    <3> QED
      BY <1>2, <1>4, <2>1, <3>1 DEF EndsSaid
  <2>2. CASE c \notin 1..Len(journal)
    <3>1. c = Len(journal) + 1 /\ Ended(c, m)' = Parted(ch, m)
      BY <1>1, <2>2, EnteredKinds
    <3>2. Receipt(c, ch.by, "resolved", ch.of) \in Receipts(m)'
      BY <1>4, <3>1 DEF Means
    <3> QED
      BY <3>2 DEF Receipt
  <2> QED
    BY <2>1, <2>2
<1>7. FlaggedThen'
  <2> SUFFICES ASSUME NEW c \in 1..Len(journal'), Stood(c)', NEW m \in journal'[c].touch,
                      InPlay(journal[c].before[m])', journal'[c].before[m].conflict
               PROVE  Contradicts(m)' # {} \/ \E k \in c..Len(journal') : Stood(k)' /\ Ended(k, m)' # {}
    BY DEF FlaggedThen
  <2>0. Undoing(c)'
    BY DEF Stood
  <2>1. m \in Memories
    BY DEF Recorded, Entry
  <2>2. ASSUME Contradicts(m) # {} PROVE Contradicts(m)' # {} \/ \E k \in c..Len(journal') : Stood(k)' /\ Ended(k, m)' # {}
    <3>1. PICK d \in Memories : d \in Contradicts(m)
      BY <2>2 DEF Contradicts
    <3>5. PICK n : n = Len(journal) + 1
      OBVIOUS
    <3>2. Contradicts(m)' = Left(ch, m)
      BY <1>1, <2>1, ContradictsAfter
    <3>3. CASE d \notin Parted(ch, m)
      BY <3>1, <3>2, <3>3 DEF Left
    <3>4. CASE d \in Parted(ch, m)
      <4>1. ch.undo # "none"
        BY <2>1, <3>4 DEF Means
      <4>2. n \in 1..Len(journal') /\ n \in c..Len(journal')
        BY <1>1, <3>5 DEF Entered
      <4>3. journal'[n].kind = ch.undo /\ n \notin 1..Len(journal)
        BY <1>1, <3>5 DEF Entered
      <4>4. Undoing(n)'
        BY <4>1, <4>2, <4>3 DEF Undoing
      <4>5. Stood(n)' /\ Ended(n, m)' = Parted(ch, m)
        BY <1>1, <4>2, <4>3, <4>4, EnteredKinds
      <4> QED
        BY <3>4, <4>2, <4>5
    <3> QED
      BY <3>3, <3>4
  <2>3. CASE c \in 1..Len(journal)
    <3>1. Stood(c) /\ journal'[c] = journal[c]
      BY <1>1, <2>0, <2>3, EnteredKinds
    <3>2. InPlay(journal[c].before[m]) /\ journal[c].before[m].conflict /\ m \in journal[c].touch
      BY <3>1 DEF InPlay
    <3>3. Contradicts(m) # {} \/ \E k \in c..Len(journal) : Stood(k) /\ Ended(k, m) # {}
      BY <1>2, <2>3, <3>1, <3>2 DEF FlaggedThen
    <3>4. ASSUME NEW k \in c..Len(journal), Stood(k), Ended(k, m) # {}
          PROVE  \E j \in c..Len(journal') : Stood(j)' /\ Ended(j, m)' # {}
      <4>1. k \in 1..Len(journal) /\ k \in 1..Len(journal') /\ k \in c..Len(journal')
        BY <1>1, <2>3 DEF Entered
      <4>2. journal'[k] = journal[k]
        BY <1>1, <4>1 DEF Entered
      <4>3. Stood(k)' /\ Ended(k, m)' = Ended(k, m)
        BY <3>4, <4>1, <4>2 DEF Stood, Undoing, Ended, Triple
      <4> QED
        BY <3>4, <4>1, <4>3
    <3> QED
      BY <2>2, <3>3, <3>4
  <2>4. CASE c \notin 1..Len(journal)
    <3>1. c = Len(journal) + 1 /\ ch.undo # "none"
      BY <1>1, <2>0, <2>4, EnteredKinds
    <3>2. journal'[c].touch = ch.touch /\ \A k \in ch.touch : journal'[c].before[k] = ch.before[k]
      BY <1>1, <3>1 DEF Entered
    <3>3. m \in ch.touch /\ InPlay(ch.before[m]) /\ ch.before[m].conflict
      BY <3>2 DEF InPlay
    <3>4. InPlay(mem[m]) /\ mem[m].conflict
      BY <3>1, <3>3 DEF Minds
    <3>5. Contradicts(m) # {}
      BY <1>2, <2>1, <3>4 DEF NoneIdle
    <3> QED
      BY <2>2, <3>5
  <2> QED
    BY <2>3, <2>4
<1> QED
  BY <1>3, <1>5, <1>6, <1>7 DEF NoneLost

----------------------------------------------------------------------------
\* What an Undo does to the conflicts: it brings back those the command ended

Agrees(a, b) == a.kind = b.kind /\ a.touch = b.touch /\ a.made = b.made /\ a.ended = b.ended /\ a.before = b.before

Restored(c) ==
    /\ Len(journal) \in Nat /\ Len(journal') = Len(journal) + 1
    /\ \A d \in 1..Len(journal) : Agrees(journal'[d], journal[d])
    /\ \A d \in 1..Len(journal) : journal'[d].undone <=> journal[d].undone \/ d = c
    /\ journal'[Len(journal) + 1].kind = "none"
    /\ \A m \in Memories : mem'[m] = IF m \in journal[c].touch THEN journal[c].before[m] ELSE mem[m]
    /\ \A m \in Memories : Contradicts(m)' = Contradicts(m) \cup Ended(c, m)
    /\ \A l \in links' : l \in links \/ l.cmd = Len(journal) + 1

LEMMA UndoRestored ==
    ASSUME Recorded, Recorded', EndsTouched, NEW c \in 1..Len(journal), Undoable(c), NEW ch, Restoring(ch, c), Commit(ch)
    PROVE  Restored(c)
<1>1. /\ ch.of = c /\ c \in 0..Len(journal) /\ Len(journal) \in Nat /\ ch.undo = "none"
      /\ ch.make = journal[c].ended /\ ch.end = journal[c].made
      /\ ch.mem = [m \in Memories |-> IF m \in journal[c].touch THEN journal[c].before[m] ELSE mem[m]]
  BY DEF Restoring, Recorded
<1>2. /\ Len(journal') = Len(journal) + 1
      /\ journal'[Len(journal) + 1] =
             [kind |-> ch.undo, touch |-> ch.touch, undone |-> FALSE, made |-> ch.make \ Active, ended |-> ch.end,
              before |-> [m \in ch.touch |-> ch.before[m]], after |-> [m \in ch.touch |-> ch.mem[m]]]
  BY <1>1, Journalled
<1>3. journal'[Len(journal) + 1].kind = "none"
  BY <1>1, <1>2
<1>4. ASSUME NEW d \in 1..Len(journal)
      PROVE  Agrees(journal'[d], journal[d]) /\ (journal'[d].undone <=> journal[d].undone \/ d = c)
  <2>1. /\ journal'[d].kind = journal[d].kind /\ journal'[d].touch = journal[d].touch
        /\ journal'[d].made = journal[d].made /\ journal'[d].ended = journal[d].ended
        /\ journal'[d].before = journal[d].before
        /\ journal'[d].undone = (journal[d].undone \/ d = ch.of)
    BY <1>1, Marked
  <2> QED
    BY <1>1, <2>1 DEF Agrees
<1>5. ASSUME NEW m \in Memories PROVE mem'[m] = IF m \in journal[c].touch THEN journal[c].before[m] ELSE mem[m]
  <2>1. mem' = ch.mem
    BY DEF Commit
  <2> QED
    BY <1>1, <2>1
<1>6. ASSUME NEW m \in Memories PROVE Contradicts(m)' = Contradicts(m) \cup Ended(c, m)
  <2>1. Contradicts(m)' = Left(ch, m)
    BY <1>1, ContradictsAfter
  <2>2. Undoing(c)
    BY DEF Undoable, Undoing
  <2>3. \A t \in journal[c].made : t.kind # "conflicts_with"
    BY <2>2 DEF EndsTouched
  <2>4. Parted(ch, m) = {}
    BY <1>1, <2>3 DEF Parted, Triple
  <2>5. \A d \in Memories : d \in Ended(c, m) <=> Triple("conflicts_with", m, d) \in ch.make
    BY <1>1 DEF Ended
  <2>6. Contradicts(m) \subseteq Memories /\ Ended(c, m) \subseteq Memories
    BY DEF Contradicts, Ended
  <2> QED
    BY <2>1, <2>4, <2>5, <2>6 DEF Left
<1>7. \A l \in links' : l \in links \/ l.cmd = Len(journal) + 1
  BY NewLinks
<1> QED
  BY <1>1, <1>2, <1>3, <1>4, <1>5, <1>6, <1>7 DEF Restored

LEMMA RestoredKinds ==
    ASSUME NEW c \in 1..Len(journal), Restored(c), NEW d \in 1..Len(journal'), Undoing(d)'
    PROVE  /\ d \in 1..Len(journal) /\ Undoing(d) /\ Agrees(journal'[d], journal[d])
           /\ \A m : Ended(d, m)' = Ended(d, m)
           /\ Stood(d)' => d # c /\ Stood(d)
<1>1. Len(journal) \in Nat /\ Len(journal') = Len(journal) + 1 /\ journal'[Len(journal) + 1].kind = "none"
  BY DEF Restored
<1>2. d # Len(journal) + 1
  BY <1>1 DEF Undoing
<1>3. d \in 1..Len(journal)
  BY <1>1, <1>2
<1>4. Agrees(journal'[d], journal[d]) /\ (journal'[d].undone <=> journal[d].undone \/ d = c)
  BY <1>3 DEF Restored
<1>5. journal'[d].kind = journal[d].kind /\ journal'[d].ended = journal[d].ended
  BY <1>4 DEF Agrees
<1>6. \A m : Ended(d, m)' = Ended(d, m)
  BY <1>5 DEF Ended, Triple
<1> QED
  BY <1>3, <1>4, <1>5, <1>6 DEF Undoing, Stood

\* What was unflagged when an undoable command wrote it down has no conflict
\* the Undo would leave it with.
LEMMA NoLaterConflict ==
    ASSUME Recorded, UnmarkedThen, NEW c \in 1..Len(journal), Undoable(c), NEW m \in journal[c].touch,
           InPlay(journal[c].before[m]), ~journal[c].before[m].conflict
    PROVE  Contradicts(m) = {} /\ Ended(c, m) = {}
<1>1. Stood(c)
  BY DEF Undoable, Undoing, Stood
<1>2. /\ Ended(c, m) = {}
      /\ \A l \in links : l.kind = "conflicts_with" /\ l.from = m => l.cmd > c
  BY <1>1 DEF UnmarkedThen
<1>3. ASSUME NEW d \in Contradicts(m) PROVE FALSE
  <2>1. PICK l \in links : Of(l) = Triple("conflicts_with", m, d)
    BY DEF Contradicts, Active
  <2>2. l.kind = "conflicts_with" /\ l.from = m
    BY <2>1 DEF Of, Triple
  <2>3. l.cmd > c /\ Touches(l, journal[c].touch)
    BY <1>2, <2>2 DEF Touches
  <2> QED
    BY <2>3 DEF Undoable, LaterLink
<1> QED
  BY <1>2, <1>3

LEMMA UndoMissed ==
    ASSUME Recorded, NoneMissed, NEW c \in 1..Len(journal), Undoable(c), Restored(c)
    PROVE  NoneMissed'
<1>1. NoneUnmarked /\ UnmarkedThen /\ EndsTouched
  BY DEF NoneMissed
<1>2. Undoing(c)
  BY DEF Undoable, Undoing
<1>3. NoneUnmarked'
  <2> SUFFICES ASSUME NEW m \in Memories, InPlay(mem[m])', Contradicts(m)' # {} PROVE mem'[m].conflict
    BY DEF NoneUnmarked
  <2>1. Contradicts(m)' = Contradicts(m) \cup Ended(c, m)
    BY DEF Restored
  <2>2. CASE m \in journal[c].touch
    <3>1. mem'[m] = journal[c].before[m]
      BY <2>2 DEF Restored
    <3>2. InPlay(journal[c].before[m])
      BY <3>1 DEF InPlay
    <3> QED
      BY <1>1, <2>1, <2>2, <3>1, <3>2, NoLaterConflict
  <2>3. CASE m \notin journal[c].touch
    <3>1. mem'[m] = mem[m] /\ Ended(c, m) = {}
      BY <1>1, <1>2, <2>3 DEF Restored, EndsTouched
    <3>2. InPlay(mem[m])
      BY <3>1 DEF InPlay
    <3> QED
      BY <1>1, <2>1, <3>1, <3>2 DEF NoneUnmarked
  <2> QED
    BY <2>2, <2>3
<1>4. EndsTouched'
  <2> SUFFICES ASSUME NEW d \in 1..Len(journal'), Undoing(d)'
               PROVE  /\ \A t \in journal'[d].made : t.kind # "conflicts_with"
                      /\ \A m \in Memories : Ended(d, m)' # {} => m \in journal'[d].touch
    BY DEF EndsTouched
  <2>1. d \in 1..Len(journal) /\ Undoing(d) /\ Agrees(journal'[d], journal[d]) /\ \A m : Ended(d, m)' = Ended(d, m)
    BY RestoredKinds
  <2>2. journal'[d].made = journal[d].made /\ journal'[d].touch = journal[d].touch
    BY <2>1 DEF Agrees
  <2> QED
    BY <1>1, <2>1, <2>2 DEF EndsTouched
<1>5. UnmarkedThen'
  <2> SUFFICES ASSUME NEW d \in 1..Len(journal'), Stood(d)', NEW m \in journal'[d].touch,
                      InPlay(journal[d].before[m])', ~journal'[d].before[m].conflict
               PROVE  /\ Ended(d, m)' = {}
                      /\ \A l \in links' : l.kind = "conflicts_with" /\ l.from = m => l.cmd > d
    BY DEF UnmarkedThen
  <2>0. Undoing(d)'
    BY DEF Stood
  <2>1. /\ d \in 1..Len(journal) /\ Stood(d) /\ Agrees(journal'[d], journal[d]) /\ Ended(d, m)' = Ended(d, m)
    BY <2>0, RestoredKinds
  <2>2. journal'[d].before = journal[d].before /\ journal'[d].touch = journal[d].touch
    BY <2>1 DEF Agrees
  <2>3. m \in journal[d].touch /\ InPlay(journal[d].before[m]) /\ ~journal[d].before[m].conflict
    BY <2>2 DEF InPlay
  <2>4. Ended(d, m) = {} /\ \A l \in links : l.kind = "conflicts_with" /\ l.from = m => l.cmd > d
    BY <1>1, <2>1, <2>3 DEF UnmarkedThen
  <2>5. ASSUME NEW l \in links', l.kind = "conflicts_with", l.from = m PROVE l.cmd > d
    BY <2>1, <2>4, <2>5 DEF Restored
  <2> QED
    BY <2>1, <2>4, <2>5
<1> QED
  BY <1>3, <1>4, <1>5 DEF NoneMissed

\* An undoable command that ended a memory's conflicts, or that a command
\* since did not: what it flagged before has a conflict after the Undo.
LEMMA FlagsComeBack ==
    ASSUME Recorded, FlaggedThen, EndsSaid, NEW c \in 1..Len(journal), Undoable(c), NEW m \in journal[c].touch,
           InPlay(journal[c].before[m]), journal[c].before[m].conflict
    PROVE  Contradicts(m) \cup Ended(c, m) # {}
<1>1. Stood(c) /\ m \in Memories /\ ~LaterChange(c, m)
  BY UndoableFacts
<1>2. Contradicts(m) # {} \/ \E k \in c..Len(journal) : Stood(k) /\ Ended(k, m) # {}
  BY <1>1 DEF FlaggedThen
<1>3. ASSUME NEW k \in c..Len(journal), Stood(k), Ended(k, m) # {}, k # c PROVE FALSE
  <2>1. Undoing(k) /\ ~journal[k].undone /\ k \in 1..Len(journal)
    BY <1>3 DEF Stood, Undoing
  <2>2. PICK r \in Receipts(m) : r.cmd = k /\ r.act = "resolved"
    BY <1>1, <1>3, <2>1 DEF EndsSaid
  <2>3. r.cmd > c
    BY <1>3, <2>2
  <2> QED
    BY <1>1, <2>1, <2>2, <2>3 DEF LaterChange
<1> QED
  BY <1>2, <1>3

LEMMA UndoLost ==
    ASSUME Recorded, NoneMissed, NoneLost, NEW c \in 1..Len(journal), Undoable(c), Restored(c),
           NEW ch, Restoring(ch, c), Commit(ch)
    PROVE  NoneLost'
<1>1. EndsTouched /\ NoneIdle /\ FlaggedThen /\ EndsSaid /\ Heard
  BY DEF NoneMissed, NoneLost
<1>2. Undoing(c)
  BY DEF Undoable, Undoing
<1>3. NoneIdle'
  <2> SUFFICES ASSUME NEW m \in Memories, InPlay(mem[m])', mem'[m].conflict PROVE Contradicts(m)' # {}
    BY DEF NoneIdle
  <2>1. Contradicts(m)' = Contradicts(m) \cup Ended(c, m)
    BY DEF Restored
  <2>2. CASE m \in journal[c].touch
    <3>1. mem'[m] = journal[c].before[m]
      BY <2>2 DEF Restored
    <3>2. InPlay(journal[c].before[m]) /\ journal[c].before[m].conflict
      BY <3>1 DEF InPlay
    <3> QED
      BY <1>1, <2>1, <2>2, <3>2, FlagsComeBack
  <2>3. CASE m \notin journal[c].touch
    <3>1. mem'[m] = mem[m]
      BY <2>3 DEF Restored
    <3>2. InPlay(mem[m]) /\ mem[m].conflict
      BY <3>1 DEF InPlay
    <3> QED
      BY <1>1, <2>1, <3>2 DEF NoneIdle
  <2> QED
    BY <2>2, <2>3
<1>4. ASSUME NEW m \in Memories
      PROVE  hist'[m] \in Seq(Receipts(m)') /\ \A r \in Receipts(m) : r \in Receipts(m)'
  <2>1. ch.acts = With([k \in Memories |-> <<>>], journal[c].touch, <<"undid">>)
    BY DEF Restoring
  <2> DEFINE as == <<"undid">>
             D == {"undid"}
             no == [k \in Memories |-> <<>>]
             ms == journal[c].touch
             w == With(no, ms, as)
  <2>2. as \in Seq(D) /\ <<>> \in Seq(D)
    OBVIOUS
  <2>3. w[m] = IF m \in ms THEN no[m] \o as ELSE no[m]
    BY DEF With
  <2>4. no[m] = <<>> /\ w[m] = ch.acts[m]
    BY <2>1
  <2> HIDE DEF as, D, no, ms, w
  <2>5. no[m] \in Seq(D)
    BY <2>2, <2>4
  <2>6. w[m] \in Seq(D)
    BY <2>2, <2>3, <2>5, ConcatKeeps
  <2>7. Len(ch.acts[m]) \in Nat
    BY <2>4, <2>6, LenProperties
  <2> QED
    BY <1>1, <2>7, HeardOn
<1>5. Heard'
  BY <1>4 DEF Heard
<1>6. EndsSaid'
  <2> SUFFICES ASSUME NEW d \in 1..Len(journal'), Undoing(d)', NEW m \in Memories, Ended(d, m)' # {}
               PROVE  \E r \in Receipts(m)' : r.cmd = d /\ r.act = "resolved"
    BY DEF EndsSaid
  <2>1. d \in 1..Len(journal) /\ Undoing(d) /\ Ended(d, m)' = Ended(d, m)
    BY RestoredKinds
  <2> QED
    BY <1>1, <1>4, <2>1 DEF EndsSaid
<1>7. FlaggedThen'
  <2> SUFFICES ASSUME NEW d \in 1..Len(journal'), Stood(d)', NEW m \in journal'[d].touch,
                      InPlay(journal[d].before[m])', journal'[d].before[m].conflict
               PROVE  Contradicts(m)' # {} \/ \E k \in d..Len(journal') : Stood(k)' /\ Ended(k, m)' # {}
    BY DEF FlaggedThen
  <2>0. Undoing(d)'
    BY DEF Stood
  <2>1. d \in 1..Len(journal) /\ Stood(d) /\ Agrees(journal'[d], journal[d])
    BY <2>0, RestoredKinds
  <2>2. journal'[d].before = journal[d].before /\ journal'[d].touch = journal[d].touch
    BY <2>1 DEF Agrees
  <2>3. m \in journal[d].touch /\ InPlay(journal[d].before[m]) /\ journal[d].before[m].conflict
    BY <2>2 DEF InPlay
  <2>4. m \in Memories
    BY <2>1, <2>3 DEF Recorded, Entry
  <2>5. Contradicts(m)' = Contradicts(m) \cup Ended(c, m)
    BY <2>4 DEF Restored
  <2>6. Contradicts(m) # {} \/ \E k \in d..Len(journal) : Stood(k) /\ Ended(k, m) # {}
    BY <1>1, <2>1, <2>3 DEF FlaggedThen
  <2>7. ASSUME NEW k \in d..Len(journal), Stood(k), Ended(k, m) # {}, k # c
        PROVE  \E j \in d..Len(journal') : Stood(j)' /\ Ended(j, m)' # {}
    <3>1. k \in 1..Len(journal) /\ k \in d..Len(journal') /\ k \in 1..Len(journal')
      BY <2>1, <2>7 DEF Restored
    <3>2. Agrees(journal'[k], journal[k]) /\ (journal'[k].undone <=> journal[k].undone \/ k = c)
      BY <3>1 DEF Restored
    <3>3. journal'[k].kind = journal[k].kind
      BY <3>2 DEF Agrees
    <3>4. Undoing(k)' /\ Stood(k)'
      BY <2>7, <3>1, <3>2, <3>3 DEF Stood, Undoing
    <3>5. Ended(k, m)' = Ended(k, m)
      BY <3>1, <3>4, RestoredKinds
    <3> QED
      BY <2>7, <3>1, <3>4, <3>5
  <2> QED
    BY <2>5, <2>6, <2>7
<1> QED
  BY <1>3, <1>5, <1>6, <1>7 DEF NoneLost

----------------------------------------------------------------------------
\* Every other command minds the conflicts, and means its flags

LEMMA MadeTriples ==
    ASSUME Recorded, Recorded', NEW ch, Commit(ch), ch.of \in 0..Len(journal), NEW t \in ch.make
    PROVE  t.to \in Memories /\ t = Triple(t.kind, t.from, t.to)
<1>1. CASE t \in Active
  BY <1>1, LinkThere DEF Active, Of, Triple
<1>2. CASE t \notin Active
  <2> DEFINE n == Len(journal) + 1
  <2>1. /\ Len(journal') = n /\ journal'[n].made = ch.make \ Active /\ Len(journal) \in Nat
    <3>1. /\ Len(journal') = Len(journal) + 1
          /\ journal'[Len(journal) + 1] =
                 [kind |-> ch.undo, touch |-> ch.touch, undone |-> FALSE, made |-> ch.make \ Active, ended |-> ch.end,
                  before |-> [k \in ch.touch |-> ch.before[k]], after |-> [k \in ch.touch |-> ch.mem[k]]]
      BY Journalled
    <3> QED
      BY <3>1 DEF Recorded
  <2>2. n \in 1..Len(journal')
    BY <2>1
  <2>3. Entry(top', journal'[n])
    BY <2>2 DEF Recorded
  <2>4. t \in Triples
    BY <1>2, <2>1, <2>3 DEF Entry, Linkable
  <2> QED
    BY <2>4 DEF Triples, Triple
<1> QED
  BY <1>1, <1>2

\* What has a conflict of its own is a memory there is.
LEMMA ConflictThere ==
    ASSUME Recorded, NEW m \in Memories
    PROVE  /\ Contradicts(m) # {} => mem[m].life # "none"
           /\ mem[m].conflict => InPlay(mem[m])
<1>1. ASSUME NEW d \in Contradicts(m) PROVE top[m] # 0
  <2>1. PICK l \in links : Of(l) = Triple("conflicts_with", m, d)
    BY DEF Contradicts, Active
  <2>2. Linkable(top, Triple("conflicts_with", m, d))
    BY <2>1 DEF Recorded
  <2> QED
    BY <2>2 DEF Linkable, Triple
<1>2. Fits(mem[m], top[m])
  BY DEF Recorded, Rowed
<1> QED
  BY <1>1, <1>2 DEF Fits, InPlay

LEMMA MarkingMinds ==
    ASSUME Recorded, NoneUnmarked, NEW ch, NEW ms, Ready(ch, ms), Marking(ch, ms)
    PROVE  Minds(ch)
<1>1. Plain(ch, ms) /\ Rightful(ch, ms) /\ \A m \in ms : Moved(ch, m)
  BY DEF Ready
<1>2. \A m \in Memories : Parted(ch, m) = {}
  BY DEF Marking, Parted
<1>3. ASSUME NEW m \in Memories, InPlay(ch.mem[m]), Left(ch, m) # {} PROVE ch.mem[m].conflict
  <2>1. PICK d \in Memories : d \in Contradicts(m) \/ Triple("conflicts_with", m, d) \in ch.make
    BY <1>3 DEF Left
  <2>2. CASE Triple("conflicts_with", m, d) \in ch.make
    BY <2>2 DEF Marking, Triple
  <2>3. CASE d \in Contradicts(m) /\ m \notin ms
    <3>1. ch.mem[m] = mem[m]
      BY <1>1, <2>3 DEF Plain
    <3> QED
      BY <1>3, <2>3, <3>1 DEF NoneUnmarked
  <2>4. CASE d \in Contradicts(m) /\ m \in ms
    <3>1. mem[m].life # "none" /\ Moved(ch, m) /\ FlagMeant(ch, m)
      BY <1>1, <2>4, ConflictThere DEF Marking
    <3>2. InPlay(mem[m])
      BY <1>3, <3>1 DEF Moved, InPlay
    <3>3. mem[m].conflict
      BY <2>4, <3>2 DEF NoneUnmarked
    <3>4. CASE \E t \in ch.make : t.kind = "conflicts_with" /\ t.from = m
      BY <3>4 DEF Marking
    <3>5. CASE ch.mem[m].conflict = mem[m].conflict
      BY <3>3, <3>5
    <3> QED
      BY <1>3, <3>1, <3>4, <3>5 DEF FlagMeant, InPlay
  <2> QED
    BY <2>1, <2>2, <2>3, <2>4
<1>4. ASSUME ch.undo # "none"
      PROVE  /\ \A t \in ch.make : t.kind # "conflicts_with"
             /\ \A m \in ch.touch : m \in Memories /\ (InPlay(ch.before[m]) => ch.before[m] = mem[m])
  BY <1>1, <1>4 DEF Marking, Plain, InPlay
<1> QED
  BY <1>1, <1>2, <1>3, <1>4 DEF Minds, Plain

LEMMA MarkingMeans ==
    ASSUME Recorded, Recorded', NoneIdle, NEW ch, NEW ms, Ready(ch, ms), Marking(ch, ms), Commit(ch)
    PROVE  Means(ch)
<1>1. Plain(ch, ms) /\ Rightful(ch, ms) /\ \A m \in ms : Moved(ch, m)
  BY DEF Ready
<1>2. \A m \in Memories : Parted(ch, m) = {}
  BY DEF Marking, Parted
<1>3. ASSUME NEW m \in Memories PROVE Len(ch.acts[m]) \in Nat
  <2>1. ch.acts[m] \in Seq(Deeds \cup Notes)
    BY <1>1, PlainActs
  <2> QED
    BY <2>1, LenProperties
<1>4. ASSUME NEW m \in Memories, InPlay(ch.mem[m]), ch.mem[m].conflict PROVE Left(ch, m) # {}
  <2>1. ASSUME NEW d \in Contradicts(m) PROVE d \in Left(ch, m)
    BY <1>2 DEF Left, Contradicts
  <2>2. CASE mem[m].conflict
    <3>1. InPlay(mem[m])
      BY <2>2, ConflictThere
    <3> QED
      BY <2>1, <2>2, <3>1 DEF NoneIdle
  <2>3. CASE ~mem[m].conflict
    <3>1. m \in ms
      BY <1>1, <1>4, <2>3 DEF Plain
    <3>2. FlagMeant(ch, m)
      BY <3>1 DEF Marking
    <3>3. PICK t \in ch.make : t.kind = "conflicts_with" /\ t.from = m
      BY <1>4, <2>3, <3>2 DEF FlagMeant, InPlay
    <3>4. ch.of \in 0..Len(journal)
      BY <1>1 DEF Plain, Recorded
    <3>5. t.to \in Memories /\ t = Triple("conflicts_with", m, t.to)
      BY <3>3, <3>4, MadeTriples
    <3>6. CASE t.to \in Contradicts(m)
      BY <2>1, <3>6
    <3>7. CASE t.to \notin Contradicts(m)
      BY <3>5, <3>7 DEF Left
    <3> QED
      BY <3>6, <3>7
  <2> QED
    BY <2>2, <2>3
<1> QED
  BY <1>1, <1>2, <1>3, <1>4 DEF Means, Plain

LEMMA ForgettingMinds ==
    ASSUME Recorded, NoneUnmarked, NEW ch, NEW gone, NEW freed, Forgetting(ch, gone, freed)
    PROVE  Minds(ch)
<1>1. Plain(ch, gone \cup freed) /\ ch.make = {} /\ ch.undo = "none"
  BY DEF Forgetting
<1>2. ASSUME NEW m \in Memories, InPlay(ch.mem[m]), Left(ch, m) # {} PROVE ch.mem[m].conflict
  <2>1. PICK d \in Memories : d \in Contradicts(m) /\ d \notin Parted(ch, m)
    BY <1>1, <1>2 DEF Left
  <2>2. m \notin gone
    BY <1>2 DEF Forgetting, InPlay
  <2>3. CASE m \in freed
    <3>1. d \in gone
      BY <2>1, <2>3 DEF Forgetting, Partners
    <3>2. Triple("conflicts_with", m, d) \in Active /\ Touches(Triple("conflicts_with", m, d), gone)
      BY <2>1, <3>1 DEF Contradicts, Touches, Triple
    <3>3. Triple("conflicts_with", m, d) \in ch.end
      BY <3>2 DEF Forgetting, Triple
    <3> QED
      BY <2>1, <3>3 DEF Parted
  <2>4. CASE m \notin freed
    <3>1. ch.mem[m] = mem[m]
      BY <1>1, <2>2, <2>4 DEF Plain
    <3> QED
      BY <1>2, <2>1, <3>1 DEF NoneUnmarked
  <2> QED
    BY <2>3, <2>4
<1> QED
  BY <1>1, <1>2 DEF Minds, Plain

LEMMA SettlesParted ==
    ASSUME NEW f, NEW ch, Settles(ch, f), NEW m \in Memories
    PROVE  /\ Parted(ch, m) = IF m = f THEN Contradicts(f) ELSE {}
           /\ Left(ch, m) = IF m = f THEN {} ELSE Contradicts(m)
<1>1. Contradicts(m) \subseteq Memories /\ Contradicts(f) \subseteq Memories
  BY DEF Contradicts
<1>2. \A d : Triple("conflicts_with", m, d) \in ch.end <=> m = f /\ d \in Contradicts(f)
  BY DEF Settles, Triple
<1>3. \A d : Triple("conflicts_with", m, d) \notin ch.make
  BY DEF Settles, Triple
<1>4. Parted(ch, m) = IF m = f THEN Contradicts(f) ELSE {}
  BY <1>1, <1>2 DEF Parted
<1> QED
  BY <1>1, <1>3, <1>4 DEF Left

LEMMA SettlesMinds ==
    ASSUME NoneUnmarked, NEW f, NEW ch, Settles(ch, f)
    PROVE  Minds(ch)
<1>1. Steady(ch) /\ f \in Memories /\ mem[f].conflict /\ f \in ch.touch
      /\ \A t \in ch.make : t.kind = "supersedes"
  BY DEF Settles
<1>2. ASSUME NEW m \in Memories, InPlay(ch.mem[m]), Left(ch, m) # {} PROVE ch.mem[m].conflict
  <2>1. m # f /\ Contradicts(m) # {}
    BY <1>2, SettlesParted
  <2>2. InPlay(mem[m]) /\ (ch.mem[m].conflict <=> m # f /\ mem[m].conflict)
    BY <1>2 DEF Settles, Calms
  <2> QED
    BY <2>1, <2>2 DEF NoneUnmarked
<1>3. \A m \in Memories : Parted(ch, m) # {} => m \in ch.touch /\ mem[m].conflict
  BY <1>1, SettlesParted
<1>4. \A m \in ch.touch : m \in Memories /\ ch.before[m] = mem[m]
  BY <1>1 DEF Steady
<1> QED
  BY <1>1, <1>2, <1>3, <1>4 DEF Minds, Steady

LEMMA SettlesMeans ==
    ASSUME NoneIdle, NEW f, NEW ch, Settles(ch, f)
    PROVE  Means(ch)
<1>1. Steady(ch) /\ ch.undo = "resolve" /\ Spoken(ch.acts)
  BY DEF Settles, Says
<1>2. ASSUME NEW m \in Memories, InPlay(ch.mem[m]), ch.mem[m].conflict PROVE Left(ch, m) # {}
  <2>1. InPlay(mem[m]) /\ m # f /\ mem[m].conflict
    BY <1>2 DEF Settles, Calms
  <2> QED
    BY <2>1, SettlesParted DEF NoneIdle
<1>3. ASSUME NEW m \in Memories, Parted(ch, m) # {} PROVE "resolved" \in ActsOn(ch, m)
  <2>1. m = f
    BY <1>3, SettlesParted
  <2> QED
    BY <2>1 DEF Settles, Says, ActsOn
<1>4. ASSUME NEW m \in Memories PROVE Len(ch.acts[m]) \in Nat
  BY <1>1, LenProperties DEF Spoken
<1> QED
  BY <1>1, <1>2, <1>3, <1>4 DEF Means, Steady

LEMMA HoldingRows ==
    ASSUME Recorded, NEW ch, NEW saved, NEW new, Holding(ch, saved, new), NEW m \in Memories
    PROVE  /\ ch.mem[m].life = mem[m].life /\ ch.mem[m].conflict = mem[m].conflict
           /\ Parted(ch, m) = {} /\ Left(ch, m) = Contradicts(m)
<1> DEFINE r == mem[m]
           v == top[m] + 1
           row == [r EXCEPT !.version = v]
<1>1. ch.mem[m] = row \/ ch.mem[m] = r
  BY DEF Holding, Reworded
<1>2. r \in AnyRow
  BY DEF Recorded, Rowed, Fits
<1> HIDE DEF r, v
<1>3. row = [life |-> r.life, conflict |-> r.conflict, version |-> v, status |-> r.status]
  BY <1>2, RowSet
<1>4. row.life = r.life /\ row.conflict = r.conflict
  BY <1>3
<1> HIDE DEF row
<1>5. ch.make = {} /\ ch.end = {}
  BY DEF Holding
<1>6. Parted(ch, m) = {}
  BY <1>5 DEF Parted
<1>7. Left(ch, m) = Contradicts(m)
  BY <1>5, <1>6 DEF Left, Contradicts
<1> QED
  BY <1>1, <1>4, <1>6, <1>7 DEF r

LEMMA HoldingMinds ==
    ASSUME Recorded, NoneUnmarked, NEW ch, NEW saved, NEW new, Holding(ch, saved, new)
    PROVE  Minds(ch)
<1>1. ch.of = 0 /\ ch.undo = "none"
  BY DEF Holding
<1> QED
  BY <1>1, HoldingRows DEF Minds, NoneUnmarked, InPlay

LEMMA HoldingMeans ==
    ASSUME Recorded, NoneIdle, NEW ch, NEW saved, NEW new, Holding(ch, saved, new)
    PROVE  Means(ch)
<1> DEFINE no == [m \in Memories |-> <<>>]
           mid == With(no, saved \ new, <<"edited">>)
           ac == With(mid, new, <<"drafted">>)
<1>1. ch.of = 0 /\ ch.acts = ac
  BY DEF Holding
<1>2. Spoken(no)
  BY OneWord DEF Spoken
<1> HIDE DEF no
<1>3. Spoken(mid)
  BY <1>2, OneWord, WithSpoken
<1> HIDE DEF mid
<1>4. Spoken(ac)
  BY <1>3, OneWord, WithSpoken
<1>5. \A m \in Memories : Len(ch.acts[m]) \in Nat
  BY <1>1, <1>4, LenProperties DEF Spoken
<1>6. \A m \in Memories : InPlay(ch.mem[m]) /\ ch.mem[m].conflict => Left(ch, m) # {}
  BY HoldingRows DEF NoneIdle, InPlay
<1>7. \A m \in Memories : Parted(ch, m) = {}
  BY HoldingRows
<1> QED
  BY <1>1, <1>5, <1>6, <1>7 DEF Means

----------------------------------------------------------------------------
\* What follows

LEMMA QuietFlags ==
    ASSUME Quiet
    PROVE  (NoneMissed => NoneMissed') /\ (NoneLost => NoneLost')
<1>1. UNCHANGED <<mem, hist, links, journal>>
  BY DEF Quiet
<1>2. /\ \A m : Contradicts(m)' = Contradicts(m) /\ Receipts(m)' = Receipts(m)
      /\ \A c : (Undoing(c)' <=> Undoing(c)) /\ (Stood(c)' <=> Stood(c))
      /\ \A c, m : Ended(c, m)' = Ended(c, m)
  BY <1>1 DEF Contradicts, Active, Receipts, Undoing, Stood, Ended
<1>3. NoneMissed => NoneMissed'
  BY <1>1, <1>2 DEF NoneMissed, NoneUnmarked, UnmarkedThen, EndsTouched, InPlay
<1>4. (NoneIdle => NoneIdle') /\ (EndsSaid => EndsSaid') /\ (Heard => Heard')
  BY <1>1, <1>2 DEF NoneIdle, EndsSaid, Heard, InPlay
<1>5. FlaggedThen => FlaggedThen'
  BY <1>1, <1>2 DEF FlaggedThen, InPlay
<1> QED
  BY <1>3, <1>4, <1>5 DEF NoneLost

LEMMA InitFlags == Init => NoneMissed /\ NoneLost
<1> SUFFICES ASSUME Init PROVE NoneMissed /\ NoneLost
  OBVIOUS
<1>1. ASSUME NEW m \in Memories PROVE ~mem[m].conflict
  <2>1. CASE m \in Standing
    BY <2>1 DEF Init, Row
  <2>2. CASE m \notin Standing
    <3> DEFINE no == FALSE
    <3>1. mem[m] = [[life |-> "none", conflict |-> no, version |-> 1, status |-> "in_force"] EXCEPT !.version = 0]
      BY <2>2 DEF Init, Row
    <3> HIDE DEF no
    <3>2. mem[m].conflict = no
      BY <3>1
    <3> QED
      BY <3>2 DEF no
  <2> QED
    BY <2>1, <2>2
<1>2. 1..Len(journal) = {}
  <2>1. journal = <<>>
    BY DEF Init
  <2>2. Len(journal) = 0
    BY <2>1
  <2> QED
    BY <2>2
<1>3. \A m \in Memories : Contradicts(m) = {}
  BY DEF Init, Contradicts, Active
<1>4. ASSUME NEW m \in Memories PROVE hist[m] \in Seq(Receipts(m))
  <2> DEFINE r == Receipt(0, "person", "kept", 0)
             s == hist[m]
             R == Receipts(m)
  <2>1. s = <<r>> \/ s = <<>>
    BY DEF Init
  <2>2. R = {s[i] : i \in 1..Len(s)}
    BY DEF Receipts
  <2> HIDE DEF r, s, R
  <2>3. ASSUME s = <<>> PROVE s \in Seq(R)
    BY <2>3
  <2>4. ASSUME s = <<r>> PROVE s \in Seq(R)
    <3> DEFINE u == <<r>>
    <3>1. Len(u) = 1 /\ u[1] = r
      OBVIOUS
    <3>2. s = u
      BY <2>4
    <3> HIDE DEF u
    <3>3. 1 \in 1..Len(s) /\ s[1] = r
      BY <3>1, <3>2
    <3>4. r \in R
      BY <2>2, <3>3
    <3> QED
      BY <2>4, <3>4, OneAct
  <2>5. s \in Seq(R)
    BY <2>1, <2>3, <2>4
  <2> QED
    BY <2>5 DEF s, R
<1>5. NoneMissed
  BY <1>2, <1>3 DEF NoneMissed, NoneUnmarked, UnmarkedThen, EndsTouched
<1>6. NoneLost
  BY <1>1, <1>2, <1>4 DEF NoneLost, NoneIdle, FlaggedThen, EndsSaid, Heard
<1> QED
  BY <1>5, <1>6

LEMMA NextMissed ==
    ASSUME Inv, Inv', NoneMissed, [Next]_vars
    PROVE  NoneMissed'
<1>1. Typed /\ Recorded /\ Recorded' /\ NoneUnmarked /\ EndsTouched
  BY DEF Inv, Typed, NoneMissed
<1>2. ASSUME NEW ch, Minds(ch), Commit(ch) PROVE NoneMissed'
  BY <1>1, <1>2, MindsMissed
<1>3. ASSUME NEW ch, NEW ms, Ready(ch, ms), Marking(ch, ms), Commit(ch) PROVE NoneMissed'
  BY <1>1, <1>2, <1>3, MarkingMinds
<1>4. ASSUME NEW m \in Memories, Forget(m) PROVE NoneMissed'
  <2>1. PICK ch, gone, freed : Forgetting(ch, gone, freed) /\ Commit(ch)
    BY <1>1, <1>4, ForgetReady
  <2> QED
    BY <1>1, <1>2, <2>1, ForgettingMinds
<1>5. ASSUME NEW f \in Memories, NEW d \in Memories, Resolve(f, d) PROVE NoneMissed'
  <2>1. \/ \E ch : Settles(ch, f) /\ Commit(ch)
        \/ \E ch, saved, new : Holding(ch, saved, new) /\ Commit(ch)
    BY <1>1, <1>5, ResolveSettles
  <2>2. ASSUME NEW ch, Settles(ch, f), Commit(ch) PROVE NoneMissed'
    BY <1>1, <1>2, <2>2, SettlesMinds
  <2>3. ASSUME NEW ch, NEW saved, NEW new, Holding(ch, saved, new), Commit(ch) PROVE NoneMissed'
    BY <1>1, <1>2, <2>3, HoldingMinds
  <2> QED
    BY <2>1, <2>2, <2>3
<1>6. ASSUME NEW c \in 1..Len(journal), Undo(c) PROVE NoneMissed'
  <2>1. Undoable(c)
    BY <1>6 DEF Undo
  <2>2. PICK ch : Restoring(ch, c) /\ Commit(ch)
    BY <1>6, UndoRestores
  <2>3. Restored(c)
    BY <1>1, <2>1, <2>2, UndoRestored
  <2> QED
    BY <1>1, <2>1, <2>3, UndoMissed
<1>7. ASSUME Quiet PROVE NoneMissed'
  BY <1>7, QuietFlags
<1>8. \/ \E ch, ms : Ready(ch, ms) /\ Marking(ch, ms) /\ Commit(ch)
      \/ \E m \in Memories : Forget(m)
      \/ \E f \in Memories : \E d \in Memories : Resolve(f, d)
      \/ \E c \in 1..Len(journal) : Undo(c)
      \/ Quiet
  BY StepKinds
<1> QED
  BY <1>3, <1>4, <1>5, <1>6, <1>7, <1>8

LEMMA NextLost ==
    ASSUME "forget" \notin Commands, Inv, Inv', NoneMissed, NoneLost, [Next]_vars
    PROVE  NoneLost'
<1>1. Typed /\ Recorded /\ Recorded' /\ NoneUnmarked /\ EndsTouched /\ NoneIdle
  BY DEF Inv, Typed, NoneMissed, NoneLost
<1>2. ASSUME NEW ch, Minds(ch), Means(ch), Commit(ch) PROVE NoneLost'
  BY <1>1, <1>2, MeansLost
<1>3. ASSUME NEW ch, NEW ms, Ready(ch, ms), Marking(ch, ms), Commit(ch) PROVE NoneLost'
  BY <1>1, <1>2, <1>3, MarkingMinds, MarkingMeans
<1>4. ASSUME NEW m \in Memories, Forget(m) PROVE NoneLost'
  BY <1>4 DEF Forget
<1>5. ASSUME NEW f \in Memories, NEW d \in Memories, Resolve(f, d) PROVE NoneLost'
  <2>1. \/ \E ch : Settles(ch, f) /\ Commit(ch)
        \/ \E ch, saved, new : Holding(ch, saved, new) /\ Commit(ch)
    BY <1>1, <1>5, ResolveSettles
  <2>2. ASSUME NEW ch, Settles(ch, f), Commit(ch) PROVE NoneLost'
    BY <1>1, <1>2, <2>2, SettlesMinds, SettlesMeans
  <2>3. ASSUME NEW ch, NEW saved, NEW new, Holding(ch, saved, new), Commit(ch) PROVE NoneLost'
    BY <1>1, <1>2, <2>3, HoldingMinds, HoldingMeans
  <2> QED
    BY <2>1, <2>2, <2>3
<1>6. ASSUME NEW c \in 1..Len(journal), Undo(c) PROVE NoneLost'
  <2>1. Undoable(c)
    BY <1>6 DEF Undo
  <2>2. PICK ch : Restoring(ch, c) /\ Commit(ch)
    BY <1>6, UndoRestores
  <2>3. Restored(c)
    BY <1>1, <2>1, <2>2, UndoRestored
  <2> QED
    BY <1>1, <2>1, <2>2, <2>3, UndoLost
<1>7. ASSUME Quiet PROVE NoneLost'
  BY <1>7, QuietFlags
<1>8. \/ \E ch, ms : Ready(ch, ms) /\ Marking(ch, ms) /\ Commit(ch)
      \/ \E m \in Memories : Forget(m)
      \/ \E f \in Memories : \E d \in Memories : Resolve(f, d)
      \/ \E c \in 1..Len(journal) : Undo(c)
      \/ Quiet
  BY StepKinds
<1> QED
  BY <1>3, <1>4, <1>5, <1>6, <1>7, <1>8

\* In every history, whatever is resolved, undone and forgotten and in
\* whatever order, a proposal or a kept memory with a conflict of its own is
\* flagged, so it can be neither kept nor adopted past the contradiction: an
\* Undo that would write back a row from before the flag finds the conflict
\* that came since (checkUndoLinks), and a Forget takes the flag only off
\* what it leaves with no conflict (endConflicts).
THEOREM Flagged == Spec => []ContradictionsFlagged
<1>1. NoneMissed => ContradictionsFlagged
  BY DEF NoneMissed, NoneUnmarked, InPlay, ContradictionsFlagged
<1>2. Inv /\ NoneMissed /\ [Next]_vars => Inv' /\ NoneMissed'
  BY NextInv, NextMissed
<1>3. Init => Inv /\ NoneMissed
  BY InitInv, InitFlags
<1> QED
  BY <1>1, <1>2, <1>3, PTL DEF Spec

\* While nothing is forgotten, the flag and the conflict come and go
\* together, through resolutions and the Undo of resolutions in any order: a
\* flagged memory always has a conflict to settle.  With Forgets this half is
\* false (RecordStuckFlag): an Undo brings a flag back after a Forget ended
\* what it was about.
THEOREM FlagsTrue == ("forget" \notin Commands) /\ Spec => []ConflictFlagMatches
<1>1. NoneMissed /\ NoneLost => ConflictFlagMatches
  BY DEF NoneMissed, NoneUnmarked, NoneLost, NoneIdle, InPlay, ConflictFlagMatches
<1>2. ASSUME "forget" \notin Commands
      PROVE  Inv /\ NoneMissed /\ NoneLost /\ [Next]_vars => Inv' /\ NoneMissed' /\ NoneLost'
  BY <1>2, NextInv, NextMissed, NextLost
<1>3. Init => Inv /\ NoneMissed /\ NoneLost
  BY InitInv, InitFlags
<1>4. ASSUME "forget" \notin Commands PROVE Spec => []ConflictFlagMatches
  BY <1>1, <1>2, <1>3, <1>4, PTL DEF Spec
<1> QED
  BY <1>4

=============================================================================

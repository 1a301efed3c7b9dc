------------------------------- MODULE Record -------------------------------
(***************************************************************************)
(* The memory record of one space: the ledger's commands on memories       *)
(* (packages/server/internal/ledger: write.go, judge.go, conflict.go,      *)
(* undo.go, forget.go).                                                    *)
(*                                                                         *)
(* A command is one READ COMMITTED transaction that locks every memory it  *)
(* writes before it reads it and starts again if that set moved            *)
(* (locks.go), so a command is one step, but for one read it makes without *)
(* a lock: a Remember reads the memories it cites and writes later         *)
(* (`reading').  A command that is refused, replayed or changes nothing    *)
(* rolls back (ledger.go), which is a stuttering step.                     *)
(*                                                                         *)
(* Words are abstracted to version numbers.  Whether words touch a         *)
(* decision, repeat a memory or contradict one is up to the words and the  *)
(* model: both answers are always possible.                                *)
(***************************************************************************)
EXTENDS Naturals, Sequences, FiniteSets

CONSTANTS
    Memories,       \* the memories there may be
    Decisions,      \* those of kind decision; the others are facts
    Standing,       \* those a person kept before the behaviour starts
    Commands,       \* the names of the commands an instance issues
    MaxCommands,    \* bound: commands applied
    MaxVersion,     \* bound: versions of one memory
    MaxReading      \* bound: sources read by Remembers that have not committed

ASSUME MemoriesAssumption == Decisions \subseteq Memories /\ Standing \subseteq Memories
ASSUME BoundsAssumption ==
    /\ {MaxCommands, MaxReading} \subseteq Nat
    /\ MaxVersion \in Nat \ {0}

VARIABLES
    mem,        \* each memory's row: lifecycle, conflict flag, current version, decision status
    top,        \* each memory's highest stored version
    hist,       \* each memory's stream of receipts
    links,      \* the active links, with the command that made each
    cites,      \* <<m, n>>: m has a source of kind memory that names n
    reading,    \* sources a Remember that has not committed has read
    drafts,     \* <<m, v>>: version v of m was written by a drafted receipt
    verdicts,   \* the judge's recorded verdicts
    jobs,       \* the judge jobs queued (River delivers each at least once)
    journal     \* each command's undo entry (kind "none": it keeps none)

vars == <<mem, top, hist, links, cites, reading, drafts, verdicts, jobs, journal>>

Lifecycles == {"none", "proposed", "kept", "rejected", "merged", "faded", "forgotten"}

-----------------------------------------------------------------------------
(* Reading the record.                                                     *)

Now == Len(journal) + 1

Row(life) == [life |-> life, conflict |-> FALSE, version |-> 1, status |-> "in_force"]

Receipt(c, by, act, of) == [cmd |-> c, by |-> by, act |-> act, of |-> of]

Receipts(m) == {hist[m][i] : i \in 1..Len(hist[m])}

Last(m) == hist[m][Len(hist[m])]

PersonKept(m) == \E r \in Receipts(m) : r.by = "person" /\ r.act \in {"kept", "edited"}

Triple(kind, from, to) == [kind |-> kind, from |-> from, to |-> to]

Of(l) == Triple(l.kind, l.from, l.to)

Active == {Of(l) : l \in links}

InForce(m) == m \in Decisions /\ mem[m].life = "kept" /\ mem[m].status = "in_force"

\* The decisions a memory's own flag is about.
Contradicts(m) == {d \in Memories : Triple("conflicts_with", m, d) \in Active}

Partners(m) == {n \in Memories : m \in Contradicts(n) \/ n \in Contradicts(m)}

\* What keeping m supersedes.
Supersedes(m) == {d \in Memories : Triple("supersedes", m, d) \in Active /\ InForce(d)}

VerdictsOn(m, v) == {w \in verdicts : w.mem = m /\ w.version = v}

Job(m, v, mode) ==
    [mem |-> m, version |-> v, mode |-> mode, round |-> 0, force |-> FALSE, beside |-> {}, cause |-> 0]

JudgeAfterWrite(m, v, by, life) ==
    CASE life = "proposed"                -> {Job(m, v, "proposal")}
      [] life = "kept" /\ by = "agent"    -> {Job(m, v, "kept")}
      [] OTHER                            -> {}

-----------------------------------------------------------------------------
(* Applying a command.  An action describes its change; Commit writes it:  *)
(* the rows, a receipt per act, the links made (unless active already) and *)
(* ended, the judge jobs, and the undo entry, which holds the rows of the  *)
(* memories in `touch' as they were (`before') and, for the properties,    *)
(* as the command left them (`after').                                     *)

Change(by) ==
    [by |-> by, mem |-> mem, top |-> top, acts |-> [m \in Memories |-> <<>>], of |-> 0,
     make |-> {}, end |-> {}, queue |-> {}, undo |-> "none", touch |-> {}, before |-> mem]

Commit(ch) ==
    LET made == ch.make \ Active
        past == IF ch.of = 0 THEN journal ELSE [journal EXCEPT ![ch.of].undone = TRUE]
    IN  /\ \A m \in Memories : ch.top[m] <= MaxVersion
        /\ mem' = ch.mem
        /\ top' = ch.top
        /\ hist' = [m \in Memories |-> hist[m] \o
                       [i \in 1..Len(ch.acts[m]) |-> Receipt(Now, ch.by, ch.acts[m][i], ch.of)]]
        /\ links' = {l \in links : Of(l) \notin ch.end} \cup
                       {[kind |-> t.kind, from |-> t.from, to |-> t.to, cmd |-> Now] : t \in made}
        /\ jobs' = jobs \cup ch.queue
        /\ journal' = Append(past,
               [kind |-> ch.undo, touch |-> ch.touch, undone |-> FALSE, made |-> made, ended |-> ch.end,
                before |-> [m \in ch.touch |-> ch.before[m]], after |-> [m \in ch.touch |-> ch.mem[m]]])

\* One memory's acts, or several memories'.
Acts(m, as) == [n \in Memories |-> IF n = m THEN as ELSE <<>>]
With(acts, ms, as) == [n \in Memories |-> IF n \in ms THEN acts[n] \o as ELSE acts[n]]

Write(ch, m, row, as) == [ch EXCEPT !.mem[m] = row, !.acts = With(@, {m}, as)]

\* mutant: the superseded decisions are missing from the undo entry
SupersedeUntouched(ch, ds) ==
    [ch EXCEPT !.mem = [d \in Memories |-> IF d \in ds THEN [@[d] EXCEPT !.status = "superseded"] ELSE @[d]],
               !.acts = With(@, ds, <<"superseded">>)]

\* supersedeOnKeep, supersedeDecision
SupersedeAll(ch, ds) ==
    [ch EXCEPT !.mem = [d \in Memories |-> IF d \in ds THEN [@[d] EXCEPT !.status = "superseded"] ELSE @[d]],
               !.acts = With(@, ds, <<"superseded">>),
               !.touch = @ \cup ds]

judged == <<drafts, verdicts>>
cited == <<cites, reading>>

-----------------------------------------------------------------------------
(* Writing memories.                                                       *)

\* settleMemorySources: a source must be kept when it is read, and the
\* read takes no lock.
ReadSource(t) ==
    /\ Cardinality(reading) < MaxReading
    /\ mem[t].life = "kept"
    /\ reading' = reading \cup {t}
    /\ UNCHANGED <<mem, top, hist, links, cites, drafts, verdicts, jobs, journal>>

\* insertMemory
Insert(m, by, life) ==
    [Write(Change(by), m, Row(life), <<life>>) EXCEPT
        !.top[m] = 1, !.queue = JudgeAfterWrite(m, 1, by, life)]

Cite(m) ==
    \/ UNCHANGED cited
    \/ \E t \in reading : cites' = cites \cup {<<m, t>>} /\ reading' = reading \ {t}

\* write, writeMemory: policy keeps the statement or downgrades it to a
\* proposal.  Undoing a person's own Remember withdraws the memory: its
\* "before" is rejected.
Remember(m, by, life) ==
    /\ "remember" \in Commands
    /\ mem[m].life = "none"
    /\ life \in {"kept", "proposed"}
    /\ Cite(m)
    /\ Commit(IF by = "person"
              THEN [Insert(m, by, life) EXCEPT !.undo = "remember", !.touch = {m}, !.before[m] = Row("rejected")]
              ELSE Insert(m, by, life))
    /\ UNCHANGED judged

Propose(m, by) ==
    /\ "propose" \in Commands
    /\ mem[m].life = "none"
    /\ Cite(m)
    /\ Commit(Insert(m, by, "proposed"))
    /\ UNCHANGED judged

\* edit, supersede: policy downgrades an edit of a kept memory to a new
\* proposal of the same kind, linked to the memory it would change.
Update(m, n, by) ==
    /\ "update" \in Commands
    /\ mem[m].life = "kept"
    /\ mem[n].life = "none"
    /\ n \in Decisions <=> m \in Decisions
    /\ Commit([Insert(n, by, "proposed") EXCEPT !.make = {Triple("supersedes", n, m)}])
    /\ UNCHANGED <<judged, cited>>

\* The row with new words: the next version counts from the highest stored.
Reworded(m) == [mem[m] EXCEPT !.version = top[m] + 1]

NewWords(ch, m) == [Write(ch, m, Reworded(m), <<"edited">>) EXCEPT !.top[m] = @ + 1]

\* edit, applied in place.  A person's edit is undoable; an agent edits only
\* a kept memory no person kept or edited.  An edit-then-keep whose words
\* touch a decision in force is held, which is this edit.
Edit(m, by) ==
    /\ "edit" \in Commands
    /\ \/ by = "person" /\ mem[m].life \in {"proposed", "kept"}
       \/ by = "agent" /\ mem[m].life = "kept" /\ ~PersonKept(m)
    /\ LET ch == [NewWords(Change(by), m) EXCEPT !.queue = JudgeAfterWrite(m, top[m] + 1, by, mem[m].life)]
       IN  Commit(IF by = "person" THEN [ch EXCEPT !.undo = "edit", !.touch = {m}] ELSE ch)
    /\ UNCHANGED <<judged, cited>>

\* edit with Keep, not held.
EditThenKeep(m) ==
    /\ {"edit", "keep"} \subseteq Commands
    /\ mem[m].life = "proposed"
    /\ ~mem[m].conflict
    /\ LET kept == [Reworded(m) EXCEPT !.life = "kept"]
           ch   == [Write(Change("person"), m, kept, <<"edited", "kept">>) EXCEPT !.top[m] = @ + 1]
       IN  Commit(SupersedeAll([ch EXCEPT !.undo = "edit", !.touch = {m}], Supersedes(m)))
    /\ UNCHANGED <<judged, cited>>

\* review, a Keep.  It waits for the judge (awaitJudge) only while the words
\* are new and touch a decision, and goes ahead after JudgeGrace.
Keep(m) ==
    /\ "keep" \in Commands
    /\ mem[m].life = "proposed"
    /\ ~mem[m].conflict
    /\ LET ch == Write(Change("person"), m, [mem[m] EXCEPT !.life = "kept"], <<"kept">>)
       IN  Commit(SupersedeAll([ch EXCEPT !.undo = "keep", !.touch = {m}], Supersedes(m)))
    /\ UNCHANGED <<judged, cited>>

\* mutant: the flag outlives the proposal
AwayFlagged(row, life) == [row EXCEPT !.life = life]

Away(row, life) == [row EXCEPT !.life = life, !.conflict = FALSE]

\* review, a Reject: the flag goes with the proposal, its links stay.
Reject(m) ==
    /\ "reject" \in Commands
    /\ mem[m].life = "proposed"
    /\ Commit([Write(Change("person"), m, Away(mem[m], "rejected"), <<"rejected">>)
                 EXCEPT !.undo = "reject", !.touch = {m}])
    /\ UNCHANGED <<judged, cited>>

-----------------------------------------------------------------------------
(* The judge.  A job reads a snapshot, asks a model, and records what it   *)
(* found in a command of its own, which checks again, under locks, that    *)
(* the verdict still applies.  The snapshot may be older than anything, so *)
(* a verdict may name any memory.                                          *)

IsDraft(m, v) == <<m, v>> \in drafts /\ v > mem[m].version

\* mutant: a forced job only looks at this round's verdict
DoneThisRound(j) == \E w \in VerdictsOn(j.mem, j.version) : w.round = j.round

\* recordVerdict's check that this version has no verdict yet this round
Done(j) == \E w \in VerdictsOn(j.mem, j.version) : w.round >= j.round \/ ~j.force

\* verdictEligible
Eligible(j) ==
    LET m == j.mem IN
    CASE j.mode = "proposal" -> mem[m].life = "proposed" /\ mem[m].version = j.version
      [] j.mode = "kept"     -> mem[m].life = "kept" /\ mem[m].version = j.version /\ ~mem[m].conflict
      [] j.mode = "settling" -> \/ mem[m].life = "proposed" /\ mem[m].version = j.version
                                \/ mem[m].life = "kept" /\ IsDraft(m, j.version)

RecordVerdict(j, outcome, target, ch) ==
    /\ "judge" \in Commands
    /\ j \in jobs
    /\ ~Done(j)
    /\ Eligible(j)
    /\ Commit(ch)
    /\ verdicts' = verdicts \cup
           {[mem |-> j.mem, version |-> j.version, round |-> j.round, outcome |-> outcome, target |-> target]}
    /\ UNCHANGED <<drafts, cited>>

Verdict(j, act, row) == Write(Change("memax"), j.mem, row, <<act>>)

\* Nothing found, no answer, or a target that no longer fits.
JudgeNothing(j) == RecordVerdict(j, "none", {}, Verdict(j, "judged", mem[j.mem]))

\* Folded into a kept memory, or suppressed as a repeat of a rejected one.
\* SkipFold (which goes with Force) skips stage 0, where suppressing is.
JudgeFold(j, t) ==
    /\ j.mode = "proposal"
    /\ t # j.mem
    /\ mem[t].life = "kept" \/ (mem[t].life = "rejected" /\ ~j.force)
    /\ RecordVerdict(j, "folded", {t},
           [Verdict(j, "merged", Away(mem[j.mem], "merged")) EXCEPT
               !.make = {Triple("merged_into", j.mem, t)}, !.undo = "judge_fold", !.touch = {j.mem}])

\* Linked to the kept memory it updates, or to the decision it supersedes.
JudgeLink(j, t) ==
    /\ j.mode = "proposal"
    /\ t # j.mem
    /\ mem[t].life = "kept"
    /\ RecordVerdict(j, "linked", {t},
           [Verdict(j, "linked", mem[j.mem]) EXCEPT !.make = {Triple("supersedes", j.mem, t)}])

\* mutant: what happened to the memory is not looked at
ReturnableUnread(m) == \A l \in links : l.to # m

\* returnable: an agent's own write, the last thing that happened to it,
\* that no person touched and nothing links to.
Returnable(m) ==
    /\ Last(m).by = "agent" /\ Last(m).act \in {"kept", "edited"}
    /\ \A r \in Receipts(m) : r.by # "person"
    /\ \A l \in links : l.to # m

\* Contradicts decisions in force, `fresh' of them not linked to it yet.  A
\* draft's words are not in force: only the verdict is recorded.  In mode
\* kept a returnable memory goes back to Review if it is inside the return
\* window and not in the Brief (`back').
JudgeFlag(j, ds, t, back) ==
    LET m == j.mem
        draft == mem[m].life = "kept" /\ j.mode = "settling"
        fresh == IF draft THEN {} ELSE ds \ Partners(m)
        flagged == [mem[m] EXCEPT !.conflict = TRUE]
        make == {Triple("conflicts_with", m, d) : d \in fresh}
        ch == CASE fresh = {} -> Verdict(j, "judged", mem[m])
                [] fresh # {} /\ back -> Verdict(j, "returned", [flagged EXCEPT !.life = "proposed"])
                [] OTHER -> Verdict(j, "flagged", flagged)
    IN  /\ ds # {}
        /\ \A d \in ds : InForce(d) /\ d # m /\ d \notin j.beside
        /\ t \in IF fresh = {} THEN ds ELSE fresh
        /\ back => j.mode = "kept" /\ fresh # {} /\ Returnable(m)
        /\ RecordVerdict(j, "flagged", {t}, [ch EXCEPT !.make = make])

\* A job delivered while its memory has moved on is done with.  One whose
\* verdict is recorded stays: it may be delivered again, and finds it.
SkipJob(j) ==
    /\ "skip" \in Commands
    /\ ~Done(j)
    /\ ~Eligible(j)
    /\ jobs' = jobs \ {j}
    /\ UNCHANGED <<mem, top, hist, links, cites, reading, drafts, verdicts, journal>>

Judge(j) ==
    \/ JudgeNothing(j)
    \/ \E t \in Memories : JudgeFold(j, t) \/ JudgeLink(j, t)
    \/ \E ds \in SUBSET Memories, t \in Memories, back \in BOOLEAN : JudgeFlag(j, ds, t, back)

-----------------------------------------------------------------------------
(* Settling a conflict: the flagged side f and the decision d its link     *)
(* names.  A person chooses; the change is undoable unless it is held.     *)

\* keepIt, giveWay: one memory in a resolution already under way
KeepIt(ch, m) ==
    IF ch.mem[m].life = "proposed" THEN Write(ch, m, [ch.mem[m] EXCEPT !.life = "kept"], <<"kept">>) ELSE ch

GiveWay(ch, loser, winner) ==
    LET linked == [ch EXCEPT !.make = {Triple("supersedes", winner, loser)}] IN
    CASE ch.mem[loser].life = "proposed" ->
            Write(ch, loser, Away(ch.mem[loser], "rejected"), <<"rejected">>)
      [] ch.mem[loser].life # "proposed" /\ loser \in Decisions -> SupersedeAll(linked, {loser})
      [] OTHER -> Write(linked, loser, Away(ch.mem[loser], "faded"), <<"faded">>)

Settling(f, d) ==
    /\ "resolve" \in Commands
    /\ d \in Contradicts(f)
    /\ mem[f].conflict

\* mutant: the flag goes and the links stay
SettledFlagOnly(f, d, ends) ==
    [Write(Change("person"), f, [mem[f] EXCEPT !.conflict = FALSE], <<"resolved">>) EXCEPT
        !.undo = "resolve", !.touch = {f, d}]

\* The conflict is settled: the flag goes and the links in `ends' end.
Settled(f, d, ends) ==
    [Write(Change("person"), f, [mem[f] EXCEPT !.conflict = FALSE], <<"resolved">>) EXCEPT
        !.undo = "resolve", !.touch = {f, d}, !.end = {Triple("conflicts_with", f, e) : e \in ends}]

\* A proposal in conflict cannot be kept (lifecycle.Transition).
Keepable(m) == ~(mem[m].life = "proposed" /\ mem[m].conflict)

\* The flagged side wins: its other conflicts must be settled first.
ResolveForFlagged(f, d) ==
    /\ Settling(f, d)
    /\ Contradicts(f) = {d}
    /\ Commit(GiveWay(KeepIt(Settled(f, d, {d}), f), d, f))
    /\ UNCHANGED <<judged, cited>>

\* The decision wins: the flagged side's other conflicts end with it.
ResolveForDecision(f, d) ==
    /\ Settling(f, d)
    /\ Keepable(d)
    /\ Commit(GiveWay(KeepIt(Settled(f, d, Contradicts(f)), d), f, d))
    /\ UNCHANGED <<judged, cited>>

\* Left open: the sides that stand are kept and undecided.
ResolveOpen(f, d) ==
    /\ Settling(f, d)
    /\ Contradicts(f) = {d}
    /\ LET open == {f} \cup {m \in {d} : InForce(m)}
           ch   == KeepIt(Settled(f, d, {d}), f)
       IN  Commit([ch EXCEPT
               !.mem = [m \in Memories |-> IF m \in open \cap Decisions THEN [@[m] EXCEPT !.status = "open"] ELSE @[m]],
               !.acts = With(@, open, <<"resolved">>)])
    /\ UNCHANGED <<judged, cited>>

\* findDraft: a kept side's draft may be adopted unless its latest verdict
\* found a contradiction with a decision still in force.
Contradicted(m, v) ==
    \E w \in VerdictsOn(m, v) :
        /\ \A x \in VerdictsOn(m, v) : x.round <= w.round
        /\ w.outcome = "flagged"
        /\ \E t \in w.target : InForce(t)

Adoptable(m) ==
    {v \in 1..top[m] : mem[m].life = "kept" /\ IsDraft(m, v) /\ ~Contradicted(m, v)}

\* The versions a side of "keep both" may stand with: its words, new ones
\* that touch no other decision, or a draft.
Wordings(m) == {mem[m].version, top[m] + 1} \cup Adoptable(m)

\* putVersion
Put(ch, m, v) ==
    IF v = mem[m].version THEN ch
    ELSE [Write(ch, m, [ch.mem[m] EXCEPT !.version = v], <<"edited">>) EXCEPT
             !.top[m] = IF v > @ THEN v ELSE @]

\* Both stand, each with the words chosen for it (planBoth, no hold).
ResolveBoth(f, d) ==
    /\ Settling(f, d)
    /\ Contradicts(f) = {d}
    /\ \E vf \in Wordings(f), vd \in Wordings(d) :
          Commit(KeepIt(Put(Put(Settled(f, d, {d}), f, vf), d, vd), f))
    /\ UNCHANGED <<judged, cited>>

\* holdBoth: some side's new words touch another decision in force.  The
\* words are saved for the judge, a kept side's as a draft; nothing is
\* settled, and nothing is undoable.
HoldBoth(f, d) ==
    /\ Settling(f, d)
    /\ Contradicts(f) = {d}
    /\ \E e \in Memories \ {f, d} : InForce(e)
    /\ \E saved \in SUBSET {m \in {f, d} : mem[m].life \in {"proposed", "kept"}} :
          LET drafted == {m \in saved : mem[m].life = "kept"}
              beside  == [m \in {f, d} |-> {f, d} \ {m}]
              ch      == Change("person")
          IN  /\ saved # {}
              /\ Commit([ch EXCEPT
                     !.mem = [m \in Memories |-> IF m \in saved \ drafted THEN Reworded(m) ELSE @[m]],
                     !.top = [m \in Memories |-> IF m \in saved THEN @[m] + 1 ELSE @[m]],
                     !.acts = With(With(@, saved \ drafted, <<"edited">>), drafted, <<"drafted">>),
                     !.queue = {[Job(m, top[m] + 1, "settling") EXCEPT !.beside = beside[m]] : m \in saved}])
              /\ drafts' = drafts \cup {<<m, top[m] + 1>> : m \in drafted}
    /\ UNCHANGED <<verdicts, cited>>

Resolve(f, d) ==
    \/ ResolveForFlagged(f, d)
    \/ ResolveForDecision(f, d)
    \/ ResolveOpen(f, d)
    \/ ResolveBoth(f, d)
    \/ HoldBoth(f, d)

-----------------------------------------------------------------------------
(* Undo.                                                                   *)

\* mutant: the command right after is overlooked
LaterButOne(c, m) ==
    \E r \in Receipts(m) :
        /\ r.cmd > c + 1
        /\ r.act \notin {"judged", "drafted"}
        /\ ~journal[r.cmd].undone

\* changedSince: later receipts that count are those an undo would lose.
\* Verdicts that changed nothing, drafts, and commands undone since with
\* the receipts of their undoing do not.
LaterChange(c, m) ==
    \E r \in Receipts(m) :
        /\ r.cmd > c
        /\ r.act \notin {"judged", "drafted"}
        /\ ~journal[r.cmd].undone
        /\ ~(r.act = "undid" /\ journal[r.of].undone)

Made(c) == {[kind |-> t.kind, from |-> t.from, to |-> t.to, cmd |-> c] : t \in journal[c].made}

Touches(l, ms) == l.from \in ms \/ l.to \in ms

\* mutant: links made since are not looked at
NoLaterLink(c) == c = 0

\* checkUndoLinks: a later link touches the command's memories.
LaterLink(c) == \E l \in links : l.cmd > c /\ Touches(l, journal[c].touch)

\* lifecycle.CanRestore: the moves verbs make, and those only Undo makes
VerbMoves ==
    {<<"none", "proposed">>, <<"none", "kept">>, <<"proposed", "kept">>, <<"proposed", "rejected">>,
     <<"proposed", "merged">>, <<"merged", "proposed">>, <<"kept", "faded">>, <<"faded", "kept">>}
        \cup {<<life, "forgotten">> : life \in Lifecycles \ {"none", "forgotten"}}

UndoMoves == {<<"kept", "proposed">>, <<"rejected", "proposed">>, <<"kept", "rejected">>}

CanRestore(from, to) ==
    \/ from = to /\ to \in {"proposed", "kept", "faded"}
    \/ <<from, to>> \in VerbMoves \cup UndoMoves

Undoable(c) ==
    LET e == journal[c] IN
    /\ e.kind # "none"
    /\ ~e.undone
    /\ \A m \in e.touch :
          /\ mem[m].life # "forgotten"
          /\ ~LaterChange(c, m)
          /\ CanRestore(mem[m].life, e.before[m].life)
    /\ Made(c) \subseteq links
    /\ ~LaterLink(c)
    /\ e.ended \cap Active = {}     \* one active link of a kind between two memories

\* mutant: only an undone fold is judged again
RejudgeFolds(c, m) ==
    LET v == journal[c].before[m].version IN
    IF journal[c].kind # "judge_fold" THEN {}
    ELSE {[Job(m, v, "proposal") EXCEPT !.round = 1, !.force = TRUE, !.cause = c]}

\* rejudge: a memory back in Review is judged again after an undone fold,
\* otherwise only if its words never were.
Rejudge(c, m) ==
    LET v      == journal[c].before[m].version
        rounds == {w.round : w \in VerdictsOn(m, v)}
        fold   == journal[c].kind = "judge_fold"
        next   == IF rounds = {} THEN 1 ELSE CHOOSE r \in 1..MaxCommands : r - 1 \in rounds /\ \A q \in rounds : q < r
    IN  IF rounds # {} /\ ~fold THEN {}
        ELSE {[Job(m, v, "proposal") EXCEPT !.round = next, !.force = fold, !.cause = c]}

Undo(c) ==
    /\ "undo" \in Commands
    /\ Undoable(c)
    /\ LET e == journal[c]
           again == {m \in e.touch : e.before[m].life = "proposed" /\ mem[m].life # "proposed"}
       IN  Commit([Change("person") EXCEPT
               !.mem = [m \in Memories |-> IF m \in e.touch THEN e.before[m] ELSE @[m]],
               !.acts = With(@, e.touch, <<"undid">>),
               !.of = c, !.end = e.made, !.make = e.ended,
               !.queue = UNION {Rejudge(c, m) : m \in again}])
    /\ UNCHANGED <<judged, cited>>

-----------------------------------------------------------------------------
(* Forget.                                                                 *)

\* mutant: what was folded into a memory stays behind
CarriesUnfolded(n, m) ==
    \/ Triple("supersedes", n, m) \in Active /\ mem[n].life = "proposed"
    \/ <<n, m>> \in cites /\ mem[n].life # "forgotten"

\* carriedBy: what goes with a Forget directly.
Carries(n, m) ==
    \/ Triple("merged_into", n, m) \in Active /\ mem[n].life = "merged"
    \/ Triple("supersedes", n, m) \in Active /\ mem[n].life = "proposed"
    \/ <<n, m>> \in cites /\ mem[n].life # "forgotten"

\* ... and transitively: the memories in every closed set that holds m.
Carried(m) ==
    LET Closed(S) == \A p \in S, n \in Memories : Carries(n, p) => n \in S
    IN  {n \in Memories : \A S \in SUBSET Memories : m \in S /\ Closed(S) => n \in S}

\* mutant: whatever loses one conflict loses its flag
FreedOfOne(gone) == {n \in Memories \ gone : mem[n].conflict /\ Partners(n) \cap gone # {}}

\* endConflicts: flagged memories whose last conflict goes.
Freed(gone) == {n \in Memories \ gone : mem[n].conflict /\ Partners(n) # {} /\ Partners(n) \subseteq gone}

\* forget, purgeMemory, endConflicts: the words go, the conflicts end, and
\* a memory left with no conflict loses its flag.
Forget(m) ==
    /\ "forget" \in Commands
    /\ mem[m].life \notin {"none", "forgotten"}
    /\ LET gone  == Carried(m)
           ended == {t \in Active : t.kind = "conflicts_with" /\ Touches(t, gone)}
           freed == Freed(gone)
       IN  /\ Commit([Change("person") EXCEPT
                  !.mem = [n \in Memories |->
                              IF n \in gone THEN Away(@[n], "forgotten")
                              ELSE IF n \in freed THEN [@[n] EXCEPT !.conflict = FALSE] ELSE @[n]],
                  !.acts = With(With(@, gone, <<"forgot">>), freed, <<"resolved">>),
                  !.end = ended])
           /\ cites' = {c \in cites : c[1] \notin gone}
    /\ UNCHANGED <<judged, reading>>

-----------------------------------------------------------------------------

Init ==
    /\ mem = [m \in Memories |-> IF m \in Standing THEN Row("kept")
                                 ELSE [Row("none") EXCEPT !.version = 0]]
    /\ top = [m \in Memories |-> IF m \in Standing THEN 1 ELSE 0]
    /\ hist = [m \in Memories |-> IF m \in Standing THEN <<Receipt(0, "person", "kept", 0)>> ELSE <<>>]
    /\ links = {} /\ cites = {} /\ reading = {} /\ drafts = {} /\ verdicts = {} /\ jobs = {}
    /\ journal = <<>>

Actors == {"person", "agent"}

\* The commands: each takes the next number.
Command ==
    \/ \E m \in Memories :
          \/ \E by \in Actors, life \in {"kept", "proposed"} : Remember(m, by, life)
          \/ \E by \in Actors : Propose(m, by)
          \/ \E n \in Memories, by \in Actors : Update(m, n, by)
          \/ \E by \in Actors : Edit(m, by)
          \/ EditThenKeep(m)
          \/ Keep(m)
          \/ Reject(m)
          \/ Forget(m)
    \/ \E j \in jobs : Judge(j)
    \/ \E f, d \in Memories : Resolve(f, d)
    \/ \E c \in 1..Len(journal) : Undo(c)

Next ==
    \/ Now <= MaxCommands /\ Command
    \/ \E m \in Memories : ReadSource(m)
    \/ \E j \in jobs : SkipJob(j)

Spec == Init /\ [][Next]_vars

-----------------------------------------------------------------------------
(* Properties.                                                             *)

Rows == [life : Lifecycles, conflict : BOOLEAN, version : 0..MaxVersion,
         status : {"in_force", "open", "superseded"}]

\* Types, and what the schema promises of a row: only kept memories and
\* proposals carry a flag, and the current version is one that is stored.
TypeOK ==
    /\ mem \in [Memories -> Rows]
    /\ top \in [Memories -> 0..MaxVersion]
    /\ \A m \in Memories :
          /\ mem[m].version <= top[m]
          /\ mem[m].life = "none" <=> top[m] = 0
          /\ mem[m].conflict => mem[m].life \in {"proposed", "kept"}
    /\ \A l \in links : l.cmd \in 1..Len(journal) /\ l.from # l.to
    /\ \A l, k \in links : Of(l) = Of(k) => l = k
    /\ \A j \in jobs : j.version \in 1..top[j.mem]
    /\ \A d \in drafts : d[2] \in 1..top[d[1]]

\* A proposal or a kept memory is flagged exactly while it has an active
\* conflict of its own: a flag always has something to settle (resolve,
\* Forget and Undo end both together), and no contradiction goes unmarked.
ConflictFlagMatches ==
    \A m \in Memories : mem[m].life \in {"proposed", "kept"} => (mem[m].conflict <=> Contradicts(m) # {})

\* Whatever is resolved, undone or forgotten, a proposal or a kept memory
\* with an active conflict of its own is flagged: a Forget takes the flag
\* only off what it leaves with no conflict (endConflicts), and an Undo
\* never writes an unflagged row back beside a conflict (checkUndoLinks).
ContradictionsFlagged ==
    \A m \in Memories : mem[m].life \in {"proposed", "kept"} /\ Contradicts(m) # {} => mem[m].conflict

\* Every command keeps to the lifecycle the database guards: none fails on
\* the trigger after its own checks let it through.
L == INSTANCE Lifecycle WITH
        life <- [m \in Memories |-> mem[m].life],
        conflict <- [m \in Memories |-> mem[m].conflict],
        version <- [m \in Memories |-> mem[m].version],
        stream <- hist

LifecycleSpec == L!Spec

\* What a merged memory was folded into never goes back to Review nor is
\* itself folded away while the fold stands (checkUndoLinks).
FoldTargetsStand ==
    \A t \in Active :
        t.kind = "merged_into" /\ mem[t.from].life = "merged" =>
            mem[t.to].life \notin {"none", "proposed", "merged"}

\* A version gets one verdict, and one more for each of its folds a person
\* undid, however often its jobs are delivered (recordVerdict's check).
VerdictsOnce ==
    \A m \in Memories : \A v \in 1..top[m] :
        Cardinality(VerdictsOn(m, v)) <=
            1 + Cardinality({c \in 1..Len(journal) :
                    /\ journal[c].kind = "judge_fold" /\ journal[c].undone
                    /\ m \in journal[c].touch /\ journal[c].before[m].version = v})

\* What a Forget takes with it does not come back, and nothing new comes to
\* hang off a forgotten memory (carriedBy, endConflicts): no memory folded
\* into it is left, and it is in no conflict.
ForgottenLetGo ==
    \A t \in Active : mem[t.to].life = "forgotten" =>
        /\ t.kind # "conflicts_with"
        /\ t.kind = "merged_into" => mem[t.from].life # "merged"

\* A command that may be undone left its memories as they are: what Undo
\* takes back is that command's work and no later command's (changedSince).
UndoLosesNothing ==
    \A c \in 1..Len(journal) :
        Undoable(c) => \A m \in journal[c].touch : mem[m] = journal[c].after[m]

\* A superseded decision has a memory that supersedes it and was kept, and
\* still is, or was forgotten since (supersedeOnKeep; forget.go: "a decision
\* it superseded stays superseded").
SupersededForCause ==
    \A d \in Memories :
        mem[d].status = "superseded" =>
            \E t \in Active : t.kind = "supersedes" /\ t.to = d /\ mem[t.from].life \in {"kept", "forgotten"}

\* Keeping a memory that supersedes a decision in force supersedes that
\* decision (supersedeOnKeep's comment), unless a person settled that very
\* pair.
KeptSupersedes ==
    \A m \in Memories : mem[m].life = "kept" =>
        \A d \in Supersedes(m) :
            \E c \in 1..Len(journal) : journal[c].kind = "resolve" /\ {m, d} \subseteq journal[c].touch

\* A memory left with no conflict has no flag (endConflicts' comment).
FlaggedHasConflict ==
    \A m \in Memories : mem[m].conflict => Partners(m) # {}

\* What goes with a Forget is every memory that cites it (carriedBy's
\* comment): none is left citing a forgotten memory.
CitedStand ==
    \A c \in cites : mem[c[2]].life # "forgotten"

\* A proposal is always judged (judgeAfterWrite's comment): its words have a
\* verdict, or a job that will look at them.
ProposalsJudged ==
    \A m \in Memories : mem[m].life = "proposed" =>
        \/ VerdictsOn(m, mem[m].version) # {}
        \/ \E j \in jobs : j.mem = m /\ j.version = mem[m].version

=============================================================================

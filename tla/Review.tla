------------------------------- MODULE Review -------------------------------
(***************************************************************************)
(* The web app's Review screen in one browser tab                          *)
(* (packages/web/src/app/(ledger)/(app)/_places/review): its reducer       *)
(* (review-state.ts), its commands (use-review.ts), the tab's undo stack   *)
(* (undo.tsx, undo-stack.ts) and its idempotency keys (intent-keys.ts),    *)
(* over a server that decides the proposals of one space.                  *)
(*                                                                         *)
(* A command is an async function: `runs' holds each one's place between   *)
(* two awaits.  The person may act at every await, and what they see is    *)
(* `ui' and the cached `queue', not the server's rows.                     *)
(***************************************************************************)
EXTENDS Naturals, Sequences, FiniteSets

CONSTANTS
    Order,          \* the queue's memories, in the order it lists them
    None,           \* no memory
    Unjudged,       \* those that touch a decision in force, and the judge has not seen
    Gestures,       \* what the person does, to which card, in an instance
    MaxPresses,     \* bound: commands the person starts
    MaxUndos,       \* bound: undos the person starts
    MaxTrouble,     \* bound: answers lost, and what other people do to the proposals
    MaxAsks         \* bound: times a Keep asks before it gives the judge up

ASSUME ReviewAssumption ==
    /\ Order \in Seq({Order[i] : i \in DOMAIN Order})
    /\ \A i, j \in DOMAIN Order : Order[i] = Order[j] => i = j
    /\ None \notin {Order[i] : i \in DOMAIN Order}
    /\ {MaxPresses, MaxUndos, MaxTrouble, MaxAsks} \subseteq Nat

VARIABLES
    srv,        \* the server's row of each memory
    log,        \* each memory's applied commands: the row before, the version after
    claims,     \* the idempotency keys the server has answered, and how
    ui,         \* the reducer's state
    queue,      \* the cached queue: each memory's row, or NoRow
    fetch,      \* the queue's refetch: idle, asked, or the rows on the way
    runs,       \* the commands of this visit, by the order of their presses
    busyRef,    \* busy.current
    waitFor,    \* waitFor.current: the run whose controller it is, or 0
    settled,    \* the intents settled, each with the generation of the key it had
    stack,      \* the tab's undo stack: each memory's entries
    retries,    \* the toasts that offer to try again
    left,       \* what is left of the bounds on trouble and undos
    hurried     \* history: a Keep under its seal was left or a closed edit tried again
                \* (seal), a command was sent while it was being sent (twice)

vars == <<srv, log, claims, ui, queue, fetch, runs, busyRef, waitFor, settled, stack, retries, left, hurried>>

Memories == {Order[i] : i \in DOMAIN Order}

NoRow == [version |-> 0, conflict |-> FALSE]
Browse == [kind |-> "browse", ref |-> None, base |-> 0, theirs |-> 0]
Idle == [state |-> "idle", rows |-> [m \in Memories |-> NoRow]]
Asked == [Idle EXCEPT !.state = "asked"]
NoSeal == [ref |-> None, restore |-> Browse]

-----------------------------------------------------------------------------
(* The reducer (review-state.ts).                                          *)

Place(m) == CHOOSE i \in DOMAIN Order : Order[i] = m
FirstOf(S) == IF S = {} THEN None ELSE CHOOSE m \in S : \A n \in S : Place(m) <= Place(n)
LastOf(S) == IF S = {} THEN None ELSE CHOOSE m \in S : \A n \in S : Place(m) >= Place(n)

\* Where the selection goes when m leaves `order': the next card, else the one before.
nextAfter(order, m) ==
    LET later == {n \in order : Place(n) > Place(m)}
    IN  CASE m \notin order -> FirstOf(order)
          [] m \in order /\ later # {} -> FirstOf(later)
          [] OTHER -> LastOf(order \ {m})

Unless(x, m) == IF x = m THEN None ELSE x

Select(u, m) ==
    IF u.waiting # None
    THEN [u EXCEPT !.selected = m, !.waiting = None, !.busy = Unless(@, u.waiting), !.mode = Browse]
    ELSE IF u.busy # None \/ u.sealed # NoSeal THEN u ELSE [u EXCEPT !.selected = m, !.mode = Browse]

Seal(u, m) ==
    [u EXCEPT !.selected = m, !.busy = m, !.waiting = None, !.mode = Browse,
              !.sealed = [ref |-> m, restore |-> IF @.ref = m THEN @.restore ELSE u.mode]]

Waiting(u, m) == [u EXCEPT !.selected = m, !.sealed = NoSeal, !.busy = m, !.waiting = m, !.mode = Browse]

StopWaiting(u, m) == IF u.waiting # m THEN u ELSE [u EXCEPT !.waiting = None, !.busy = Unless(@, m)]

\* m is out of the seal, the busy mark and the wait.
Clear(u, m) ==
    [u EXCEPT !.sealed = IF @.ref = m THEN NoSeal ELSE @, !.busy = Unless(@, m), !.waiting = Unless(@, m),
              !.mode = Browse]

Restore(u, m) == [Clear(u, m) EXCEPT !.done[m] = "no", !.selected = m]

Unseal(u, m) == IF u.sealed.ref # m THEN u ELSE [u EXCEPT !.sealed = NoSeal, !.busy = None, !.mode = u.sealed.restore]

Settled(u, m) == [u EXCEPT !.busy = Unless(@, m)]

Decided(u, m, outcome, order) ==
    [Clear(u, m) EXCEPT !.done[m] = outcome,
                        !.selected = IF @ \in {m, None} THEN nextAfter(order, m) ELSE @]

Editing(u, m, base) ==
    IF u.busy # None THEN u
    ELSE [u EXCEPT !.selected = m, !.mode = [kind |-> "editing", ref |-> m, base |-> base, theirs |-> 0]]

Clash(u, m, theirs) ==
    LET from == IF u.sealed.ref = m THEN u.sealed.restore ELSE u.mode
    IN  IF from.kind # "editing" THEN u
        ELSE [u EXCEPT !.sealed = NoSeal, !.busy = None, !.mode = [from EXCEPT !.kind = "clash", !.theirs = theirs]]

-----------------------------------------------------------------------------
(* What the person sees.                                                   *)

Visible == {m \in Memories : queue[m] # NoRow /\ ui.done[m] = "no"}

Current == IF ui.selected \in Visible THEN ui.selected ELSE FirstOf(Visible)

\* The card's buttons, which its own command disables.
Pressable(m) == m # None /\ m = Current /\ ui.busy # m /\ ui.sealed.ref # m

\* The restored queue: the card where it sat, with its row as it was.
withRestored(rows, m, row) == [rows EXCEPT ![m] = row]

patchItem(m, row) == [queue EXCEPT ![m] = IF @ = NoRow THEN @ ELSE row]

\* The server's rows that wait for a person.
Proposed == [m \in Memories |-> IF srv[m].life = "proposed"
                                THEN [version |-> srv[m].version, conflict |-> srv[m].conflict] ELSE NoRow]

-----------------------------------------------------------------------------
(* Commands.  A run's `pc' is the await it is at: its request (asked), the *)
(* answer (answered), Retry-After (pausing), the newest words of a clash   *)
(* (latest), or the seal's 600 ms (sealing).                               *)

Ended == [pc |-> "ended"]
Running == {i \in DOMAIN runs : runs[i] # Ended}

intentOf(kind, m, version) == [kind |-> kind, m |-> m, version |-> version]

\* mutant: every request has a key of its own
FreshKey(i) == [intent |-> runs[i].intent, gen |-> <<i, runs[i].asks>>]

\* IntentKeys.keyFor: the same key until the intent settles.
keyFor(i) == [intent |-> runs[i].intent, gen |-> Cardinality({s \in settled : s.intent = runs[i].intent})]

settle(intent) == settled \cup {[intent |-> intent, gen |-> Cardinality({s \in settled : s.intent = intent})]}

Answer(kind) == [kind |-> kind, receipt |-> 0, version |-> 0, pending |-> FALSE]

Run(kind, m, row, version) ==
    [kind |-> kind, m |-> m, row |-> row, intent |-> intentOf(kind, m, version), pc |-> "asked",
     answer |-> Answer("none"), asks |-> 1, waited |-> FALSE, aborted |-> FALSE, entry |-> 0, order |-> Visible]

\* The command again, as its toast holds it.
Again(r) == [Run(r.kind, r.m, r.row, r.intent.version) EXCEPT !.order = {}]

\* A command of this intent is on its way.
Sending(intent) == \E i \in Running : runs[i].intent = intent

\* keep, keepOver, reject and submitEdit, up to their first await.
Starts(r) ==
    /\ Len(runs) < MaxPresses
    /\ runs' = Append(runs, r)
    /\ busyRef' = r.m
    /\ ui' = IF r.kind = "reject" THEN [ui EXCEPT !.busy = r.m] ELSE Seal(ui, r.m)
    /\ waitFor' = IF r.kind = "keep" THEN Len(runs) + 1 ELSE waitFor
    /\ hurried' = [seal |-> hurried.seal \/ (r.kind = "edit" /\ ui.mode.kind # "editing"),
                   twice |-> hurried.twice \/ Sending(r.intent)]
    /\ UNCHANGED <<srv, log, claims, queue, fetch, settled, stack, left>>

KindOf(row) == IF row.conflict THEN "resolve" ELSE "keep"

Keep(m) ==
    /\ Pressable(m) /\ ui.mode.ref # m /\ busyRef = None
    /\ Starts(Run(KindOf(queue[m]), m, queue[m], queue[m].version))
    /\ UNCHANGED retries

Reject(m) ==
    /\ Pressable(m) /\ ui.mode.ref # m /\ busyRef = None
    /\ Starts(Run("reject", m, queue[m], queue[m].version))
    /\ UNCHANGED retries

\* E, on a proposal that is not in conflict
Edit(m) ==
    /\ Pressable(m) /\ ui.mode = Browse /\ ui.busy = None /\ ui.sealed = NoSeal
    /\ ~queue[m].conflict
    /\ ui' = Editing(ui, m, queue[m].version)
    /\ UNCHANGED <<srv, log, claims, queue, fetch, runs, busyRef, waitFor, settled, stack, retries, left, hurried>>

SubmitEdit(m) ==
    /\ Pressable(m) /\ ui.mode.kind = "editing" /\ ui.mode.ref = m /\ busyRef = None
    /\ Starts(Run("edit", m, queue[m], ui.mode.base))
    /\ UNCHANGED retries

Editor(mode) == [mode EXCEPT !.kind = "editing", !.base = mode.theirs, !.theirs = 0]

\* Combine, and Keep theirs; Keep mine is Combine and the submit after it.
Combine ==
    /\ ui.mode.kind = "clash"
    /\ ui' = [ui EXCEPT !.mode = Editor(@)]
    /\ UNCHANGED <<srv, log, claims, queue, fetch, runs, busyRef, waitFor, settled, stack, retries, left, hurried>>

KeepTheirs ==
    /\ ui.mode.kind \in {"clash", "editing"}
    /\ ui' = [ui EXCEPT !.mode = Browse]
    /\ fetch' = IF ui.mode.kind = "clash" THEN Asked ELSE fetch
    /\ UNCHANGED <<srv, log, claims, queue, runs, busyRef, waitFor, settled, stack, retries, left, hurried>>

\* A failure's toast: the same command again.  Only keepOver does not look at busy.
Retry(t) ==
    /\ t \in retries
    /\ t.kind = "resolve" \/ busyRef = None
    /\ retries' = retries \ {t}
    /\ Starts([t EXCEPT !.order = Visible])

-----------------------------------------------------------------------------
(* Moving away.  stopWaiting aborts the Keep whose controller waitFor is,  *)
(* whether it waits for the judge or not.                                  *)

Abort == IF waitFor \in Running THEN [runs EXCEPT ![waitFor].aborted = TRUE] ELSE runs

SelectRow(m) ==
    /\ m \in Visible
    /\ runs' = Abort
    /\ waitFor' = 0
    /\ ui' = LET stopped == IF waitFor # 0 THEN StopWaiting(ui, ui.waiting) ELSE ui
             IN  Select(stopped, m)
    /\ hurried' = [hurried EXCEPT !.seal = @ \/ (waitFor # 0 /\ ui.waiting = None)]
    /\ UNCHANGED <<srv, log, claims, queue, fetch, busyRef, settled, stack, retries, left>>

\* Esc
Escape ==
    /\ ui.waiting # None /\ waitFor # 0
    /\ runs' = Abort
    /\ waitFor' = 0
    /\ ui' = StopWaiting(ui, ui.waiting)
    /\ UNCHANGED <<srv, log, claims, queue, fetch, busyRef, settled, stack, retries, left, hurried>>

-----------------------------------------------------------------------------
(* The server.                                                             *)

Top(m) == LET vs == {srv[m].version} \cup {log[m][i].after : i \in DOMAIN log[m]}
          IN  CHOOSE v \in vs : \A w \in vs : w <= v

Writes(m, row) ==
    /\ srv' = [srv EXCEPT ![m] = row]
    /\ log' = [log EXCEPT ![m] = Append(@, [before |-> srv[m], after |-> row.version])]

\* The row a command leaves, and its answer when it is applied.
Apply(m, row, answer, key) ==
    /\ Writes(m, row)
    /\ claims' = claims \cup {[key |-> key, answer |-> [answer EXCEPT !.receipt = Len(log[m]) + 1]]}

\* mutant: the answer has no version
NewWordsUnnumbered(m, by, life, judged) ==
    [srv[m] EXCEPT !.version = 0, !.by = by, !.life = life, !.judged = judged, !.conflict = FALSE]

NewWords(m, by, life, judged) ==
    [srv[m] EXCEPT !.version = Top(m) + 1, !.by = by, !.life = life, !.judged = judged, !.conflict = FALSE]

Refusal(r) ==
    LET row == srv[r.m]
    IN  IF r.intent.version # row.version THEN "clash"
        ELSE IF r.kind \in {"keep", "edit"} /\ row.life = "proposed" /\ row.conflict THEN "in-conflict"
        ELSE IF r.kind = "keep" /\ row.life = "proposed" /\ ~row.judged THEN "busy"
        ELSE IF \/ r.kind # "edit" /\ row.life # "proposed"
                \/ r.kind = "edit" /\ row.life = "rejected"
                \/ r.kind = "resolve" /\ ~row.conflict THEN "decided"
        ELSE "no"

Outcome(r) ==
    LET row == srv[r.m]
        answer == Answer("ok")
    IN  CASE r.kind \in {"keep", "resolve"} -> {<<[row EXCEPT !.life = "kept", !.conflict = FALSE], answer>>}
          [] r.kind = "reject" -> {<<[row EXCEPT !.life = "rejected", !.conflict = FALSE], answer>>}
          [] r.kind = "edit" /\ row.life = "kept" -> {<<NewWords(r.m, "you", "kept", TRUE), answer>>}
          \* words that touch a decision in force are saved for the judge, others kept
          [] OTHER -> {<<NewWords(r.m, "you", "kept", TRUE), answer>>,
                       <<NewWords(r.m, "you", "proposed", FALSE),
                         [answer EXCEPT !.pending = TRUE, !.version = Top(r.m) + 1]>>}

Answers(i, answer) == runs' = [runs EXCEPT ![i].pc = "answered", ![i].answer = answer]

Serve(i) ==
    /\ i \in Running /\ runs[i].pc = "asked"
    /\ \/ \E c \in claims : c.key = keyFor(i) /\ Answers(i, c.answer) /\ UNCHANGED <<srv, log, claims>>
       \/ /\ \A c \in claims : c.key # keyFor(i)
          /\ IF Refusal(runs[i]) # "no"
             THEN Answers(i, Answer(Refusal(runs[i]))) /\ UNCHANGED <<srv, log, claims>>
             ELSE \E o \in Outcome(runs[i]) :
                     /\ Apply(runs[i].m, o[1], o[2], keyFor(i))
                     /\ Answers(i, [o[2] EXCEPT !.receipt = Len(log[runs[i].m]) + 1])
    /\ UNCHANGED <<ui, queue, fetch, busyRef, waitFor, settled, stack, retries, left, hurried>>

\* A request, or its answer, is lost; or another change holds the memory.
Fault(i) ==
    /\ i \in Running /\ left.trouble > 0
    /\ \/ runs[i].pc \in {"asked", "answered"} /\ Answers(i, Answer("unreachable"))
       \/ runs[i].pc = "asked" /\ runs[i].kind = "keep" /\ Answers(i, Answer("held"))
    /\ left' = [left EXCEPT !.trouble = @ - 1]
    /\ UNCHANGED <<srv, log, claims, ui, queue, fetch, busyRef, waitFor, settled, stack, retries, hurried>>

\* The judge looks, or its 30 s of grace pass.
Judge(m) ==
    /\ srv[m].life = "proposed" /\ ~srv[m].judged
    /\ \E conflict \in BOOLEAN : srv' = [srv EXCEPT ![m].judged = TRUE, ![m].conflict = conflict]
    /\ UNCHANGED <<log, claims, ui, queue, fetch, runs, busyRef, waitFor, settled, stack, retries, left, hurried>>

\* Somebody else, or another tab, decides or edits it, or ends its conflict from
\* the other side.
Elsewhere(m) ==
    /\ srv[m].life = "proposed" /\ left.trouble > 0
    /\ \E row \in {[srv[m] EXCEPT !.life = "kept", !.conflict = FALSE],
                   [srv[m] EXCEPT !.life = "rejected", !.conflict = FALSE],
                   NewWords(m, "other", "proposed", TRUE),
                   [srv[m] EXCEPT !.conflict = FALSE]} :
          row # srv[m] /\ Writes(m, row)
    /\ left' = [left EXCEPT !.trouble = @ - 1]
    /\ UNCHANGED <<claims, ui, queue, fetch, runs, busyRef, waitFor, settled, stack, retries, hurried>>

\* The queue is read again (afterDecision, the judge's poll), and answered.
Refetch ==
    /\ fetch = Asked
    /\ fetch' = [Asked EXCEPT !.state = "answered", !.rows = Proposed]
    /\ UNCHANGED <<srv, log, claims, ui, queue, runs, busyRef, waitFor, settled, stack, retries, left, hurried>>

Fetched ==
    /\ fetch.state = "answered"
    /\ queue' = fetch.rows
    /\ fetch' = Idle
    /\ UNCHANGED <<srv, log, claims, ui, runs, busyRef, waitFor, settled, stack, retries, left, hurried>>

-----------------------------------------------------------------------------
(* A command's answer.                                                     *)

\* `finally': nothing is busy, and the wait is this command's no more.
Finish(i) ==
    /\ runs' = [runs EXCEPT ![i] = Ended]
    /\ busyRef' = None
    /\ waitFor' = IF waitFor = i THEN 0 ELSE waitFor

NoQueue == [m \in Memories |-> NoRow]

\* The entry remembers the row the command was pressed on.
Entry(r) == [receipt |-> r.answer.receipt, row |-> r.row, status |-> "done", pc |-> "idle",
             previous |-> NoQueue, landed |-> FALSE, answer |-> "none"]

Handles(i, kind) == i \in Running /\ runs[i].pc = "answered" /\ runs[i].answer.kind = kind

\* Keep and the others, applied: the decision goes on the undo stack.
Applied(i) ==
    LET r == runs[i]
    IN  /\ Handles(i, "ok") /\ ~r.answer.pending
        /\ settled' = settle(r.intent)
        /\ stack' = [stack EXCEPT ![r.m] = Append(@, Entry(r))]
        /\ CASE r.kind = "reject" -> ui' = Decided(ui, r.m, "rejected", r.order) /\ fetch' = Asked /\ Finish(i)
             [] r.kind # "reject" /\ r.aborted -> ui' = Decided(ui, r.m, "kept", r.order) /\ fetch' = Asked /\ Finish(i)
             [] OTHER -> /\ ui' = IF r.waited THEN Seal(ui, r.m) ELSE ui
                         /\ runs' = [runs EXCEPT ![i].pc = "sealing", ![i].entry = Len(stack[r.m]) + 1]
                         /\ UNCHANGED <<fetch, busyRef, waitFor>>
        /\ UNCHANGED <<srv, log, claims, queue, retries, left, hurried>>

\* An edit saved for the judge: the Keep of the saved words follows at once.
SavedForJudge(i) ==
    LET r == runs[i]
        saved == [version |-> r.answer.version, conflict |-> FALSE]
    IN  /\ Handles(i, "ok") /\ r.answer.pending
        /\ settled' = settle(r.intent)
        /\ stack' = [stack EXCEPT ![r.m] = Append(@, Entry(r))]
        /\ queue' = patchItem(r.m, saved)
        /\ ui' = Waiting(ui, r.m)
        /\ runs' = [runs EXCEPT ![i] = [Run("keep", r.m, saved, saved.version) EXCEPT !.waited = TRUE]]
        /\ busyRef' = r.m
        /\ waitFor' = i
        /\ hurried' = [hurried EXCEPT !.twice = @ \/ Sending(intentOf("keep", r.m, saved.version))]
        /\ UNCHANGED <<srv, log, claims, fetch, retries, left>>

\* mutant: the seal's end takes the card out, undone or not
AdvanceAnyway(i) ==
    /\ i \in Running /\ runs[i].pc = "sealing"
    /\ ui' = Decided(ui, runs[i].m, "kept", runs[i].order) /\ fetch' = Asked
    /\ Finish(i)
    /\ UNCHANGED <<srv, log, claims, queue, settled, stack, retries, left, hurried>>

\* The seal's time is up: the next card, unless the decision was undone under it.
Advance(i) ==
    /\ i \in Running /\ runs[i].pc = "sealing"
    /\ IF stack[runs[i].m][runs[i].entry].status = "done"
       THEN ui' = Decided(ui, runs[i].m, "kept", runs[i].order) /\ fetch' = Asked
       ELSE UNCHANGED <<ui, fetch>>
    /\ Finish(i)
    /\ UNCHANGED <<srv, log, claims, queue, settled, stack, retries, left, hurried>>

\* 503: the judge has not looked (busy), or another change holds the memory (held).
Busy(i) ==
    LET r == runs[i]
        judge == r.answer.kind = "busy"
    IN  /\ (Handles(i, "busy") \/ Handles(i, "held")) /\ r.kind = "keep" /\ r.asks <= MaxAsks
        /\ IF r.aborted THEN Finish(i) /\ UNCHANGED ui
           ELSE /\ ui' = IF judge /\ ~r.waited THEN Waiting(ui, r.m) ELSE ui
                /\ runs' = [runs EXCEPT ![i].pc = "pausing", ![i].waited = @ \/ judge]
                /\ UNCHANGED <<busyRef, waitFor>>
        /\ UNCHANGED <<srv, log, claims, queue, fetch, settled, stack, retries, left, hurried>>

\* Retry-After has passed, or the wait was aborted.
Resume(i) ==
    LET r == runs[i]
    IN  /\ i \in Running /\ r.pc = "pausing"
        /\ IF r.aborted THEN Finish(i)
           ELSE runs' = [runs EXCEPT ![i].pc = "asked", ![i].asks = @ + 1] /\ UNCHANGED <<busyRef, waitFor>>
        /\ UNCHANGED <<srv, log, claims, ui, queue, fetch, settled, stack, retries, left, hurried>>

Retryable(kind) == kind \in {"unreachable", "busy", "held"}

\* mutant: a Keep that fails while it waits keeps its working mark
RolledBackSeal(r) == IF r.kind = "reject" THEN Settled(ui, r.m) ELSE Unseal(ui, r.m)

\* What a failure undoes of the press: the seal, the wait, or the busy mark.
RolledBack(r) == IF r.kind = "reject" THEN Settled(ui, r.m) ELSE StopWaiting(Unseal(ui, r.m), r.m)

\* The catch of every command, but for an edit's clash.
Failed(i) ==
    LET r == runs[i]
        kind == r.answer.kind
    IN  /\ i \in Running /\ r.pc = "answered" /\ kind # "ok"
        /\ kind \in {"busy", "held"} => r.asks > MaxAsks
        /\ r.kind = "edit" => kind # "clash"
        /\ settled' = IF Retryable(kind) THEN settled ELSE settle(r.intent)
        /\ ui' = IF kind = "decided" THEN Decided(RolledBack(r), r.m, "gone", r.order) ELSE RolledBack(r)
        /\ queue' = IF kind = "in-conflict" /\ r.kind = "keep" THEN patchItem(r.m, [r.row EXCEPT !.conflict = TRUE]) ELSE queue
        /\ fetch' = IF kind \in {"decided", "clash"} \/ (kind = "in-conflict" /\ r.kind = "keep") THEN Asked ELSE fetch
        /\ retries' = IF Retryable(kind) THEN retries \cup {Again(r)} ELSE retries
        /\ Finish(i)
        /\ UNCHANGED <<srv, log, claims, stack, left, hurried>>

\* An edit that met newer words reads them, and shows both.
Clashed(i) ==
    LET r == runs[i]
    IN  /\ Handles(i, "clash") /\ r.kind = "edit"
        /\ settled' = settle(r.intent)
        /\ ui' = Clash(ui, r.m, srv[r.m].version)
        /\ Finish(i)
        /\ UNCHANGED <<srv, log, claims, queue, fetch, stack, retries, left, hurried>>

-----------------------------------------------------------------------------
(* Undo (undo.tsx run).                                                    *)

\* The toast's Undo, or Cmd-Z: the card is back at once, and a wait is over.
Undo(m, e) ==
    LET x == stack[m][e]
    IN  /\ e \in DOMAIN stack[m] /\ x.status = "done" /\ left.undos > 0
        /\ stack' = [stack EXCEPT ![m][e].status = "undoing", ![m][e].pc = "asked", ![m][e].previous = queue]
        /\ queue' = withRestored(queue, m, x.row)
        /\ fetch' = Idle
        /\ runs' = Abort
        /\ waitFor' = 0
        /\ ui' = Restore(ui, m)
        /\ left' = [left EXCEPT !.undos = @ - 1]
        /\ hurried' = [hurried EXCEPT !.seal = @ \/ (waitFor # 0 /\ runs[waitFor].m # m)]
        /\ UNCHANGED <<srv, log, claims, busyRef, settled, retries>>

\* The server undoes a command nothing has followed; its key is the entry's.
UndoServe(m, e) ==
    LET x == stack[m][e]
    IN  /\ e \in DOMAIN stack[m] /\ x.pc = "asked"
        /\ \/ /\ x.landed /\ stack' = [stack EXCEPT ![m][e].pc = "answered", ![m][e].answer = "ok"]
              /\ UNCHANGED <<srv, log>>
           \/ /\ ~x.landed /\ Len(log[m]) = x.receipt
              /\ Writes(m, log[m][x.receipt].before)
              /\ stack' = [stack EXCEPT ![m][e].pc = "answered", ![m][e].answer = "ok", ![m][e].landed = TRUE]
           \/ /\ ~x.landed /\ Len(log[m]) # x.receipt
              /\ stack' = [stack EXCEPT ![m][e].pc = "answered", ![m][e].answer = "refused"]
              /\ UNCHANGED <<srv, log>>
    /\ UNCHANGED <<claims, ui, queue, fetch, runs, busyRef, waitFor, settled, retries, left, hurried>>

UndoFault(m, e) ==
    /\ e \in DOMAIN stack[m] /\ stack[m][e].pc \in {"asked", "answered"} /\ left.trouble > 0
    /\ stack' = [stack EXCEPT ![m][e].pc = "answered", ![m][e].answer = "unreachable"]
    /\ left' = [left EXCEPT !.trouble = @ - 1]
    /\ UNCHANGED <<srv, log, claims, ui, queue, fetch, runs, busyRef, waitFor, settled, retries, hurried>>

\* Undone; or the card goes out again, and the entry with it unless it may be tried again.
UndoEnds(m, e) ==
    LET x == stack[m][e]
    IN  /\ e \in DOMAIN stack[m] /\ x.pc = "answered"
        /\ IF x.answer = "ok" THEN UNCHANGED <<queue, ui>>
           ELSE queue' = x.previous /\ ui' = Decided(ui, m, "gone", Visible)
        /\ stack' = [stack EXCEPT ![m][e].pc = "idle", ![m][e].previous = NoQueue,
                        ![m][e].status = CASE x.answer = "ok" -> "undone"
                                        [] x.answer = "unreachable" -> "done"
                                        [] OTHER -> "dropped"]
        /\ fetch' = Asked
        /\ UNCHANGED <<srv, log, claims, runs, busyRef, waitFor, settled, retries, left, hurried>>

-----------------------------------------------------------------------------
Init ==
    /\ srv = [m \in Memories |-> [life |-> "proposed", version |-> 1, conflict |-> FALSE, judged |-> m \notin Unjudged,
                                  by |-> "agent"]]
    /\ log = [m \in Memories |-> <<>>]
    /\ claims = {}
    /\ ui = [selected |-> None, done |-> [m \in Memories |-> "no"], sealed |-> NoSeal, busy |-> None,
             waiting |-> None, mode |-> Browse]
    /\ queue = [m \in Memories |-> [version |-> 1, conflict |-> FALSE]]
    /\ fetch = Idle
    /\ runs = <<>>
    /\ busyRef = None
    /\ waitFor = 0
    /\ settled = {}
    /\ stack = [m \in Memories |-> <<>>]
    /\ retries = {}
    /\ left = [trouble |-> MaxTrouble, undos |-> MaxUndos]
    /\ hurried = [seal |-> FALSE, twice |-> FALSE]

Person ==
    \/ \E m \in Memories :
          \/ <<"keep", m>> \in Gestures /\ Keep(m)
          \/ <<"reject", m>> \in Gestures /\ Reject(m)
          \/ <<"edit", m>> \in Gestures /\ (Edit(m) \/ SubmitEdit(m))
          \/ <<"row", m>> \in Gestures /\ SelectRow(m)
    \/ Combine \/ KeepTheirs \/ Escape
    \/ \E t \in retries : Retry(t)
    \/ \E m \in Memories, e \in 1..MaxPresses : <<"undo", m>> \in Gestures /\ Undo(m, e)

Network(i) == Serve(i) \/ Applied(i) \/ SavedForJudge(i) \/ Advance(i) \/ Busy(i) \/ Resume(i) \/ Failed(i) \/ Clashed(i)

UndoStep(m, e) == UndoServe(m, e) \/ UndoEnds(m, e)

Next ==
    \/ Person
    \/ \E i \in DOMAIN runs : Network(i) \/ Fault(i)
    \/ \E m \in Memories, e \in 1..MaxPresses : UndoStep(m, e) \/ UndoFault(m, e)
    \/ \E m \in Memories : Judge(m) \/ Elsewhere(m)
    \/ Refetch
    \/ Fetched

Spec == Init /\ [][Next]_vars

-----------------------------------------------------------------------------
(* Properties.                                                             *)

Refs == Memories \cup {None}

Commanded(m) == \E i \in Running : runs[i].m = m

\* Types.
TypeOK ==
    /\ srv \in [Memories -> [life : {"proposed", "kept", "rejected"}, version : Nat \ {0}, conflict : BOOLEAN,
                              judged : BOOLEAN, by : {"agent", "you", "other"}]]
    /\ ui.selected \in Refs /\ ui.busy \in Refs /\ ui.waiting \in Refs /\ ui.sealed.ref \in Refs
    /\ ui.done \in [Memories -> {"no", "kept", "rejected", "gone"}]
    /\ ui.mode.kind \in {"browse", "editing", "clash"} /\ ui.mode.ref \in Refs
    /\ queue \in [Memories -> [version : Nat, conflict : BOOLEAN]]
    /\ busyRef \in Refs /\ waitFor \in 0..Len(runs)
    /\ \A s \in settled : s.intent.m \in Memories /\ s.gen \in Nat
    /\ \A m \in Memories : \A e \in DOMAIN stack[m] : stack[m][e].status \in {"done", "undoing", "undone", "dropped"}

Marked == {ui.sealed.ref, ui.busy, ui.waiting} \ {None}

\* "The card wears the seal while the command is in flight" (review-state.ts):
\* no card is sealed, busy or waiting without a command for it.
SealHasCommand == \A m \in Marked : Commanded(m)

\* The same, as long as nobody leaves a Keep that is still under its seal or
\* tries an edit again after closing it: what failures, undos, retries and Esc
\* leave behind is nothing.
MarksEnd == ~hurried.seal => SealHasCommand

\* "`gone`: decided elsewhere, or no longer there" (review-state.ts): a card
\* this visit took out of the queue is decided, unless an undo is on its way.
HiddenIsDecided ==
    \A m \in Memories : ui.done[m] # "no" /\ (\A e \in DOMAIN stack[m] : stack[m][e].pc = "idle")
                          => srv[m].life # "proposed"

\* Each answer of the server is on the undo stack once: no command's answer
\* came twice to this tab.
AnsweredOnce(m) ==
    \A d, e \in DOMAIN stack[m] : stack[m][d].receipt = stack[m][e].receipt => d = e

UndoneAndTold(m) ==
    \A e \in DOMAIN stack[m] : stack[m][e].pc = "idle" /\ (stack[m][e].landed => stack[m][e].status = "undone")

\* A card that left as kept, or as rejected, is that on the server, unless an
\* undo of it is on its way, or landed and its answer was lost; or one
\* command was sent twice at once (by its toast and by another press), which
\* its key answers twice, and its undo came between.
OutcomeHolds ==
    \A m \in Memories :
        ui.done[m] \in {"kept", "rejected"} /\ UndoneAndTold(m) /\ AnsweredOnce(m) => srv[m].life = ui.done[m]

\* The same without the last exception.
OutcomeAlwaysHolds ==
    \A m \in Memories : ui.done[m] \in {"kept", "rejected"} /\ UndoneAndTold(m) => srv[m].life = ui.done[m]

\* An edit never clashes with itself: words of this very edit that landed
\* without the tab being told are answered by its key, not by a clash.  It may
\* once a command was sent twice at once: the clash one of them meets gives up
\* the key the other landed with.
NoSelfClash ==
    [][\A i \in DOMAIN runs : ~hurried.twice /\ Clashed(i) =>
          \A c \in claims : c.key.intent = runs[i].intent
              => \E e \in DOMAIN stack[runs[i].m] : stack[runs[i].m][e].receipt = c.answer.receipt]_vars
=============================================================================

---------------------------- MODULE ReviewProofs ----------------------------
(***************************************************************************)
(* What holds of Review for every queue, every number of presses, undos    *)
(* and failures, and every order of answers: its types, that no card keeps *)
(* a mark no command will take off it, that a card which left the queue is *)
(* decided as it left, and that an edit does not clash with itself.        *)
(***************************************************************************)
EXTENDS Review, SequenceTheorems, FiniteSetTheorems, WellFoundedInduction, TLAPS

-----------------------------------------------------------------------------
\* Types

Kinds == {"keep", "resolve", "reject", "edit"}
Decisions == {"kept", "rejected"}

Rows == [version : Nat, conflict : BOOLEAN]
Records == [life : {"proposed", "kept", "rejected"}, version : Nat \ {0}, conflict : BOOLEAN, judged : BOOLEAN,
            by : {"agent", "you", "other"}]
Changes == [before : Records, after : Nat \ {0}]
Modes == [kind : {"browse", "editing", "clash"}, ref : Refs, base : Nat, theirs : Nat]
Screens == [selected : Refs, done : [Memories -> {"no", "kept", "rejected", "gone"}],
            sealed : [ref : Refs, restore : Modes], busy : Refs, waiting : Refs, mode : Modes]
Intents == [kind : Kinds, m : Memories, version : Nat]
Keys == [intent : Intents, gen : Nat]
Replies == [kind : {"none", "ok", "clash", "in-conflict", "busy", "decided", "unreachable", "held"},
            receipt : Nat, version : Nat, pending : BOOLEAN]
Places == {"asked", "answered", "pausing", "sealing"}
Commands == [kind : Kinds, m : Memories, row : Rows, intent : Intents, pc : Places, answer : Replies, asks : Nat,
             waited : BOOLEAN, aborted : BOOLEAN, entry : Nat, order : SUBSET Memories]
Entries == [receipt : Nat, row : Rows, status : {"done", "undoing", "undone", "dropped"},
            pc : {"idle", "asked", "answered"}, previous : [Memories -> Rows], landed : BOOLEAN,
            answer : {"none", "ok", "refused", "unreachable"}]

\* There is a version no row of m has reached.
Bounded(m) == \E n \in Nat : srv[m].version <= n /\ \A i \in DOMAIN log[m] : log[m][i].after <= n

\* The server's part, the screen's, and the commands'.
ServerTyped ==
    /\ srv \in [Memories -> Records]
    /\ log \in [Memories -> Seq(Changes)]
    /\ \A m \in Memories : Bounded(m)
    /\ claims \subseteq [key : Keys, answer : Replies]

ScreenTyped ==
    /\ ui \in Screens
    /\ queue \in [Memories -> Rows]
    /\ fetch \in [state : {"idle", "asked", "answered"}, rows : [Memories -> Rows]]
    /\ stack \in [Memories -> Seq(Entries)]

CommandsTyped ==
    /\ runs \in Seq(Commands \cup {Ended})
    /\ busyRef \in Refs
    /\ waitFor \in Nat
    /\ waitFor # 0 => waitFor \in Running
    /\ retries \subseteq Commands
    /\ left \in [trouble : Nat, undos : Nat]
    /\ hurried \in [seal : BOOLEAN, twice : BOOLEAN]
    /\ settled \in SUBSET Keys /\ IsFiniteSet(settled)

Typed == ServerTyped /\ ScreenTyped /\ CommandsTyped

\* A command knows the intent it was pressed with.
OfIntent(r) == r.intent.kind = r.kind /\ r.intent.m = r.m

\* A command that is to be sent.
Unsent(r) == r.pc = "asked" /\ ~r.aborted

\* What the other invariants rest on: intents, and which entries are being undone.
Ordered ==
    /\ \A i \in Running : OfIntent(runs[i])
    /\ \A t \in retries : OfIntent(t) /\ Unsent(t)
    /\ \A m \in Memories : \A e \in DOMAIN stack[m] : stack[m][e].pc # "idle" => stack[m][e].status = "undoing"
    /\ waitFor # 0 => runs[waitFor].kind = "keep"

-----------------------------------------------------------------------------
\* Marks: every mark has a command that takes it off

\* i will take the marks off m when it ends.
Minds(i, m) ==
    /\ i \in Running /\ runs[i].m = m /\ ~runs[i].aborted
    /\ runs[i].pc = "sealing" => stack[m][runs[i].entry].status = "done"

\* The cards with a command that unseals them when it fails, or advances; with
\* an edit's, which unseals its card to go back to its editor; with a Keep's; and
\* with a Reject's.
SealHolders == {m \in Memories : \E i \in DOMAIN runs : /\ Minds(i, m)
                                                        /\ runs[i].kind \in {"keep", "resolve"} \/ runs[i].pc = "sealing"}
EditHolders == {m \in Memories : \E i \in DOMAIN runs : Minds(i, m) /\ runs[i].kind = "edit"}
WaitHolders == {m \in Memories : \E i \in DOMAIN runs : Minds(i, m) /\ runs[i].kind = "keep"}
BusyHolders == {m \in Memories : \E i \in DOMAIN runs : Minds(i, m) /\ runs[i].kind = "reject"}

\* The marks of a screen, when these sets hold them.
Sealed(u, S, E) ==
    u.sealed # NoSeal =>
        /\ u.mode.kind = "browse"
        /\ u.sealed.ref \in S \/ (u.sealed.ref \in E /\ u.sealed.restore.kind = "editing")

Waits(u, W) == u.waiting # None => u.sealed = NoSeal /\ u.waiting \in W

Busies(u, B) == u.busy \notin {None, u.sealed.ref, u.waiting} => u.busy \in B

Held(u, S, E, W, B) == Sealed(u, S, E) /\ Waits(u, W) /\ Busies(u, B)

MarksInv == hurried.seal \/ Held(ui, SealHolders, EditHolders, WaitHolders, BusyHolders)

-----------------------------------------------------------------------------
\* Outcomes: what the server did is what the screen says

\* The memory's life after its n-th command.
LifeAfter(m, n) == IF n < Len(log[m]) THEN log[m][n + 1].before.life ELSE srv[m].life

\* An answer that says a command was applied.
Given(m, kind, a) ==
    /\ a.receipt \in DOMAIN log[m]
    /\ ~a.pending => LifeAfter(m, a.receipt) = IF kind = "reject" THEN "rejected" ELSE "kept"

\* Its decision was undone.
Landed(m, n) == \E e \in DOMAIN stack[m] : stack[m][e].landed /\ stack[m][e].receipt = n

ClaimsGiven == \A c \in claims : c.answer.kind = "ok" /\ Given(c.key.intent.m, c.key.intent.kind, c.answer)

\* What i was told, and what it put on the stack.
GivenAt(i) ==
    /\ runs[i].pc = "answered" /\ runs[i].answer.kind = "ok" => Given(runs[i].m, runs[i].kind, runs[i].answer)
    /\ runs[i].pc = "sealing" =>
          /\ runs[i].entry \in DOMAIN stack[runs[i].m]
          /\ LifeAfter(runs[i].m, stack[runs[i].m][runs[i].entry].receipt) = "kept"

RunsGiven == \A i \in Running : GivenAt(i)

ReceiptsKnown == \A m \in Memories : \A e \in DOMAIN stack[m] : stack[m][e].receipt \in DOMAIN log[m]

\* A decision stands until it is undone.
DecisionsStand ==
    \A m \in Memories : \A n \in DOMAIN log[m] :
        LifeAfter(m, n) \in Decisions /\ ~Landed(m, n)
            => \A k \in DOMAIN log[m] : n <= k => LifeAfter(m, k) = LifeAfter(m, n)

\* A card that left has an entry that is not being undone, for what it left as.
LeftAsDecided ==
    \A m \in Memories : ui.done[m] \in Decisions =>
        \E e \in DOMAIN stack[m] : stack[m][e].status = "done" /\ LifeAfter(m, stack[m][e].receipt) = ui.done[m]

OutcomeInv == ClaimsGiven /\ RunsGiven /\ ReceiptsKnown /\ DecisionsStand /\ LeftAsDecided

-----------------------------------------------------------------------------
\* Keys: what the server did is told before its key is given up

\* No intent has two requests at once: no command was tried again by its toast
\* and pressed as well.
OnceAtATime == \A i, j \in Running : runs[i].intent = runs[j].intent => i = j

GensOf(intent) == {s \in settled : s.intent = intent}
Gen(intent) == Cardinality(GensOf(intent))

Told(c) == \E e \in DOMAIN stack[c.key.intent.m] : stack[c.key.intent.m][e].receipt = c.answer.receipt

GensInOrder == \A s \in settled : s.gen < Gen(s.intent)

ClaimsTold == \A c \in claims : c.key.gen < Gen(c.key.intent) => Told(c)
ClaimsNow == \A c \in claims : c.key.gen <= Gen(c.key.intent)
OneClaim == \A c, d \in claims : c.key = d.key => c = d

\* What the server did with the key an intent has now.
Now(intent) == {c \in claims : c.key.intent = intent /\ c.key.gen = Gen(intent)}

AnswersNow ==
    \A i \in Running : runs[i].pc = "answered" =>
        /\ runs[i].answer.kind # "ok" /\ ~Retryable(runs[i].answer.kind) => Now(runs[i].intent) = {}
        /\ runs[i].answer.kind = "ok" => \E c \in Now(runs[i].intent) : c.answer.receipt = runs[i].answer.receipt

KeysGood == OnceAtATime /\ GensInOrder /\ ClaimsTold /\ ClaimsNow /\ OneClaim /\ AnswersNow

KeysInv == hurried.twice \/ KeysGood

-----------------------------------------------------------------------------
\* The reducer keeps its types

LEMMA Outside == None \notin Memories /\ Memories \subseteq Refs /\ None \in Refs
BY ReviewAssumption DEF Memories, Refs

\* A set of numbers that is not empty has a least one.
LEMMA LeastOf ==
    ASSUME NEW S \in SUBSET Nat, S # {}
    PROVE  \E x \in S : \A y \in S : x <= y
<1> DEFINE R == OpToRel(<, Nat)
<1>1. IsWellFoundedOn(R, Nat)
  BY NatLessThanWellFounded
<1>2. \A x, y \in Nat : y < x => <<y, x>> \in R
  <2> TAKE x, y \in Nat
  <2> HAVE y < x
  <2>1. <<y, x>> \in Nat \X Nat /\ <<y, x>>[1] < <<y, x>>[2]
    OBVIOUS
  <2> QED
    BY <2>1 DEF OpToRel
<1> HIDE DEF R
<1>3. PICK x \in S : \A y \in S : ~(<<y, x>> \in R)
  BY <1>1, WFMin
<1>4. \A y \in S : x \in Nat /\ y \in Nat /\ ~(y < x)
  BY <1>2, <1>3
<1> QED
  BY <1>3, <1>4

LEMMA Placed == \A m \in Memories : Place(m) \in 1 .. Len(Order) /\ Order[Place(m)] = m
<1> TAKE m \in Memories
<1>1. PICK i \in DOMAIN Order : Order[i] = m
  BY DEF Memories
<1>2. Place(m) \in DOMAIN Order /\ Order[Place(m)] = m
  BY <1>1 DEF Place
<1>3. DOMAIN Order = 1 .. Len(Order)
  BY ReviewAssumption
<1> QED
  BY <1>2, <1>3

LEMMA EndsKnown == \A S \in SUBSET Memories : FirstOf(S) \in Refs /\ LastOf(S) \in Refs
<1> SUFFICES ASSUME NEW S \in SUBSET Memories, S # {}
             PROVE  FirstOf(S) \in Memories /\ LastOf(S) \in Memories
  BY DEF FirstOf, LastOf, Refs
<1>0. Len(Order) \in Nat
  BY ReviewAssumption, LenProperties
<1>1. PICK q \in S : TRUE
  OBVIOUS
<1> DEFINE P == {Place(m) : m \in S}
           Q == {Len(Order) - Place(m) : m \in S}
<1>2. P \in SUBSET Nat /\ P # {} /\ Q \in SUBSET Nat /\ Q # {}
  <2>1. \A m \in S : Place(m) \in Nat /\ Len(Order) - Place(m) \in Nat
    BY Placed, <1>0
  <2> QED
    BY <2>1, <1>1
<1>3. \E m \in S : \A n \in S : Place(m) <= Place(n)
  <2>1. PICK x \in P : \A y \in P : x <= y
    BY <1>2, LeastOf
  <2> QED
    BY <2>1
<1>4. \E m \in S : \A n \in S : Place(m) >= Place(n)
  <2>1. PICK x \in Q : \A y \in Q : x <= y
    BY <1>2, LeastOf
  <2>2. PICK m \in S : x = Len(Order) - Place(m)
    BY <2>1
  <2>3. \A n \in S : Len(Order) - Place(m) <= Len(Order) - Place(n)
    BY <2>1, <2>2
  <2>4. \A n \in S : Place(n) \in Nat /\ Place(m) \in Nat
    BY Placed
  <2> QED
    BY <2>3, <2>4, <1>0
<1> QED
  BY <1>3, <1>4 DEF FirstOf, LastOf

LEMMA NextKnown == \A order \in SUBSET Memories, m \in Memories : nextAfter(order, m) \in Refs
<1> TAKE order \in SUBSET Memories, m \in Memories
<1> DEFINE later == {n \in order : Place(n) > Place(m)}
<1>1. later \in SUBSET Memories /\ order \ {m} \in SUBSET Memories
  OBVIOUS
<1>2. FirstOf(order) \in Refs /\ FirstOf(later) \in Refs /\ LastOf(order \ {m}) \in Refs
  BY <1>1, EndsKnown
<1> QED
  BY <1>2 DEF nextAfter

\* What a step of the reducer makes of a screen is a screen.
LEMMA ScreensKept ==
    ASSUME NEW u \in Screens, NEW m \in Memories, NEW n \in Nat, NEW order \in SUBSET Memories,
           NEW outcome \in {"kept", "rejected", "gone"}
    PROVE  /\ Select(u, m) \in Screens /\ Seal(u, m) \in Screens /\ Waiting(u, m) \in Screens
           /\ Clear(u, m) \in Screens /\ Restore(u, m) \in Screens /\ Unseal(u, m) \in Screens
           /\ Settled(u, m) \in Screens /\ Decided(u, m, outcome, order) \in Screens
           /\ Editing(u, m, n) \in Screens /\ Clash(u, m, n) \in Screens
           /\ \A w \in Refs : StopWaiting(u, w) \in Screens
<1>a. Browse \in Modes /\ NoSeal \in [ref : Refs, restore : Modes] /\ m \in Refs /\ None \in Refs
  BY Outside DEF Browse, Modes, NoSeal
<1>b. /\ u.selected \in Refs /\ u.busy \in Refs /\ u.waiting \in Refs /\ u.mode \in Modes
      /\ u.sealed \in [ref : Refs, restore : Modes]
      /\ u.done \in [Memories -> {"no", "kept", "rejected", "gone"}]
  BY DEF Screens
<1>c. \A w, x \in Refs : Unless(x, w) \in Refs
  BY <1>a DEF Unless
<1>1. Select(u, m) \in Screens
  BY <1>a, <1>b, <1>c DEF Select, Screens
<1>2. Seal(u, m) \in Screens
  <2> DEFINE r == IF u.sealed.ref = m THEN u.sealed.restore ELSE u.mode
             s == [ref |-> m, restore |-> r]
  <2>1. r \in Modes
    BY <1>b
  <2>2. s \in [ref : Refs, restore : Modes]
    BY <2>1, <1>a
  <2>3. Seal(u, m) = [u EXCEPT !.selected = m, !.busy = m, !.waiting = None, !.mode = Browse, !.sealed = s]
    BY DEF Seal, Screens
  <2> HIDE DEF s
  <2> QED
    BY <2>2, <2>3, <1>a DEF Screens
<1>3. Waiting(u, m) \in Screens
  BY <1>a, <1>b DEF Waiting, Screens
<1>4. Clear(u, m) \in Screens
  BY <1>a, <1>b, <1>c DEF Clear, Screens
<1>5. Restore(u, m) \in Screens
  <2> DEFINE v == Clear(u, m)
  <2> HIDE DEF v
  <2>1. v \in Screens
    BY <1>4 DEF v
  <2>2. v.done \in [Memories -> {"no", "kept", "rejected", "gone"}]
    BY <2>1 DEF Screens
  <2>3. [v.done EXCEPT ![m] = "no"] \in [Memories -> {"no", "kept", "rejected", "gone"}]
    BY <2>2
  <2>4. [v EXCEPT !.done[m] = "no", !.selected = m] \in Screens
    BY <2>1, <2>3, <1>a DEF Screens
  <2> QED
    BY <2>4 DEF Restore, v
<1>6. Unseal(u, m) \in Screens
  BY <1>a, <1>b DEF Unseal, Screens
<1>7. Settled(u, m) \in Screens
  BY <1>a, <1>b, <1>c DEF Settled, Screens
<1>8. Decided(u, m, outcome, order) \in Screens
  <2> DEFINE v == Clear(u, m)
             s == IF v.selected \in {m, None} THEN nextAfter(order, m) ELSE v.selected
  <2> HIDE DEF v
  <2>1. v \in Screens
    BY <1>4 DEF v
  <2>2. v.done \in [Memories -> {"no", "kept", "rejected", "gone"}] /\ v.selected \in Refs
    BY <2>1 DEF Screens
  <2>3. [v.done EXCEPT ![m] = outcome] \in [Memories -> {"no", "kept", "rejected", "gone"}]
    BY <2>2
  <2>4. s \in Refs
    BY <2>2, NextKnown
  <2>5. [v EXCEPT !.done[m] = outcome, !.selected = s] \in Screens
    <3> HIDE DEF s
    <3> QED
      BY <2>1, <2>3, <2>4 DEF Screens
  <2>6. Decided(u, m, outcome, order) = [v EXCEPT !.done[m] = outcome, !.selected = s]
    BY <2>1 DEF Decided, v, Screens
  <2> QED
    BY <2>5, <2>6
<1>9. Editing(u, m, n) \in Screens
  <2>1. [kind |-> "editing", ref |-> m, base |-> n, theirs |-> 0] \in Modes
    BY <1>a DEF Modes
  <2> QED
    BY <2>1, <1>a, <1>b DEF Editing, Screens
<1>10. Clash(u, m, n) \in Screens
  <2> DEFINE from == IF u.sealed.ref = m THEN u.sealed.restore ELSE u.mode
  <2>1. from \in Modes
    BY <1>b
  <2>2. [from EXCEPT !.kind = "clash", !.theirs = n] \in Modes
    <3> HIDE DEF from
    <3> QED
      BY <2>1 DEF Modes
  <2>3. [u EXCEPT !.sealed = NoSeal, !.busy = None, !.mode = [from EXCEPT !.kind = "clash", !.theirs = n]] \in Screens
    <3> HIDE DEF from
    <3> QED
      BY <2>2, <1>a DEF Screens
  <2> QED
    BY <2>3 DEF Clash
<1>11. \A w \in Refs : StopWaiting(u, w) \in Screens
  BY <1>a, <1>b, <1>c DEF StopWaiting, Screens
<1> QED
  BY <1>1, <1>2, <1>3, <1>4, <1>5, <1>6, <1>7, <1>8, <1>9, <1>10, <1>11

-----------------------------------------------------------------------------
\* The server keeps its types

\* A version that is no memory's yet.
LEMMA TopKnown == ServerTyped => \A m \in Memories : Top(m) \in Nat
<1> SUFFICES ASSUME ServerTyped, NEW m \in Memories PROVE Top(m) \in Nat
  OBVIOUS
<1> DEFINE vs == {srv[m].version} \cup {log[m][i].after : i \in DOMAIN log[m]}
           U == {u \in Nat : \A v \in vs : v <= u}
<1>1. vs \in SUBSET Nat /\ srv[m].version \in vs
  <2>1. srv[m].version \in Nat
    BY DEF ServerTyped, Records
  <2>2. \A i \in DOMAIN log[m] : log[m][i] \in Changes
    BY DEF ServerTyped
  <2> QED
    BY <2>1, <2>2 DEF Changes
<1>2. U \in SUBSET Nat /\ U # {}
  <2>1. PICK n \in Nat : srv[m].version <= n /\ \A i \in DOMAIN log[m] : log[m][i].after <= n
    BY DEF ServerTyped, Bounded
  <2>2. n \in U
    BY <2>1
  <2> QED
    BY <2>2
<1>3. PICK x \in U : \A y \in U : x <= y
  <2> HIDE DEF U
  <2> QED
    BY <1>2, LeastOf
<1>4. x \in vs
  <2> SUFFICES ASSUME x \notin vs PROVE FALSE
    OBVIOUS
  <2> HIDE DEF vs
  <2>1. x \in Nat /\ \A v \in vs : v <= x /\ v \in Nat /\ v # x
    BY <1>1, <1>3
  <2>2. x > 0
    <3>1. PICK v \in vs : TRUE
      BY <1>1
    <3>2. v <= x /\ v \in Nat /\ v # x
      BY <2>1
    <3> QED
      BY <2>1, <3>2
  <2>3. x - 1 \in U
    <3>1. x - 1 \in Nat
      BY <2>1, <2>2
    <3>2. \A v \in vs : v <= x - 1
      BY <2>1
    <3> QED
      BY <3>1, <3>2
  <2>4. x <= x - 1
    BY <2>3, <1>3
  <2> QED
    BY <2>1, <2>4
<1>5. \A w \in vs : w <= x
  BY <1>3
<1>6. Top(m) = CHOOSE v \in vs : \A w \in vs : w <= v
  BY DEF Top
<1> HIDE DEF vs
<1>7. Top(m) \in vs
  BY <1>4, <1>5, <1>6
<1> QED
  BY <1>1, <1>7

LEMMA NewWordsKnown ==
    ServerTyped => \A m \in Memories, by \in {"agent", "you", "other"}, life \in {"proposed", "kept", "rejected"},
                      judged \in BOOLEAN :
                   /\ NewWords(m, by, life, judged) \in Records
                   /\ NewWords(m, by, life, judged).life = life
                   /\ Top(m) + 1 \in Nat
<1> SUFFICES ASSUME ServerTyped, NEW m \in Memories, NEW by \in {"agent", "you", "other"},
                    NEW life \in {"proposed", "kept", "rejected"}, NEW judged \in BOOLEAN
             PROVE  /\ NewWords(m, by, life, judged) \in Records
                    /\ NewWords(m, by, life, judged).life = life
                    /\ Top(m) + 1 \in Nat
  OBVIOUS
<1>1. Top(m) + 1 \in Nat \ {0} /\ srv[m] \in Records
  BY TopKnown DEF ServerTyped
<1>2. NewWords(m, by, life, judged) =
         [srv[m] EXCEPT !.version = Top(m) + 1, !.by = by, !.life = life, !.judged = judged, !.conflict = FALSE]
  BY DEF NewWords
<1> DEFINE v == Top(m) + 1
<1>3. v \in Nat \ {0}
  BY <1>1
<1> HIDE DEF v
<1>4. [srv[m] EXCEPT !.version = v, !.by = by, !.life = life, !.judged = judged, !.conflict = FALSE] \in Records
  BY <1>1, <1>3 DEF Records
<1>5. [srv[m] EXCEPT !.version = v, !.by = by, !.life = life, !.judged = judged, !.conflict = FALSE].life = life
  BY <1>1 DEF Records
<1> QED
  BY <1>1, <1>2, <1>4, <1>5 DEF v

\* What an applied command leaves, and answers.
LEMMA OutcomesKnown ==
    ASSUME ServerTyped, NEW r \in Commands, NEW o \in Outcome(r)
    PROVE  /\ o[1] \in Records /\ o[2] \in Replies
           /\ o[2].kind = "ok"
           /\ ~o[2].pending => o[1].life = IF r.kind = "reject" THEN "rejected" ELSE "kept"
           /\ Refusal(r) = "no" /\ srv[r.m].life # "proposed" => o[1].life = srv[r.m].life
<1> DEFINE row == srv[r.m]
           answer == Answer("ok")
<1>1. r.m \in Memories /\ r.kind \in Kinds /\ row \in Records
  BY DEF Commands, ServerTyped
<1>2. /\ answer \in Replies /\ answer.kind = "ok"
      /\ answer.pending = FALSE
  BY DEF Answer, Replies
<1>3. \A life \in {"proposed", "kept", "rejected"} :
         /\ [row EXCEPT !.life = life, !.conflict = FALSE] \in Records
         /\ [row EXCEPT !.life = life, !.conflict = FALSE].life = life
  <2> HIDE DEF row
  <2> QED
    BY <1>1 DEF Records
<1>4. \A b \in BOOLEAN, life \in {"proposed", "kept", "rejected"} :
         NewWords(r.m, "you", life, b) \in Records /\ NewWords(r.m, "you", life, b).life = life
  BY <1>1, NewWordsKnown
<1>5. /\ [answer EXCEPT !.pending = TRUE, !.version = Top(r.m) + 1] \in Replies
      /\ [answer EXCEPT !.pending = TRUE, !.version = Top(r.m) + 1].kind = "ok"
      /\ [answer EXCEPT !.pending = TRUE, !.version = Top(r.m) + 1].pending = TRUE
  <2> DEFINE v == Top(r.m) + 1
  <2>1. v \in Nat
    BY <1>1, NewWordsKnown
  <2> HIDE DEF v, answer
  <2>2. /\ [answer EXCEPT !.pending = TRUE, !.version = v] \in Replies
        /\ [answer EXCEPT !.pending = TRUE, !.version = v].kind = "ok"
        /\ [answer EXCEPT !.pending = TRUE, !.version = v].pending = TRUE
    BY <2>1, <1>2 DEF Replies
  <2> QED
    BY <2>2 DEF v
<1>6. Refusal(r) = "no" /\ row.life # "proposed" => r.kind = "edit" /\ row.life = "kept"
  BY <1>1 DEF Refusal, Records, Kinds
<1>7. CASE r.kind \in {"keep", "resolve"}
  <2>1. o = <<[row EXCEPT !.life = "kept", !.conflict = FALSE], answer>>
    BY <1>7 DEF Outcome
  <2> HIDE DEF answer, row
  <2> QED
    BY <2>1, <1>2, <1>3, <1>6, <1>7 DEF row
<1>8. CASE r.kind = "reject"
  <2>1. o = <<[row EXCEPT !.life = "rejected", !.conflict = FALSE], answer>>
    BY <1>8 DEF Outcome
  <2> HIDE DEF answer, row
  <2> QED
    BY <2>1, <1>2, <1>3, <1>6, <1>8 DEF row
<1>9. CASE r.kind = "edit"
  <2>1. \/ o = <<NewWords(r.m, "you", "kept", TRUE), answer>>
        \/ /\ o = <<NewWords(r.m, "you", "proposed", FALSE), [answer EXCEPT !.pending = TRUE, !.version = Top(r.m) + 1]>>
           /\ row.life # "kept"
    BY <1>9 DEF Outcome
  <2>2. CASE o = <<NewWords(r.m, "you", "kept", TRUE), answer>>
    <3>1. o[1] = NewWords(r.m, "you", "kept", TRUE) /\ o[2] = answer
      BY <2>2
    <3>2. o[1] \in Records /\ o[1].life = "kept"
      BY <3>1, <1>4
    <3> HIDE DEF answer, row
    <3> QED
      BY <3>1, <3>2, <1>2, <1>6, <1>9 DEF row
  <2>3. CASE /\ o = <<NewWords(r.m, "you", "proposed", FALSE), [answer EXCEPT !.pending = TRUE, !.version = Top(r.m) + 1]>>
             /\ row.life # "kept"
    <3> DEFINE a == [answer EXCEPT !.pending = TRUE, !.version = Top(r.m) + 1]
    <3>0. a \in Replies /\ a.kind = "ok" /\ a.pending = TRUE
      BY <1>5
    <3> HIDE DEF a
    <3>1. o[1] = NewWords(r.m, "you", "proposed", FALSE) /\ o[2] = a
      BY <2>3 DEF a
    <3>2. o[1] \in Records
      BY <3>1, <1>4
    <3>3. ~(Refusal(r) = "no" /\ srv[r.m].life # "proposed")
      BY <1>6, <2>3
    <3> QED
      BY <3>0, <3>1, <3>2, <3>3
  <2> QED
    BY <2>1, <2>2, <2>3
<1> QED
  BY <1>1, <1>7, <1>8, <1>9 DEF Kinds

LEMMA WritesTyped ==
    ASSUME ServerTyped, NEW m \in Memories, NEW row \in Records, Writes(m, row),
           claims' \subseteq [key : Keys, answer : Replies]
    PROVE  ServerTyped'
<1> DEFINE ch == [before |-> srv[m], after |-> row.version]
<1>1. ch \in Changes /\ srv[m].version \in Nat /\ row.version \in Nat
  BY DEF ServerTyped, Changes, Records
<1>2. srv' = [srv EXCEPT ![m] = row] /\ log' = [log EXCEPT ![m] = Append(@, ch)]
  BY DEF Writes
<1>c. ch.after = row.version
  OBVIOUS
<1> HIDE DEF ch
<1>3. srv' \in [Memories -> Records] /\ log' \in [Memories -> Seq(Changes)]
  BY <1>1, <1>2 DEF ServerTyped
<1>4. ASSUME NEW n \in Memories PROVE Bounded(n)'
  <2>1. PICK b \in Nat : srv[n].version <= b /\ \A i \in DOMAIN log[n] : log[n][i].after <= b
    BY DEF ServerTyped, Bounded
  <2>2. CASE n # m
    BY <2>1, <2>2, <1>2 DEF ServerTyped, Bounded
  <2>3. CASE n = m
    <3> DEFINE c == IF row.version <= b THEN b ELSE row.version
    <3>1. c \in Nat /\ row.version <= c /\ b <= c
      BY <1>1
    <3>2. \A i \in DOMAIN log[m] : log[m][i].after \in Nat
      <4>1. \A i \in DOMAIN log[m] : log[m][i] \in Changes
        BY DEF ServerTyped
      <4> QED
        BY <4>1 DEF Changes
    <3> HIDE DEF c
    <3>3. log'[m] = Append(log[m], ch) /\ srv'[m] = row /\ log[m] \in Seq(Changes)
      BY <1>2 DEF ServerTyped
    <3>4. \A i \in DOMAIN Append(log[m], ch) : Append(log[m], ch)[i].after <= c
      <4> TAKE i \in DOMAIN Append(log[m], ch)
      <4>1. CASE i \in DOMAIN log[m]
        <5>1. Append(log[m], ch)[i] = log[m][i]
          BY <4>1, <3>3, <1>1
        <5>2. log[m][i].after <= b /\ log[m][i].after \in Nat
          BY <4>1, <2>1, <2>3, <3>2
        <5> QED
          BY <5>1, <5>2, <3>1
      <4>2. CASE i \notin DOMAIN log[m]
        <5>1. Append(log[m], ch)[i] = ch
          BY <4>2, <3>3, <1>1
        <5> QED
          BY <5>1, <3>1, <1>c
      <4> QED
        BY <4>1, <4>2
    <3> QED
      BY <3>1, <3>3, <3>4, <2>3 DEF Bounded
  <2> QED
    BY <2>2, <2>3
<1> QED
  BY <1>3, <1>4 DEF ServerTyped

-----------------------------------------------------------------------------
\* How an action moves a command

LEMMA NotEnded == \A r \in Commands : r # Ended
<1> TAKE r \in Commands
<1>1. r.pc \in Places /\ Ended.pc = "ended"
  BY DEF Commands, Ended
<1> QED
  BY <1>1 DEF Places

LEMMA RunningKnown ==
    CommandsTyped => /\ \A i \in Running : i \in DOMAIN runs /\ runs[i] \in Commands /\ runs[i].m \in Memories
                     /\ \A i \in DOMAIN runs : i \notin Running => runs[i] = Ended
                     /\ DOMAIN runs = 1 .. Len(runs) /\ Len(runs) \in Nat
BY DEF CommandsTyped, Running, Commands

Fixed(r, s) == s.kind = r.kind /\ s.m = r.m /\ s.intent = r.intent

AnsweredRun(r, a) == [r EXCEPT !.pc = "answered", !.answer = a]
SealingRun(r, e) == [r EXCEPT !.pc = "sealing", !.entry = e]
PausingRun(r, b) == [r EXCEPT !.pc = "pausing", !.waited = @ \/ b]
AskedRun(r) == [r EXCEPT !.pc = "asked", !.asks = @ + 1]
AbortedRun(r) == [r EXCEPT !.aborted = TRUE]

LEMMA MovesKept ==
    ASSUME NEW r \in Commands, NEW a \in Replies, NEW e \in Nat, NEW b \in BOOLEAN
    PROVE  /\ AnsweredRun(r, a) \in Commands /\ SealingRun(r, e) \in Commands /\ PausingRun(r, b) \in Commands
           /\ AskedRun(r) \in Commands /\ AbortedRun(r) \in Commands
           /\ Fixed(r, AnsweredRun(r, a)) /\ Fixed(r, SealingRun(r, e)) /\ Fixed(r, PausingRun(r, b))
           /\ Fixed(r, AskedRun(r)) /\ Fixed(r, AbortedRun(r))
<1>1. AnsweredRun(r, a) \in Commands /\ Fixed(r, AnsweredRun(r, a))
  BY DEF AnsweredRun, Commands, Places, Fixed
<1>2. SealingRun(r, e) \in Commands /\ Fixed(r, SealingRun(r, e))
  BY DEF SealingRun, Commands, Places, Fixed
<1>3. PausingRun(r, b) \in Commands /\ Fixed(r, PausingRun(r, b))
  BY DEF PausingRun, Commands, Places, Fixed
<1>4. AskedRun(r) \in Commands /\ Fixed(r, AskedRun(r))
  <2> DEFINE n == r.asks + 1
  <2>1. n \in Nat /\ AskedRun(r) = [r EXCEPT !.pc = "asked", !.asks = n]
    BY DEF AskedRun, Commands
  <2> HIDE DEF n
  <2>2. [r EXCEPT !.pc = "asked", !.asks = n] \in Commands /\ Fixed(r, [r EXCEPT !.pc = "asked", !.asks = n])
    BY <2>1 DEF Commands, Places, Fixed
  <2> QED
    BY <2>1, <2>2
<1>5. AbortedRun(r) \in Commands /\ Fixed(r, AbortedRun(r))
  BY DEF AbortedRun, Commands, Places, Fixed
<1> QED
  BY <1>1, <1>2, <1>3, <1>4, <1>5

LEMMA MovesFields ==
    ASSUME NEW r \in Commands, NEW a \in Replies, NEW e \in Nat, NEW b \in BOOLEAN
    PROVE  /\ AnsweredRun(r, a).pc = "answered" /\ AnsweredRun(r, a).answer = a
           /\ AnsweredRun(r, a).aborted = r.aborted
           /\ SealingRun(r, e).pc = "sealing" /\ SealingRun(r, e).entry = e /\ SealingRun(r, e).aborted = r.aborted
           /\ PausingRun(r, b).pc = "pausing" /\ PausingRun(r, b).aborted = r.aborted
           /\ AskedRun(r).pc = "asked" /\ AskedRun(r).aborted = r.aborted
           /\ AbortedRun(r).pc = r.pc /\ AbortedRun(r).answer = r.answer /\ AbortedRun(r).entry = r.entry
<1>1. AnsweredRun(r, a).pc = "answered" /\ AnsweredRun(r, a).answer = a /\ AnsweredRun(r, a).aborted = r.aborted
  BY DEF AnsweredRun, Commands
<1>2. SealingRun(r, e).pc = "sealing" /\ SealingRun(r, e).entry = e /\ SealingRun(r, e).aborted = r.aborted
  BY DEF SealingRun, Commands
<1>3. PausingRun(r, b).pc = "pausing" /\ PausingRun(r, b).aborted = r.aborted
  BY DEF PausingRun, Commands
<1>4. AskedRun(r).pc = "asked" /\ AskedRun(r).aborted = r.aborted
  BY DEF AskedRun, Commands
<1>5. AbortedRun(r).pc = r.pc /\ AbortedRun(r).answer = r.answer /\ AbortedRun(r).entry = r.entry
  BY DEF AbortedRun, Commands
<1> QED
  BY <1>1, <1>2, <1>3, <1>4, <1>5

\* i's record is r from now on, and no other command's moves.
RunBecomes(i, r) ==
    /\ runs' \in Seq(Commands \cup {Ended})
    /\ Len(runs') = Len(runs) /\ DOMAIN runs' = DOMAIN runs
    /\ runs'[i] = r
    /\ \A j \in DOMAIN runs : j # i => runs'[j] = runs[j]
    /\ Running' = IF r = Ended THEN Running \ {i} ELSE Running \cup {i}

LEMMA RunSet ==
    ASSUME CommandsTyped, NEW i \in DOMAIN runs, NEW r \in Commands \cup {Ended}, runs' = [runs EXCEPT ![i] = r]
    PROVE  RunBecomes(i, r)
<1>1. runs' \in Seq(Commands \cup {Ended}) /\ Len(runs') = Len(runs) /\ DOMAIN runs' = DOMAIN runs
  BY DEF CommandsTyped
<1>2. runs'[i] = r /\ \A j \in DOMAIN runs : j # i => runs'[j] = runs[j]
  OBVIOUS
<1>3. Running' = {j \in DOMAIN runs' : runs'[j] # Ended}
  BY DEF Running, Ended
<1> QED
  BY <1>1, <1>2, <1>3 DEF RunBecomes, Running

LEMMA AnswersMoves ==
    ASSUME CommandsTyped, NEW i \in Running, NEW a \in Replies, Answers(i, a)
    PROVE  RunBecomes(i, AnsweredRun(runs[i], a))
<1>1. runs[i] \in Commands /\ i \in DOMAIN runs
  BY RunningKnown
<1>2. runs' = [runs EXCEPT ![i] = AnsweredRun(runs[i], a)]
  BY <1>1 DEF Answers, AnsweredRun
<1> QED
  BY <1>1, <1>2, RunSet, MovesKept

LEMMA AddedMoves ==
    ASSUME CommandsTyped, NEW r \in Commands, runs' = Append(runs, r)
    PROVE  /\ runs' \in Seq(Commands \cup {Ended})
           /\ Len(runs') = Len(runs) + 1 /\ Len(runs) + 1 \notin DOMAIN runs
           /\ runs'[Len(runs) + 1] = r
           /\ \A j \in DOMAIN runs : j \in DOMAIN runs' /\ runs'[j] = runs[j]
           /\ Running' = Running \cup {Len(runs) + 1}
<1>1. runs \in Seq(Commands \cup {Ended}) /\ DOMAIN runs = 1 .. Len(runs) /\ Len(runs) \in Nat
  BY RunningKnown DEF CommandsTyped
<1>2. runs' \in Seq(Commands \cup {Ended}) /\ Len(runs') = Len(runs) + 1
  BY <1>1
<1>3. runs'[Len(runs) + 1] = r /\ \A j \in 1 .. Len(runs) : runs'[j] = runs[j]
  BY <1>1
<1>4. DOMAIN runs' = 1 .. Len(runs) + 1
  BY <1>1, <1>2
<1>5. Running' = {j \in DOMAIN runs' : runs'[j] # Ended}
  BY DEF Running, Ended
<1>6. Running' = Running \cup {Len(runs) + 1}
  BY <1>1, <1>3, <1>4, <1>5, NotEnded DEF Running
<1> QED
  BY <1>1, <1>2, <1>3, <1>4, <1>6

\* The abort of the Keep whose controller waitFor is.
LEMMA AbortMoves ==
    ASSUME CommandsTyped, runs' = Abort
    PROVE  /\ waitFor = 0 => UNCHANGED runs /\ Running' = Running
           /\ waitFor # 0 => waitFor \in Running /\ RunBecomes(waitFor, AbortedRun(runs[waitFor]))
<1>1. CASE waitFor = 0
  <2>1. 0 \notin Running
    BY RunningKnown
  <2> QED
    BY <1>1, <2>1 DEF Abort, Running, Ended
<1>2. CASE waitFor # 0
  <2>1. waitFor \in Running /\ waitFor \in DOMAIN runs /\ runs[waitFor] \in Commands
    BY <1>2, RunningKnown DEF CommandsTyped
  <2>2. runs' = [runs EXCEPT ![waitFor] = AbortedRun(runs[waitFor])]
    BY <2>1 DEF Abort, AbortedRun
  <2>3. FALSE \in BOOLEAN /\ 0 \in Nat /\ runs[waitFor].answer \in Replies
    BY <2>1 DEF Commands
  <2>4. AbortedRun(runs[waitFor]) \in Commands
    BY <2>1, <2>3, MovesKept
  <2> QED
    BY <1>2, <2>1, <2>2, <2>4, RunSet
<1> QED
  BY <1>1, <1>2

-----------------------------------------------------------------------------
\* Types, action by action

\* What types and intents need of the commands after a step.
RunsHeld ==
    /\ runs \in Seq(Commands \cup {Ended})
    /\ waitFor \in Nat
    /\ waitFor # 0 => waitFor \in Running /\ runs[waitFor].kind = "keep"
    /\ \A i \in Running : OfIntent(runs[i])

RestTyped ==
    /\ busyRef \in Refs
    /\ retries \subseteq Commands /\ \A t \in retries : OfIntent(t) /\ Unsent(t)
    /\ left \in [trouble : Nat, undos : Nat]
    /\ hurried \in [seal : BOOLEAN, twice : BOOLEAN]
    /\ settled \in SUBSET Keys /\ IsFiniteSet(settled)

UndosMarked == \A m \in Memories : \A e \in DOMAIN stack[m] : stack[m][e].pc # "idle" => stack[m][e].status = "undoing"

LEMMA TypedParts ==
    /\ Typed /\ Ordered <=> ServerTyped /\ ScreenTyped /\ RunsHeld /\ RestTyped /\ UndosMarked
    /\ (Typed /\ Ordered)' <=> (ServerTyped /\ ScreenTyped /\ RunsHeld /\ RestTyped /\ UndosMarked)'
BY DEF Typed, Ordered, CommandsTyped, RunsHeld, RestTyped, UndosMarked, OfIntent, Unsent

LEMMA ServerStays == ServerTyped /\ UNCHANGED <<srv, log, claims>> => ServerTyped'
BY DEF ServerTyped, Bounded

LEMMA MoveHeld ==
    ASSUME CommandsTyped, RunsHeld, NEW i \in Running, NEW r \in Commands, Fixed(runs[i], r), RunBecomes(i, r),
           UNCHANGED waitFor
    PROVE  RunsHeld'
BY NotEnded, RunningKnown DEF RunsHeld, RunBecomes, Fixed, OfIntent

LEMMA FinishHeld ==
    ASSUME CommandsTyped, RunsHeld, NEW i \in Running, Finish(i)
    PROVE  RunsHeld' /\ RunBecomes(i, Ended) /\ busyRef' = None
<1>1. i \in DOMAIN runs /\ runs' = [runs EXCEPT ![i] = Ended]
  BY RunningKnown DEF Finish
<1>2. RunBecomes(i, Ended)
  BY <1>1, RunSet
<1>3. waitFor' = IF waitFor = i THEN 0 ELSE waitFor
  BY DEF Finish
<1>4. \A j \in Running : j # i => j \in DOMAIN runs /\ runs'[j] = runs[j]
  BY <1>2, RunningKnown DEF RunBecomes
<1> QED
  BY <1>2, <1>3, <1>4 DEF RunsHeld, RunBecomes, OfIntent, Finish

LEMMA AbortHeld ==
    ASSUME CommandsTyped, RunsHeld, runs' = Abort, waitFor' = 0
    PROVE  RunsHeld' /\ Running' = Running /\ Len(runs') = Len(runs)
<1>1. CASE waitFor = 0
  BY <1>1, AbortMoves DEF RunsHeld, OfIntent
<1>2. CASE waitFor # 0
  <2> DEFINE r == AbortedRun(runs[waitFor])
  <2>1. waitFor \in Running /\ runs[waitFor] \in Commands
    BY <1>2, RunningKnown DEF CommandsTyped
  <2>2. runs[waitFor].answer \in Replies /\ FALSE \in BOOLEAN /\ 0 \in Nat
    BY <2>1 DEF Commands
  <2>3. r \in Commands /\ Fixed(runs[waitFor], r)
    BY <2>1, <2>2, MovesKept
  <2>4. RunBecomes(waitFor, r)
    BY <1>2, AbortMoves
  <2> HIDE DEF r
  <2> QED
    BY <2>1, <2>3, <2>4, NotEnded, RunningKnown DEF RunsHeld, RunBecomes, Fixed, OfIntent
<1> QED
  BY <1>1, <1>2 DEF CommandsTyped

\* A command as it is pressed.
LEMMA RunKnown ==
    ASSUME ScreenTyped, NEW kind \in Kinds, NEW m \in Memories, NEW row \in Rows, NEW version \in Nat
    PROVE  /\ Run(kind, m, row, version) \in Commands
           /\ OfIntent(Run(kind, m, row, version))
           /\ Run(kind, m, row, version).kind = kind /\ Run(kind, m, row, version).m = m
           /\ Run(kind, m, row, version).pc = "asked" /\ Run(kind, m, row, version).aborted = FALSE
           /\ Run(kind, m, row, version).intent = intentOf(kind, m, version)
           /\ [Run(kind, m, row, version) EXCEPT !.waited = TRUE] \in Commands
<1>1. Visible \in SUBSET Memories
  BY DEF Visible
<1>2. intentOf(kind, m, version) \in Intents /\ Answer("none") \in Replies
  BY DEF intentOf, Intents, Answer, Replies
<1>3. Run(kind, m, row, version) \in Commands
  BY <1>1, <1>2 DEF Run, Commands, Places
<1>4. [Run(kind, m, row, version) EXCEPT !.waited = TRUE] \in Commands
  <2> DEFINE r == Run(kind, m, row, version)
  <2> HIDE DEF r
  <2>1. r \in Commands
    BY <1>3 DEF r
  <2>2. [r EXCEPT !.waited = TRUE] \in Commands
    BY <2>1 DEF Commands
  <2> QED
    BY <2>2 DEF r
<1> QED
  BY <1>3, <1>4 DEF Run, OfIntent, intentOf

LEMMA StartsTyped ==
    ASSUME Typed, Ordered, NEW r \in Commands, OfIntent(r), Starts(r), retries' \subseteq retries
    PROVE  Typed' /\ Ordered'
<1>0. ServerTyped /\ ScreenTyped /\ RunsHeld /\ RestTyped /\ UndosMarked /\ CommandsTyped
  BY TypedParts DEF Typed
<1>1. r.m \in Memories /\ r.m \in Refs /\ r.kind \in Kinds
  BY Outside DEF Commands
<1>2. ServerTyped'
  BY <1>0, ServerStays DEF Starts
<1>3. ScreenTyped' /\ UndosMarked'
  <2>1. ui' \in Screens
    <3>1. ui \in Screens
      BY <1>0 DEF ScreenTyped
    <3>2. [ui EXCEPT !.busy = r.m] \in Screens
      BY <1>1, <3>1 DEF Screens
    <3>3. Seal(ui, r.m) \in Screens
      BY <1>1, <3>1, ScreensKept
    <3> QED
      BY <3>2, <3>3 DEF Starts
  <2> QED
    BY <2>1, <1>0 DEF Starts, ScreenTyped, UndosMarked
<1>4. RunsHeld'
  <2>1. /\ runs' = Append(runs, r)
        /\ waitFor' = IF r.kind = "keep" THEN Len(runs) + 1 ELSE waitFor
    BY DEF Starts
  <2>2. /\ runs' \in Seq(Commands \cup {Ended})
        /\ runs'[Len(runs) + 1] = r
        /\ \A j \in DOMAIN runs : j \in DOMAIN runs' /\ runs'[j] = runs[j]
        /\ Running' = Running \cup {Len(runs) + 1}
    BY <2>1, <1>0, AddedMoves
  <2>3. Len(runs) + 1 \in Nat /\ \A j \in Running : j \in DOMAIN runs
    BY <1>0, RunningKnown
  <2> QED
    BY <2>1, <2>2, <2>3, <1>0 DEF RunsHeld, OfIntent
<1>5. RestTyped'
  <2>1. hurried' \in [seal : BOOLEAN, twice : BOOLEAN]
    BY <1>0 DEF Starts, RestTyped
  <2> QED
    BY <2>1, <1>0, <1>1 DEF Starts, RestTyped
<1> QED
  BY <1>2, <1>3, <1>4, <1>5, TypedParts

\* A new entry x of m's; and a new x in the place of m's entry e.
StackGains(m, x) ==
    /\ stack' \in [Memories -> Seq(Entries)]
    /\ Len(stack'[m]) = Len(stack[m]) + 1
    /\ DOMAIN stack'[m] = DOMAIN stack[m] \cup {Len(stack[m]) + 1}
    /\ Len(stack[m]) + 1 \notin DOMAIN stack[m]
    /\ stack'[m][Len(stack[m]) + 1] = x
    /\ \A e \in DOMAIN stack[m] : stack'[m][e] = stack[m][e]
    /\ \A n \in Memories : n # m => stack'[n] = stack[n]

StackBecomes(m, e, x) ==
    /\ stack' \in [Memories -> Seq(Entries)]
    /\ DOMAIN stack'[m] = DOMAIN stack[m]
    /\ stack'[m][e] = x
    /\ \A d \in DOMAIN stack[m] : d # e => stack'[m][d] = stack[m][d]
    /\ \A n \in Memories : n # m => stack'[n] = stack[n]

LEMMA StackPush ==
    ASSUME ScreenTyped, NEW m \in Memories, NEW x \in Entries, stack' = [stack EXCEPT ![m] = Append(@, x)]
    PROVE  StackGains(m, x)
<1>1. stack \in [Memories -> Seq(Entries)] /\ stack[m] \in Seq(Entries)
  BY DEF ScreenTyped
<1>2. stack'[m] = Append(stack[m], x) /\ \A n \in Memories : n # m => stack'[n] = stack[n]
  BY <1>1
<1>3. DOMAIN stack[m] = 1 .. Len(stack[m]) /\ Len(stack[m]) \in Nat
  BY <1>1
<1>4. /\ Len(Append(stack[m], x)) = Len(stack[m]) + 1
      /\ DOMAIN Append(stack[m], x) = 1 .. Len(stack[m]) + 1
      /\ Append(stack[m], x)[Len(stack[m]) + 1] = x
      /\ \A e \in 1 .. Len(stack[m]) : Append(stack[m], x)[e] = stack[m][e]
      /\ Append(stack[m], x) \in Seq(Entries)
  BY <1>1
<1>5. stack' \in [Memories -> Seq(Entries)]
  BY <1>1, <1>4
<1> QED
  BY <1>2, <1>3, <1>4, <1>5 DEF StackGains

LEMMA StackSet ==
    ASSUME ScreenTyped, NEW m \in Memories, NEW e \in DOMAIN stack[m], NEW x \in Entries,
           stack' = [stack EXCEPT ![m] = [@ EXCEPT ![e] = x]]
    PROVE  StackBecomes(m, e, x)
<1>1. stack \in [Memories -> Seq(Entries)] /\ stack[m] \in Seq(Entries)
  BY DEF ScreenTyped
<1>2. stack'[m] = [stack[m] EXCEPT ![e] = x] /\ \A n \in Memories : n # m => stack'[n] = stack[n]
  BY <1>1
<1>3. [stack[m] EXCEPT ![e] = x] \in Seq(Entries)
  BY <1>1
<1> QED
  BY <1>1, <1>2, <1>3 DEF StackBecomes

LEMMA EntryKnown ==
    ASSUME NEW r \in Commands
    PROVE  /\ Entry(r) \in Entries
           /\ Entry(r).receipt = r.answer.receipt /\ Entry(r).status = "done" /\ Entry(r).pc = "idle"
           /\ Entry(r).landed = FALSE
<1>1. r.answer \in Replies /\ r.row \in Rows
  BY DEF Commands
<1>2. NoQueue \in [Memories -> Rows]
  BY DEF NoQueue, NoRow, Rows
<1>3. r.answer.receipt \in Nat
  BY <1>1 DEF Replies
<1> QED
  BY <1>1, <1>2, <1>3 DEF Entry, Entries

\* What an undo makes of its entry, at each of its steps.
UndoingEntry(x, q) == [x EXCEPT !.status = "undoing", !.pc = "asked", !.previous = q]
HeardEntry(x, answer, landed) == [x EXCEPT !.pc = "answered", !.answer = answer, !.landed = landed]
OverEntry(x, status) == [x EXCEPT !.pc = "idle", !.previous = NoQueue, !.status = status]

LEMMA EntriesKept ==
    ASSUME NEW x \in Entries, NEW q \in [Memories -> Rows], NEW answer \in {"ok", "refused", "unreachable"},
           NEW landed \in BOOLEAN, NEW status \in {"done", "undone", "dropped"}
    PROVE  /\ UndoingEntry(x, q) \in Entries /\ HeardEntry(x, answer, landed) \in Entries
           /\ OverEntry(x, status) \in Entries
<1>1. NoQueue \in [Memories -> Rows]
  BY DEF NoQueue, NoRow, Rows
<1>2. UndoingEntry(x, q) \in Entries
  BY DEF UndoingEntry, Entries
<1>3. HeardEntry(x, answer, landed) \in Entries
  BY DEF HeardEntry, Entries
<1>4. OverEntry(x, status) \in Entries
  BY <1>1 DEF OverEntry, Entries
<1> QED
  BY <1>2, <1>3, <1>4

LEMMA UndoingFields ==
    ASSUME NEW x \in Entries, NEW q
    PROVE  /\ UndoingEntry(x, q).status = "undoing" /\ UndoingEntry(x, q).receipt = x.receipt
           /\ UndoingEntry(x, q).landed = x.landed
BY DEF UndoingEntry, Entries

LEMMA HeardFields ==
    ASSUME NEW x \in Entries, NEW answer, NEW landed
    PROVE  /\ HeardEntry(x, answer, landed).status = x.status
           /\ HeardEntry(x, answer, landed).receipt = x.receipt
           /\ HeardEntry(x, answer, landed).landed = landed
BY DEF HeardEntry, Entries

LEMMA OverFields ==
    ASSUME NEW x \in Entries, NEW status
    PROVE  /\ OverEntry(x, status).status = status /\ OverEntry(x, status).receipt = x.receipt
           /\ OverEntry(x, status).landed = x.landed /\ OverEntry(x, status).pc = "idle"
BY DEF OverEntry, Entries

-----------------------------------------------------------------------------
\* What each action does

LEMMA SettleTyped ==
    ASSUME RestTyped, NEW r \in Commands
    PROVE  settle(r.intent) \in SUBSET Keys /\ IsFiniteSet(settle(r.intent))
<1> DEFINE S == {s \in settled : s.intent = r.intent}
<1>1. IsFiniteSet(S) /\ Cardinality(S) \in Nat
  BY FS_Subset, FS_CardinalityType DEF RestTyped
<1>2. r.intent \in Intents
  BY DEF Commands
<1>3. [intent |-> r.intent, gen |-> Cardinality(S)] \in Keys
  BY <1>1, <1>2 DEF Keys
<1> QED
  BY <1>3, FS_AddElement DEF settle, RestTyped

AppliedDoes(i) ==
    LET r == runs[i]
    IN  /\ i \in Running /\ r \in Commands /\ r.pc = "answered" /\ r.answer.kind = "ok" /\ ~r.answer.pending
        /\ settled' = settle(r.intent)
        /\ StackGains(r.m, Entry(r))
        /\ \/ /\ r.kind = "reject" \/ r.aborted
              /\ ui' = Decided(ui, r.m, IF r.kind = "reject" THEN "rejected" ELSE "kept", r.order)
              /\ fetch' = Asked
              /\ Finish(i)
           \/ /\ r.kind # "reject" /\ ~r.aborted
              /\ ui' = IF r.waited THEN Seal(ui, r.m) ELSE ui
              /\ RunBecomes(i, SealingRun(r, Len(stack[r.m]) + 1))
              /\ UNCHANGED <<fetch, busyRef, waitFor>>
        /\ UNCHANGED <<srv, log, claims, queue, retries, left, hurried>>

LEMMA AppliedView == ASSUME Typed, NEW i \in DOMAIN runs, Applied(i) PROVE AppliedDoes(i)
<1> DEFINE r == runs[i]
<1>1. i \in Running /\ r \in Commands /\ r.pc = "answered" /\ r.answer.kind = "ok"
  BY RunningKnown DEF Applied, Handles, Typed
<1>2. r.m \in Memories /\ r.kind \in Kinds
  BY <1>1 DEF Commands
<1>3. StackGains(r.m, Entry(r))
  BY <1>1, <1>2, EntryKnown, StackPush DEF Applied, Typed
<1>4. CASE r.kind = "reject"
  BY <1>1, <1>3, <1>4 DEF Applied, AppliedDoes
<1>5. CASE r.kind # "reject" /\ r.aborted
  BY <1>1, <1>3, <1>5 DEF Applied, AppliedDoes
<1>6. CASE r.kind # "reject" /\ ~r.aborted
  <2> DEFINE e == Len(stack[r.m]) + 1
  <2>1. /\ ui' = IF r.waited THEN Seal(ui, r.m) ELSE ui
        /\ runs' = [runs EXCEPT ![i].pc = "sealing", ![i].entry = Len(stack[r.m]) + 1]
        /\ UNCHANGED <<fetch, busyRef, waitFor>>
    BY <1>1, <1>6 DEF Applied
  <2>2. e \in Nat
    <3>1. stack[r.m] \in Seq(Entries)
      BY <1>2 DEF Typed, ScreenTyped
    <3> QED
      BY <3>1
  <2>3. runs' = [runs EXCEPT ![i] = SealingRun(r, e)]
    BY <2>1, <1>1 DEF SealingRun
  <2>4. SealingRun(r, e) \in Commands
    <3>1. r.answer \in Replies /\ FALSE \in BOOLEAN
      BY <1>1 DEF Commands
    <3> HIDE DEF e
    <3> QED
      BY <1>1, <2>2, <3>1, MovesKept
  <2>5. RunBecomes(i, SealingRun(r, e))
    <3> HIDE DEF e
    <3> QED
      BY <2>3, <2>4, RunSet DEF Typed
  <2> QED
    BY <1>1, <1>3, <1>6, <2>1, <2>5 DEF Applied, AppliedDoes
<1> QED
  BY <1>4, <1>5, <1>6

SavedDoes(i) ==
    LET r == runs[i]
    IN  /\ i \in Running /\ r \in Commands /\ r.pc = "answered" /\ r.answer.kind = "ok" /\ r.answer.pending
        /\ settled' = settle(r.intent)
        /\ StackGains(r.m, Entry(r))
        /\ queue' \in [Memories -> Rows]
        /\ ui' = Waiting(ui, r.m)
        /\ \E s \in Commands : /\ RunBecomes(i, s) /\ OfIntent(s) /\ Unsent(s)
                               /\ s.kind = "keep" /\ s.m = r.m
                               /\ s.intent = intentOf("keep", r.m, r.answer.version)
        /\ busyRef' = r.m
        /\ waitFor' = i
        /\ hurried' = [hurried EXCEPT !.twice = @ \/ Sending(intentOf("keep", r.m, r.answer.version))]
        /\ UNCHANGED <<srv, log, claims, fetch, retries, left>>

LEMMA SavedView == ASSUME Typed, NEW i \in DOMAIN runs, SavedForJudge(i) PROVE SavedDoes(i)
<1> DEFINE r == runs[i]
           saved == [version |-> r.answer.version, conflict |-> FALSE]
           s == [Run("keep", r.m, saved, saved.version) EXCEPT !.waited = TRUE]
<1>1. i \in Running /\ r \in Commands /\ r.pc = "answered" /\ r.answer.kind = "ok" /\ r.answer.pending
  BY RunningKnown DEF SavedForJudge, Handles, Typed
<1>2. r.m \in Memories /\ r.kind \in Kinds /\ r.answer \in Replies
  BY <1>1 DEF Commands
<1>3. StackGains(r.m, Entry(r))
  BY <1>1, <1>2, EntryKnown, StackPush DEF SavedForJudge, Typed
<1>4. saved \in Rows /\ saved.version \in Nat /\ saved.version = r.answer.version /\ "keep" \in Kinds
  BY <1>2 DEF Replies, Rows, Kinds
<1>5. /\ queue' = patchItem(r.m, saved) /\ ui' = Waiting(ui, r.m) /\ runs' = [runs EXCEPT ![i] = s]
      /\ settled' = settle(r.intent) /\ busyRef' = r.m /\ waitFor' = i
      /\ hurried' = [hurried EXCEPT !.twice = @ \/ Sending(intentOf("keep", r.m, r.answer.version))]
      /\ UNCHANGED <<srv, log, claims, fetch, retries, left>>
  BY DEF SavedForJudge
<1> HIDE DEF saved
<1>6. queue' \in [Memories -> Rows]
  BY <1>4, <1>5 DEF patchItem, Typed, ScreenTyped
<1>7. s \in Commands
  BY <1>2, <1>4, RunKnown DEF Typed
<1>8. s.kind = "keep" /\ s.m = r.m /\ s.intent = intentOf("keep", r.m, r.answer.version) /\ OfIntent(s) /\ Unsent(s)
  <2> DEFINE q == Run("keep", r.m, saved, saved.version)
  <2>1. /\ q \in Commands /\ OfIntent(q) /\ q.kind = "keep" /\ q.m = r.m /\ q.pc = "asked" /\ q.aborted = FALSE
        /\ q.intent = intentOf("keep", r.m, r.answer.version)
    <3>1. saved \in Rows /\ saved.version \in Nat /\ r.m \in Memories /\ "keep" \in Kinds /\ ScreenTyped
      BY <1>2, <1>4 DEF Typed
    <3> DEFINE v == saved.version
    <3> HIDE DEF v
    <3>2. /\ Run("keep", r.m, saved, v) \in Commands
          /\ OfIntent(Run("keep", r.m, saved, v))
          /\ Run("keep", r.m, saved, v).kind = "keep" /\ Run("keep", r.m, saved, v).m = r.m
          /\ Run("keep", r.m, saved, v).pc = "asked" /\ Run("keep", r.m, saved, v).aborted = FALSE
          /\ Run("keep", r.m, saved, v).intent = intentOf("keep", r.m, v)
      <4>1. v \in Nat
        BY <3>1 DEF v
      <4>2. Run("keep", r.m, saved, v) \in Commands
        BY <3>1, <4>1, RunKnown
      <4>3. OfIntent(Run("keep", r.m, saved, v))
        BY <3>1, <4>1, RunKnown
      <4>4. Run("keep", r.m, saved, v).kind = "keep" /\ Run("keep", r.m, saved, v).m = r.m
        BY DEF Run
      <4>5. Run("keep", r.m, saved, v).pc = "asked" /\ Run("keep", r.m, saved, v).aborted = FALSE
        BY DEF Run
      <4>6. Run("keep", r.m, saved, v).intent = intentOf("keep", r.m, v)
        BY DEF Run
      <4> QED
        BY <4>2, <4>3, <4>4, <4>5, <4>6
    <3>3. v = r.answer.version /\ q = Run("keep", r.m, saved, v)
      BY <1>4 DEF v
    <3> QED
      BY <3>2, <3>3
  <2> HIDE DEF q
  <2>2. LET t == [q EXCEPT !.waited = TRUE]
        IN  /\ t.kind = q.kind /\ t.m = q.m /\ t.intent = q.intent /\ t.pc = q.pc /\ t.aborted = q.aborted
    BY <2>1 DEF Commands
  <2>3. s = [q EXCEPT !.waited = TRUE]
    BY DEF q
  <2> HIDE DEF s
  <2> QED
    BY <2>1, <2>2, <2>3 DEF OfIntent, Unsent
<1> HIDE DEF s
<1>9. RunBecomes(i, s)
  BY <1>5, <1>7, RunSet DEF Typed
<1> QED
  BY <1>1, <1>3, <1>5, <1>6, <1>7, <1>8, <1>9 DEF SavedDoes

BusyDoes(i) ==
    LET r == runs[i]
    IN  /\ i \in Running /\ r \in Commands /\ r.pc = "answered" /\ r.answer.kind \in {"busy", "held"} /\ r.kind = "keep"
        /\ \/ r.aborted /\ Finish(i) /\ UNCHANGED ui
           \/ /\ ~r.aborted
              /\ ui' = Waiting(ui, r.m) \/ ui' = ui
              /\ \E b \in BOOLEAN : RunBecomes(i, PausingRun(r, b))
              /\ UNCHANGED <<busyRef, waitFor>>
        /\ UNCHANGED <<srv, log, claims, queue, fetch, settled, stack, retries, left, hurried>>

LEMMA BusyView == ASSUME Typed, NEW i \in DOMAIN runs, Busy(i) PROVE BusyDoes(i)
<1> DEFINE r == runs[i]
           judge == r.answer.kind = "busy"
<1>1. /\ i \in Running /\ r \in Commands /\ r.pc = "answered" /\ r.answer.kind \in {"busy", "held"}
      /\ r.kind = "keep"
  BY RunningKnown DEF Busy, Handles, Typed
<1>2. CASE r.aborted
  BY <1>1, <1>2 DEF Busy, BusyDoes
<1>3. CASE ~r.aborted
  <2>1. /\ ui' = Waiting(ui, r.m) \/ ui' = ui
        /\ runs' = [runs EXCEPT ![i].pc = "pausing", ![i].waited = @ \/ judge]
        /\ UNCHANGED <<busyRef, waitFor>>
    BY <1>3 DEF Busy
  <2>2. judge \in BOOLEAN
    OBVIOUS
  <2> HIDE DEF judge
  <2>3. runs' = [runs EXCEPT ![i] = PausingRun(r, judge)]
    BY <2>1, <1>1 DEF PausingRun
  <2>4. PausingRun(r, judge) \in Commands
    <3>1. r.answer \in Replies /\ 0 \in Nat
      BY <1>1 DEF Commands
    <3> QED
      BY <1>1, <2>2, <3>1, MovesKept
  <2>5. RunBecomes(i, PausingRun(r, judge))
    BY <2>3, <2>4, RunSet DEF Typed
  <2> QED
    BY <1>1, <1>3, <2>1, <2>2, <2>5 DEF Busy, BusyDoes
<1> QED
  BY <1>2, <1>3

ResumeDoes(i) ==
    LET r == runs[i]
    IN  /\ i \in Running /\ r \in Commands /\ r.pc = "pausing"
        /\ \/ r.aborted /\ Finish(i)
           \/ ~r.aborted /\ RunBecomes(i, AskedRun(r)) /\ UNCHANGED <<busyRef, waitFor>>
        /\ UNCHANGED <<srv, log, claims, ui, queue, fetch, settled, stack, retries, left, hurried>>

LEMMA ResumeView == ASSUME Typed, NEW i \in DOMAIN runs, Resume(i) PROVE ResumeDoes(i)
<1> DEFINE r == runs[i]
<1>1. i \in Running /\ r \in Commands /\ r.pc = "pausing"
  BY RunningKnown DEF Resume, Typed
<1>2. CASE r.aborted
  BY <1>1, <1>2 DEF Resume, ResumeDoes
<1>3. CASE ~r.aborted
  <2>1. runs' = [runs EXCEPT ![i].pc = "asked", ![i].asks = @ + 1] /\ UNCHANGED <<busyRef, waitFor>>
    BY <1>3 DEF Resume
  <2>2. runs' = [runs EXCEPT ![i] = AskedRun(r)]
    BY <2>1, <1>1 DEF AskedRun
  <2>3. AskedRun(r) \in Commands
    <3>1. r.answer \in Replies /\ 0 \in Nat /\ TRUE \in BOOLEAN
      BY <1>1 DEF Commands
    <3> QED
      BY <1>1, <3>1, MovesKept
  <2>4. RunBecomes(i, AskedRun(r))
    BY <2>2, <2>3, RunSet DEF Typed
  <2> QED
    BY <1>1, <1>3, <2>1, <2>4 DEF Resume, ResumeDoes
<1> QED
  BY <1>2, <1>3

\* The server's three ways to answer: as it did before, by refusing, and by applying.
ServeDoes(i, a) ==
    LET r == runs[i]
    IN  /\ i \in Running /\ r \in Commands /\ r.pc = "asked"
        /\ RunBecomes(i, AnsweredRun(r, a))
        /\ \/ (\E c \in claims : c.key = keyFor(i) /\ a = c.answer) /\ UNCHANGED <<srv, log, claims>>
           \/ /\ \A c \in claims : c.key # keyFor(i)
              /\ Refusal(r) # "no" /\ a = Answer(Refusal(r))
              /\ UNCHANGED <<srv, log, claims>>
           \/ /\ \A c \in claims : c.key # keyFor(i)
              /\ \E o \in Outcome(r) : /\ Refusal(r) = "no"
                                       /\ Apply(r.m, o[1], o[2], keyFor(i))
                                       /\ a = [o[2] EXCEPT !.receipt = Len(log[r.m]) + 1]
        /\ UNCHANGED <<ui, queue, fetch, busyRef, waitFor, settled, stack, retries, left, hurried>>

LEMMA RepliesKept ==
    ASSUME NEW a \in Replies, NEW n \in Nat
    PROVE  /\ [a EXCEPT !.receipt = n] \in Replies
           /\ [a EXCEPT !.receipt = n].receipt = n
           /\ [a EXCEPT !.receipt = n].kind = a.kind /\ [a EXCEPT !.receipt = n].pending = a.pending
BY DEF Replies

LEMMA RefusalKnown ==
    \A r : /\ Refusal(r) # "no" => Answer(Refusal(r)) \in Replies
           /\ Refusal(r) # "ok" /\ Answer(Refusal(r)).kind = Refusal(r)
<1> TAKE r
<1>1. Refusal(r) \in {"clash", "in-conflict", "busy", "decided", "no"}
  BY DEF Refusal
<1> QED
  BY <1>1 DEF Answer, Replies

LEMMA ServeView == ASSUME Typed, NEW i \in DOMAIN runs, Serve(i) PROVE \E a \in Replies : ServeDoes(i, a)
<1> DEFINE r == runs[i]
<1>1. i \in Running /\ r \in Commands /\ r.pc = "asked" /\ r.m \in Memories
  BY RunningKnown DEF Serve, Typed
<1>u. UNCHANGED <<ui, queue, fetch, busyRef, waitFor, settled, stack, retries, left, hurried>>
  BY DEF Serve
<1>2. CASE \E c \in claims : c.key = keyFor(i) /\ Answers(i, c.answer) /\ UNCHANGED <<srv, log, claims>>
  <2>1. PICK c \in claims : c.key = keyFor(i) /\ Answers(i, c.answer) /\ UNCHANGED <<srv, log, claims>>
    BY <1>2
  <2>2. c.answer \in Replies
    BY DEF Typed, ServerTyped
  <2>3. RunBecomes(i, AnsweredRun(r, c.answer))
    BY <1>1, <2>1, <2>2, AnswersMoves DEF Typed
  <2> QED
    BY <1>1, <1>u, <2>1, <2>2, <2>3 DEF ServeDoes
<1>3. CASE /\ \A c \in claims : c.key # keyFor(i)
           /\ Refusal(r) # "no" /\ Answers(i, Answer(Refusal(r))) /\ UNCHANGED <<srv, log, claims>>
  <2> DEFINE a == Answer(Refusal(r))
  <2>1. a \in Replies
    BY <1>3, RefusalKnown
  <2>2. RunBecomes(i, AnsweredRun(r, a))
    BY <1>1, <1>3, <2>1, AnswersMoves DEF Typed
  <2> QED
    BY <1>1, <1>u, <1>3, <2>1, <2>2 DEF ServeDoes
<1>4. CASE /\ \A c \in claims : c.key # keyFor(i)
           /\ Refusal(r) = "no"
           /\ \E o \in Outcome(r) : /\ Apply(r.m, o[1], o[2], keyFor(i))
                                    /\ Answers(i, [o[2] EXCEPT !.receipt = Len(log[r.m]) + 1])
  <2>1. PICK o \in Outcome(r) : /\ Apply(r.m, o[1], o[2], keyFor(i))
                                /\ Answers(i, [o[2] EXCEPT !.receipt = Len(log[r.m]) + 1])
    BY <1>4
  <2> DEFINE a == [o[2] EXCEPT !.receipt = Len(log[r.m]) + 1]
  <2>2. a \in Replies
    <3>1. o[2] \in Replies
      BY <1>1, OutcomesKnown DEF Typed
    <3>2. Len(log[r.m]) + 1 \in Nat
      <4>1. log[r.m] \in Seq(Changes)
        BY <1>1 DEF Typed, ServerTyped
      <4> QED
        BY <4>1
    <3> QED
      BY <3>1, <3>2, RepliesKept
  <2>3. RunBecomes(i, AnsweredRun(r, a))
    BY <1>1, <2>1, <2>2, AnswersMoves DEF Typed
  <2> QED
    BY <1>1, <1>u, <1>4, <2>1, <2>2, <2>3 DEF ServeDoes
<1> QED
  BY <1>2, <1>3, <1>4 DEF Serve

UndoDoes(m, e) ==
    /\ e \in DOMAIN stack[m] /\ stack[m][e] \in Entries /\ stack[m][e].status = "done"
    /\ StackBecomes(m, e, UndoingEntry(stack[m][e], queue))
    /\ queue' \in [Memories -> Rows]
    /\ fetch' = Idle
    /\ runs' = Abort /\ waitFor' = 0
    /\ ui' = Restore(ui, m)
    /\ left' \in [trouble : Nat, undos : Nat]
    /\ hurried' = [hurried EXCEPT !.seal = @ \/ (waitFor # 0 /\ runs[waitFor].m # m)]
    /\ UNCHANGED <<srv, log, claims, busyRef, settled, retries>>

LEMMA EntryAt == ScreenTyped => \A m \in Memories : \A e \in DOMAIN stack[m] : stack[m][e] \in Entries
BY DEF ScreenTyped

LEMMA UndoView == ASSUME Typed, NEW m \in Memories, NEW e \in Nat, Undo(m, e) PROVE UndoDoes(m, e)
<1> DEFINE x == stack[m][e]
<1>1. e \in DOMAIN stack[m] /\ x \in Entries /\ x.status = "done" /\ left.undos > 0
  BY EntryAt DEF Undo, Typed
<1>2. queue \in [Memories -> Rows] /\ "ok" \in {"ok", "refused", "unreachable"} /\ "done" \in {"done", "undone", "dropped"}
  BY DEF Typed, ScreenTyped
<1>3. UndoingEntry(x, queue) \in Entries
  BY <1>1, <1>2, EntriesKept
<1>4. stack' = [stack EXCEPT ![m] = [@ EXCEPT ![e] = UndoingEntry(x, queue)]]
  BY <1>1 DEF Undo, UndoingEntry, Typed, ScreenTyped
<1>5. StackBecomes(m, e, UndoingEntry(x, queue))
  BY <1>1, <1>3, <1>4, StackSet DEF Typed
<1>6. queue' \in [Memories -> Rows]
  <2>1. x.row \in Rows
    BY <1>1 DEF Entries
  <2> QED
    BY <2>1, <1>2 DEF Undo, withRestored
<1>7. left' \in [trouble : Nat, undos : Nat]
  <2>1. left \in [trouble : Nat, undos : Nat] /\ left' = [left EXCEPT !.undos = @ - 1]
    BY DEF Undo, Typed, CommandsTyped
  <2>2. left.undos - 1 \in Nat
    BY <2>1, <1>1
  <2> QED
    BY <2>1, <2>2
<1> QED
  BY <1>1, <1>5, <1>6, <1>7 DEF Undo, UndoDoes

\* The server's answer to an undo: again, by undoing, by refusing.
UndoServeDoes(m, e) ==
    LET x == stack[m][e]
    IN  /\ e \in DOMAIN stack[m] /\ x \in Entries /\ x.pc = "asked"
        /\ \/ x.landed /\ StackBecomes(m, e, HeardEntry(x, "ok", x.landed)) /\ UNCHANGED <<srv, log>>
           \/ /\ ~x.landed /\ Len(log[m]) = x.receipt
              /\ Writes(m, log[m][x.receipt].before)
              /\ StackBecomes(m, e, HeardEntry(x, "ok", TRUE))
           \/ ~x.landed /\ StackBecomes(m, e, HeardEntry(x, "refused", x.landed)) /\ UNCHANGED <<srv, log>>
        /\ UNCHANGED <<claims, ui, queue, fetch, runs, busyRef, waitFor, settled, retries, left, hurried>>

LEMMA HeardSame ==
    ASSUME ScreenTyped, NEW m \in Memories, NEW e \in DOMAIN stack[m],
           NEW answer \in {"ok", "refused", "unreachable"}, NEW landed \in BOOLEAN
    PROVE  /\ stack' = [stack EXCEPT ![m][e].pc = "answered", ![m][e].answer = answer]
                 => StackBecomes(m, e, HeardEntry(stack[m][e], answer, stack[m][e].landed))
           /\ stack' = [stack EXCEPT ![m][e].pc = "answered", ![m][e].answer = answer, ![m][e].landed = landed]
                 => StackBecomes(m, e, HeardEntry(stack[m][e], answer, landed))
<1> DEFINE x == stack[m][e]
<1>1. x \in Entries /\ stack[m] \in Seq(Entries) /\ stack \in [Memories -> Seq(Entries)]
  BY EntryAt DEF ScreenTyped
<1>2. x.landed \in BOOLEAN /\ NoQueue \in [Memories -> Rows] /\ "done" \in {"done", "undone", "dropped"}
  BY <1>1 DEF Entries, NoQueue, NoRow, Rows
<1>3. HeardEntry(x, answer, x.landed) \in Entries /\ HeardEntry(x, answer, landed) \in Entries
  BY <1>1, <1>2, EntriesKept
<1>4. HeardEntry(x, answer, x.landed) = [x EXCEPT !.pc = "answered", !.answer = answer]
  BY <1>1 DEF HeardEntry, Entries
<1>5. ASSUME stack' = [stack EXCEPT ![m][e].pc = "answered", ![m][e].answer = answer]
      PROVE  StackBecomes(m, e, HeardEntry(x, answer, x.landed))
  <2>1. stack' = [stack EXCEPT ![m] = [@ EXCEPT ![e] = [x EXCEPT !.pc = "answered", !.answer = answer]]]
    BY <1>1, <1>5
  <2> QED
    BY <1>3, <1>4, <2>1, StackSet
<1>6. ASSUME stack' = [stack EXCEPT ![m][e].pc = "answered", ![m][e].answer = answer, ![m][e].landed = landed]
      PROVE  StackBecomes(m, e, HeardEntry(x, answer, landed))
  <2>1. stack' = [stack EXCEPT ![m] = [@ EXCEPT ![e] = HeardEntry(x, answer, landed)]]
    BY <1>1, <1>6 DEF HeardEntry
  <2> QED
    BY <1>3, <2>1, StackSet
<1> QED
  BY <1>5, <1>6

LEMMA UndoServeView == ASSUME Typed, NEW m \in Memories, NEW e \in Nat, UndoServe(m, e) PROVE UndoServeDoes(m, e)
<1> DEFINE x == stack[m][e]
<1>1. e \in DOMAIN stack[m] /\ x.pc = "asked"
  BY DEF UndoServe
<1>2. x \in Entries /\ x.landed \in BOOLEAN /\ ScreenTyped
  BY <1>1, EntryAt DEF Typed, Entries
<1>3. CASE /\ x.landed /\ stack' = [stack EXCEPT ![m][e].pc = "answered", ![m][e].answer = "ok"]
           /\ UNCHANGED <<srv, log>>
  <2>1. StackBecomes(m, e, HeardEntry(x, "ok", x.landed))
    BY <1>1, <1>2, <1>3, HeardSame
  <2> QED
    BY <1>1, <1>2, <1>3, <2>1 DEF UndoServe, UndoServeDoes
<1>4. CASE /\ ~x.landed /\ Len(log[m]) = x.receipt
           /\ Writes(m, log[m][x.receipt].before)
           /\ stack' = [stack EXCEPT ![m][e].pc = "answered", ![m][e].answer = "ok", ![m][e].landed = TRUE]
  <2>1. StackBecomes(m, e, HeardEntry(x, "ok", TRUE))
    BY <1>1, <1>2, <1>4, HeardSame
  <2> QED
    BY <1>1, <1>2, <1>4, <2>1 DEF UndoServe, UndoServeDoes
<1>5. CASE /\ ~x.landed /\ stack' = [stack EXCEPT ![m][e].pc = "answered", ![m][e].answer = "refused"]
           /\ UNCHANGED <<srv, log>>
  <2>1. StackBecomes(m, e, HeardEntry(x, "refused", x.landed))
    BY <1>1, <1>2, <1>5, HeardSame
  <2> QED
    BY <1>1, <1>2, <1>5, <2>1 DEF UndoServe, UndoServeDoes
<1> QED
  BY <1>3, <1>4, <1>5 DEF UndoServe

UndoFaultDoes(m, e) ==
    /\ e \in DOMAIN stack[m] /\ stack[m][e] \in Entries /\ stack[m][e].pc # "idle"
    /\ StackBecomes(m, e, HeardEntry(stack[m][e], "unreachable", stack[m][e].landed))
    /\ left' \in [trouble : Nat, undos : Nat]
    /\ UNCHANGED <<srv, log, claims, ui, queue, fetch, runs, busyRef, waitFor, settled, retries, hurried>>

LEMMA TroubleLeft ==
    ASSUME left \in [trouble : Nat, undos : Nat], left.trouble > 0, left' = [left EXCEPT !.trouble = @ - 1]
    PROVE  left' \in [trouble : Nat, undos : Nat]
<1>1. left.trouble - 1 \in Nat
  OBVIOUS
<1> QED
  BY <1>1

LEMMA UndoFaultView == ASSUME Typed, NEW m \in Memories, NEW e \in Nat, UndoFault(m, e) PROVE UndoFaultDoes(m, e)
<1>1. e \in DOMAIN stack[m] /\ stack[m][e].pc \in {"asked", "answered"} /\ left.trouble > 0
  BY DEF UndoFault
<1>2. stack[m][e] \in Entries /\ stack[m][e].landed \in BOOLEAN /\ ScreenTyped
  BY <1>1, EntryAt DEF Typed, Entries
<1>3. StackBecomes(m, e, HeardEntry(stack[m][e], "unreachable", stack[m][e].landed))
  BY <1>1, <1>2, HeardSame DEF UndoFault
<1>4. left' \in [trouble : Nat, undos : Nat]
  BY <1>1, TroubleLeft DEF UndoFault, Typed, CommandsTyped
<1> QED
  BY <1>1, <1>2, <1>3, <1>4 DEF UndoFault, UndoFaultDoes

\* An undo's end: the card stays where it is, or goes out again.
UndoEndsDoes(m, e) ==
    LET x == stack[m][e]
    IN  /\ e \in DOMAIN stack[m] /\ x \in Entries /\ x.pc = "answered"
        /\ queue' \in [Memories -> Rows]
        /\ \/ x.answer = "ok" /\ UNCHANGED ui /\ StackBecomes(m, e, OverEntry(x, "undone"))
           \/ /\ x.answer # "ok" /\ ui' = Decided(ui, m, "gone", Visible)
              /\ \E status \in {"done", "dropped"} : StackBecomes(m, e, OverEntry(x, status))
        /\ fetch' = Asked
        /\ UNCHANGED <<srv, log, claims, runs, busyRef, waitFor, settled, retries, left, hurried>>

LEMMA OverSame ==
    ASSUME ScreenTyped, NEW m \in Memories, NEW e \in DOMAIN stack[m], NEW status \in {"done", "undone", "dropped"},
           stack' = [stack EXCEPT ![m][e].pc = "idle", ![m][e].previous = NoQueue, ![m][e].status = status]
    PROVE  StackBecomes(m, e, OverEntry(stack[m][e], status))
<1> DEFINE x == stack[m][e]
<1>1. x \in Entries /\ stack[m] \in Seq(Entries) /\ stack \in [Memories -> Seq(Entries)]
  BY EntryAt DEF ScreenTyped
<1>2. NoQueue \in [Memories -> Rows] /\ "ok" \in {"ok", "refused", "unreachable"} /\ TRUE \in BOOLEAN
  BY DEF NoQueue, NoRow, Rows
<1>3. OverEntry(x, status) \in Entries
  BY <1>1, <1>2, EntriesKept
<1>4. stack' = [stack EXCEPT ![m] = [@ EXCEPT ![e] = OverEntry(x, status)]]
  BY <1>1 DEF OverEntry
<1> QED
  BY <1>3, <1>4, StackSet

LEMMA UndoEndsView == ASSUME Typed, NEW m \in Memories, NEW e \in Nat, UndoEnds(m, e) PROVE UndoEndsDoes(m, e)
<1> DEFINE x == stack[m][e]
<1>1. e \in DOMAIN stack[m] /\ x.pc = "answered" /\ ScreenTyped
  BY DEF UndoEnds, Typed
<1>2. x \in Entries
  BY <1>1, EntryAt
<1>3. queue' \in [Memories -> Rows]
  <2>1. x.previous \in [Memories -> Rows]
    BY <1>2 DEF Entries
  <2>2. queue' = x.previous \/ queue' = queue
    BY DEF UndoEnds
  <2> QED
    BY <2>1, <2>2, <1>1 DEF ScreenTyped
<1>4. x.answer # "ok" => ui' = Decided(ui, m, "gone", Visible)
  BY DEF UndoEnds
<1>5. x.answer = "ok" => UNCHANGED ui
  BY DEF UndoEnds
<1>6. /\ fetch' = Asked
      /\ UNCHANGED <<srv, log, claims, runs, busyRef, waitFor, settled, retries, left, hurried>>
  BY DEF UndoEnds
<1>7. CASE x.answer = "ok"
  <2>1. stack' = [stack EXCEPT ![m][e].pc = "idle", ![m][e].previous = NoQueue, ![m][e].status = "undone"]
    BY <1>7 DEF UndoEnds
  <2>2. StackBecomes(m, e, OverEntry(x, "undone"))
    BY <1>1, <2>1, OverSame
  <2> QED
    BY <1>1, <1>2, <1>3, <1>5, <1>6, <1>7, <2>2 DEF UndoEndsDoes
<1>8. CASE x.answer = "unreachable"
  <2>1. stack' = [stack EXCEPT ![m][e].pc = "idle", ![m][e].previous = NoQueue, ![m][e].status = "done"]
    BY <1>8 DEF UndoEnds
  <2>2. StackBecomes(m, e, OverEntry(x, "done"))
    BY <1>1, <2>1, OverSame
  <2> QED
    BY <1>1, <1>2, <1>3, <1>4, <1>6, <1>8, <2>2 DEF UndoEndsDoes
<1>9. CASE x.answer \notin {"ok", "unreachable"}
  <2>1. stack' = [stack EXCEPT ![m][e].pc = "idle", ![m][e].previous = NoQueue, ![m][e].status = "dropped"]
    BY <1>9 DEF UndoEnds
  <2>2. StackBecomes(m, e, OverEntry(x, "dropped"))
    BY <1>1, <2>1, OverSame
  <2> QED
    BY <1>1, <1>2, <1>3, <1>4, <1>6, <1>9, <2>2 DEF UndoEndsDoes
<1> QED
  BY <1>7, <1>8, <1>9

FailedDoes(i) ==
    LET r == runs[i]
        kind == r.answer.kind
    IN  /\ i \in Running /\ r \in Commands /\ r.pc = "answered" /\ kind # "ok"
        /\ settled' = IF Retryable(kind) THEN settled ELSE settle(r.intent)
        /\ ui' = RolledBack(r) \/ ui' = Decided(RolledBack(r), r.m, "gone", r.order)
        /\ queue' \in [Memories -> Rows]
        /\ fetch' \in {fetch, Asked}
        /\ retries' \subseteq retries \cup {Again(r)}
        /\ Finish(i)
        /\ UNCHANGED <<srv, log, claims, stack, left, hurried>>

LEMMA FailedView == ASSUME Typed, NEW i \in DOMAIN runs, Failed(i) PROVE FailedDoes(i)
<1> DEFINE r == runs[i]
<1>1. i \in Running /\ r \in Commands
  BY RunningKnown DEF Failed, Typed
<1>2. queue' \in [Memories -> Rows]
  <2>1. queue \in [Memories -> Rows] /\ r.row \in Rows
    BY <1>1 DEF Typed, ScreenTyped, Commands
  <2>2. [r.row EXCEPT !.conflict = TRUE] \in Rows
    BY <2>1 DEF Rows
  <2>3. queue' = queue \/ queue' = patchItem(r.m, [r.row EXCEPT !.conflict = TRUE])
    BY DEF Failed
  <2> QED
    BY <2>1, <2>2, <2>3 DEF patchItem
<1>3. ui' = RolledBack(r) \/ ui' = Decided(RolledBack(r), r.m, "gone", r.order)
  BY DEF Failed
<1>4. fetch' \in {fetch, Asked} /\ retries' \subseteq retries \cup {Again(r)}
  BY DEF Failed
<1>5. /\ r.pc = "answered" /\ r.answer.kind # "ok" /\ Finish(i)
      /\ settled' = IF Retryable(r.answer.kind) THEN settled ELSE settle(r.intent)
      /\ UNCHANGED <<srv, log, claims, stack, left, hurried>>
  BY DEF Failed
<1> QED
  BY <1>1, <1>2, <1>3, <1>4, <1>5 DEF FailedDoes

LEMMA AgainKnown ==
    ASSUME ScreenTyped, NEW r \in Commands, OfIntent(r)
    PROVE  Again(r) \in Commands /\ OfIntent(Again(r)) /\ Unsent(Again(r))
<1> DEFINE q == Run(r.kind, r.m, r.row, r.intent.version)
<1>1. r.kind \in Kinds /\ r.m \in Memories /\ r.row \in Rows /\ r.intent.version \in Nat
  BY DEF Commands, Intents
<1>2. q \in Commands /\ OfIntent(q)
  <2> DEFINE v == r.intent.version
             row == r.row
  <2> HIDE DEF v, row
  <2>1. r.kind \in Kinds /\ r.m \in Memories /\ row \in Rows /\ v \in Nat
    BY <1>1 DEF v, row
  <2>2. Run(r.kind, r.m, row, v) \in Commands /\ OfIntent(Run(r.kind, r.m, row, v))
    BY <2>1, RunKnown
  <2> QED
    BY <2>2 DEF v, row
<1>3. Unsent(q)
  BY DEF Unsent, Run
<1>4. Again(r) = [q EXCEPT !.order = {}]
  BY DEF Again
<1> HIDE DEF q
<1>5. LET s == [q EXCEPT !.order = {}]
      IN  s \in Commands /\ s.kind = q.kind /\ s.m = q.m /\ s.intent = q.intent /\ s.pc = q.pc /\ s.aborted = q.aborted
  BY <1>2 DEF Commands
<1> QED
  BY <1>2, <1>3, <1>4, <1>5 DEF OfIntent, Unsent

FaultDoes(i) ==
    /\ i \in Running /\ runs[i] \in Commands
    /\ \E a \in Replies : Retryable(a.kind) /\ a.kind # "ok" /\ RunBecomes(i, AnsweredRun(runs[i], a))
    /\ runs[i].pc \in {"asked", "answered"}
    /\ left' \in [trouble : Nat, undos : Nat]
    /\ UNCHANGED <<srv, log, claims, ui, queue, fetch, busyRef, waitFor, settled, stack, retries, hurried>>

LEMMA FaultView == ASSUME Typed, NEW i \in DOMAIN runs, Fault(i) PROVE FaultDoes(i)
<1>1. i \in Running /\ runs[i] \in Commands /\ left.trouble > 0
  BY RunningKnown DEF Fault, Typed
<1>2. PICK kind \in {"unreachable", "held"} : Answers(i, Answer(kind)) /\ runs[i].pc \in {"asked", "answered"}
  BY DEF Fault
<1> DEFINE a == Answer(kind)
<1>3. a \in Replies /\ Retryable(a.kind) /\ a.kind # "ok"
  BY <1>2 DEF Answer, Replies, Retryable
<1>4. RunBecomes(i, AnsweredRun(runs[i], a))
  BY <1>1, <1>2, <1>3, AnswersMoves DEF Typed
<1>5. left' \in [trouble : Nat, undos : Nat]
  BY <1>1, TroubleLeft DEF Fault, Typed, CommandsTyped
<1> QED
  BY <1>1, <1>2, <1>3, <1>4, <1>5 DEF Fault, FaultDoes

LEMMA RolledKnown ==
    ASSUME ScreenTyped, NEW r \in Commands
    PROVE  RolledBack(r) \in Screens /\ Decided(RolledBack(r), r.m, "gone", r.order) \in Screens
<1>1. ui \in Screens /\ r.m \in Memories /\ r.m \in Refs /\ r.order \in SUBSET Memories
  BY Outside DEF ScreenTyped, Commands
<1>2. Settled(ui, r.m) \in Screens /\ Unseal(ui, r.m) \in Screens
  BY <1>1, ScreensKept
<1>3. StopWaiting(Unseal(ui, r.m), r.m) \in Screens
  BY <1>1, <1>2, ScreensKept
<1>4. RolledBack(r) \in Screens
  BY <1>2, <1>3 DEF RolledBack
<1> QED
  BY <1>1, <1>4, ScreensKept

LEMMA PlainFetch == Idle \in [state : {"idle", "asked", "answered"}, rows : [Memories -> Rows]]
                    /\ Asked \in [state : {"idle", "asked", "answered"}, rows : [Memories -> Rows]]
<1>1. [m \in Memories |-> NoRow] \in [Memories -> Rows]
  BY DEF NoRow, Rows
<1>2. Idle \in [state : {"idle", "asked", "answered"}, rows : [Memories -> Rows]]
  BY <1>1 DEF Idle
<1> QED
  BY <1>2 DEF Asked

\* A decided screen, and the other screens a command's end makes.
LEMMA EndScreens ==
    ASSUME ScreenTyped, NEW r \in Commands
    PROVE  /\ \A outcome \in {"kept", "rejected", "gone"} : Decided(ui, r.m, outcome, r.order) \in Screens
           /\ Seal(ui, r.m) \in Screens /\ Waiting(ui, r.m) \in Screens
<1>1. ui \in Screens /\ r.m \in Memories /\ r.order \in SUBSET Memories
  BY DEF ScreenTyped, Commands
<1> QED
  BY <1>1, ScreensKept

-----------------------------------------------------------------------------
\* Types hold

LEMMA InitTyped == Init => Typed /\ Ordered
<1> SUFFICES ASSUME Init PROVE Typed /\ Ordered
  OBVIOUS
<1>1. ServerTyped
  <2>1. srv \in [Memories -> Records]
    BY DEF Init, Records
  <2>2. log \in [Memories -> Seq(Changes)] /\ \A m \in Memories : log[m] = <<>>
    BY DEF Init
  <2>3. \A m \in Memories : Bounded(m)
    <3>1. \A m \in Memories : srv[m].version <= 1 /\ DOMAIN log[m] = {}
      BY <2>2 DEF Init
    <3>2. 1 \in Nat
      OBVIOUS
    <3> QED
      BY <3>1, <3>2 DEF Bounded
  <2> QED
    BY <2>1, <2>2, <2>3 DEF Init, ServerTyped
<1>2. ScreenTyped /\ UndosMarked
  <2>1. ui \in Screens
    <3>1. Browse \in Modes /\ NoSeal \in [ref : Refs, restore : Modes] /\ None \in Refs
      BY Outside DEF Browse, Modes, NoSeal
    <3> QED
      BY <3>1 DEF Init, Screens
  <2>2. queue \in [Memories -> Rows]
    BY DEF Init, Rows
  <2>3. stack \in [Memories -> Seq(Entries)] /\ \A m \in Memories : DOMAIN stack[m] = {}
    BY DEF Init
  <2> QED
    BY <2>1, <2>2, <2>3, PlainFetch DEF Init, ScreenTyped, UndosMarked
<1>3. RunsHeld
  <2>1. runs = <<>> /\ waitFor = 0
    BY DEF Init
  <2> QED
    BY <2>1 DEF RunsHeld, Running
<1>4. RestTyped
  <2>1. busyRef \in Refs
    BY Outside DEF Init
  <2>2. left \in [trouble : Nat, undos : Nat]
    BY ReviewAssumption DEF Init
  <2>3. IsFiniteSet({})
    BY FS_EmptySet
  <2> QED
    BY <2>1, <2>2, <2>3 DEF Init, RestTyped
<1> QED
  BY <1>1, <1>2, <1>3, <1>4, TypedParts

LEMMA Pressed ==
    ASSUME Typed, Ordered, NEW kind \in Kinds, NEW m \in Memories, NEW version \in Nat,
           Starts(Run(kind, m, queue[m], version)), UNCHANGED retries
    PROVE  Typed' /\ Ordered'
<1> DEFINE r == Run(kind, m, queue[m], version)
<1>1. queue[m] \in Rows /\ ScreenTyped
  BY DEF Typed, ScreenTyped
<1>2. r \in Commands /\ OfIntent(r)
  BY <1>1, RunKnown
<1> HIDE DEF r
<1>3. Starts(r)
  BY DEF r
<1> QED
  BY <1>2, <1>3, StartsTyped

\* The fields of a pressed command, and of one tried again.
LEMMA RetryKnown ==
    ASSUME Typed, Ordered, NEW t \in retries
    PROVE  /\ [t EXCEPT !.order = Visible] \in Commands /\ OfIntent([t EXCEPT !.order = Visible])
           /\ Unsent([t EXCEPT !.order = Visible])
           /\ [t EXCEPT !.order = Visible].kind = t.kind /\ [t EXCEPT !.order = Visible].m = t.m
           /\ [t EXCEPT !.order = Visible].intent = t.intent
<1> DEFINE v == Visible
<1>1. t \in Commands /\ OfIntent(t) /\ Unsent(t) /\ v \in SUBSET Memories
  BY DEF Typed, CommandsTyped, Ordered, Visible
<1> HIDE DEF v
<1>2. LET s == [t EXCEPT !.order = v]
      IN  s \in Commands /\ s.kind = t.kind /\ s.m = t.m /\ s.intent = t.intent /\ s.pc = t.pc /\ s.aborted = t.aborted
  BY <1>1 DEF Commands
<1> QED
  BY <1>1, <1>2 DEF OfIntent, Unsent, v

LEMMA PersonTyped == ASSUME Typed, Ordered, Person PROVE Typed' /\ Ordered'
<1>0. /\ ServerTyped /\ ScreenTyped /\ RunsHeld /\ RestTyped /\ UndosMarked /\ CommandsTyped
      /\ ui \in Screens /\ queue \in [Memories -> Rows]
  BY TypedParts DEF Typed, ScreenTyped
<1>k. \A m \in Memories : queue[m] \in Rows /\ queue[m].version \in Nat /\ KindOf(queue[m]) \in Kinds
  <2>1. \A m \in Memories : queue[m] \in Rows
    BY <1>0
  <2> QED
    BY <2>1 DEF Rows, KindOf, Kinds
<1>1. ASSUME NEW m \in Memories, Keep(m) PROVE Typed' /\ Ordered'
  BY <1>1, <1>k, Pressed DEF Keep
<1>2. ASSUME NEW m \in Memories, Reject(m) PROVE Typed' /\ Ordered'
  <2>1. "reject" \in Kinds
    BY DEF Kinds
  <2> QED
    BY <1>2, <1>k, <2>1, Pressed DEF Reject
<1>3. ASSUME NEW m \in Memories, Edit(m) PROVE Typed' /\ Ordered'
  <2>1. ui' \in Screens
    BY <1>3, <1>0, <1>k, ScreensKept DEF Edit
  <2>2. ServerTyped' /\ RunsHeld' /\ RestTyped' /\ UndosMarked'
    BY <1>3, <1>0, ServerStays DEF Edit, RunsHeld, RestTyped, UndosMarked, Running
  <2> QED
    BY <1>3, <2>1, <2>2, <1>0, TypedParts DEF Edit, ScreenTyped
<1>4. ASSUME NEW m \in Memories, SubmitEdit(m) PROVE Typed' /\ Ordered'
  <2>1. "edit" \in Kinds /\ ui.mode.base \in Nat
    BY <1>0 DEF Kinds, Screens, Modes
  <2> QED
    BY <1>4, <1>k, <2>1, Pressed DEF SubmitEdit
<1>5. ASSUME NEW m \in Memories, SelectRow(m) PROVE Typed' /\ Ordered'
  <2> DEFINE stopped == IF waitFor # 0 THEN StopWaiting(ui, ui.waiting) ELSE ui
  <2>1. stopped \in Screens
    <3>1. ui.waiting \in Refs /\ m \in Memories /\ 0 \in Nat /\ Memories \in SUBSET Memories
      BY <1>0 DEF Screens
    <3> QED
      BY <1>0, <3>1, ScreensKept
  <2>2. ui' = Select(stopped, m)
    BY <1>5 DEF SelectRow
  <2> HIDE DEF stopped
  <2>3. ui' \in Screens
    <3>1. 0 \in Nat /\ {} \in SUBSET Memories
      OBVIOUS
    <3> QED
      BY <2>1, <2>2, <3>1, ScreensKept
  <2>4. RunsHeld'
    BY <1>5, <1>0, AbortHeld DEF SelectRow
  <2>5. RestTyped'
    <3>1. hurried' \in [seal : BOOLEAN, twice : BOOLEAN]
      BY <1>5, <1>0 DEF SelectRow, RestTyped
    <3> QED
      BY <1>5, <3>1, <1>0 DEF SelectRow, RestTyped
  <2>6. ServerTyped' /\ UndosMarked'
    BY <1>5, <1>0, ServerStays DEF SelectRow, UndosMarked
  <2> QED
    BY <1>5, <2>3, <2>4, <2>5, <2>6, <1>0, TypedParts DEF SelectRow, ScreenTyped
<1>6. ASSUME Combine PROVE Typed' /\ Ordered'
  <2>1. ui' \in Screens
    <3>1. ui.mode \in Modes /\ ui.mode.theirs \in Nat
      BY <1>0 DEF Screens, Modes
    <3>2. Editor(ui.mode) \in Modes
      BY <3>1 DEF Editor, Modes
    <3> QED
      BY <1>6, <1>0, <3>2 DEF Combine, Screens
  <2>2. ServerTyped' /\ RunsHeld' /\ RestTyped' /\ UndosMarked'
    BY <1>6, <1>0, ServerStays DEF Combine, RunsHeld, RestTyped, UndosMarked, Running
  <2> QED
    BY <1>6, <2>1, <2>2, <1>0, TypedParts DEF Combine, ScreenTyped
<1>7. ASSUME KeepTheirs PROVE Typed' /\ Ordered'
  <2>1. ui' \in Screens
    <3>1. Browse \in Modes
      BY Outside DEF Browse, Modes
    <3> QED
      BY <1>7, <1>0, <3>1 DEF KeepTheirs, Screens
  <2>2. ServerTyped' /\ RunsHeld' /\ RestTyped' /\ UndosMarked'
    BY <1>7, <1>0, ServerStays DEF KeepTheirs, RunsHeld, RestTyped, UndosMarked, Running
  <2>3. fetch' \in {fetch, Asked}
    BY <1>7 DEF KeepTheirs
  <2> QED
    BY <1>7, <2>1, <2>2, <2>3, <1>0, TypedParts, PlainFetch DEF KeepTheirs, ScreenTyped
<1>8. ASSUME Escape PROVE Typed' /\ Ordered'
  <2>1. ui' \in Screens
    <3>1. ui.waiting \in Refs
      BY <1>0 DEF Screens
    <3>2. ui.waiting \in Memories /\ 0 \in Nat /\ {} \in SUBSET Memories /\ "gone" \in {"kept", "rejected", "gone"}
      BY <3>1, <1>8 DEF Escape, Refs
    <3> QED
      BY <1>8, <1>0, <3>1, <3>2, ScreensKept DEF Escape
  <2>2. RunsHeld'
    BY <1>8, <1>0, AbortHeld DEF Escape
  <2>3. ServerTyped' /\ RestTyped' /\ UndosMarked'
    BY <1>8, <1>0, ServerStays DEF Escape, RestTyped, UndosMarked
  <2> QED
    BY <1>8, <2>1, <2>2, <2>3, <1>0, TypedParts DEF Escape, ScreenTyped
<1>9. ASSUME NEW t \in retries, Retry(t) PROVE Typed' /\ Ordered'
  <2> DEFINE r == [t EXCEPT !.order = Visible]
  <2>1. r \in Commands /\ OfIntent(r)
    BY RetryKnown
  <2>2. Starts(r) /\ retries' \subseteq retries
    BY <1>9 DEF Retry
  <2> HIDE DEF r
  <2> QED
    BY <2>1, <2>2, StartsTyped
<1>10. ASSUME NEW m \in Memories, NEW e \in 1 .. MaxPresses, Undo(m, e) PROVE Typed' /\ Ordered'
  <2>1. UndoDoes(m, e)
    <3>1. e \in Nat
      OBVIOUS
    <3> QED
      BY <1>10, <3>1, UndoView
  <2>2. ui' \in Screens
    <3>1. 0 \in Nat /\ {} \in SUBSET Memories /\ "gone" \in {"kept", "rejected", "gone"}
      OBVIOUS
    <3> QED
      BY <2>1, <1>0, <3>1, ScreensKept DEF UndoDoes
  <2>3. RunsHeld'
    BY <2>1, <1>0, AbortHeld DEF UndoDoes
  <2>4. ServerTyped'
    BY <2>1, <1>0, ServerStays DEF UndoDoes
  <2>5. RestTyped'
    <3>1. hurried' \in [seal : BOOLEAN, twice : BOOLEAN]
      BY <2>1, <1>0 DEF UndoDoes, RestTyped
    <3> QED
      BY <2>1, <3>1, <1>0 DEF UndoDoes, RestTyped
  <2>6. UndosMarked'
    <3>1. stack'[m][e].status = "undoing"
      BY <2>1, UndoingFields DEF UndoDoes, StackBecomes
    <3>2. DOMAIN stack'[m] = DOMAIN stack[m] /\ \A d \in DOMAIN stack[m] : d # e => stack'[m][d] = stack[m][d]
      BY <2>1 DEF UndoDoes, StackBecomes
    <3>3. \A n \in Memories : n # m => stack'[n] = stack[n]
      BY <2>1 DEF UndoDoes, StackBecomes
    <3> QED
      BY <3>1, <3>2, <3>3, <1>0 DEF UndosMarked
  <2> QED
    BY <2>1, <2>2, <2>3, <2>4, <2>5, <2>6, TypedParts, PlainFetch DEF UndoDoes, StackBecomes, ScreenTyped
<1> QED
  BY <1>1, <1>2, <1>3, <1>4, <1>5, <1>6, <1>7, <1>8, <1>9, <1>10 DEF Person

LEMMA GainsTyped ==
    ASSUME ScreenTyped, UndosMarked, NEW m \in Memories, NEW x, StackGains(m, x), x.pc = "idle"
    PROVE  stack' \in [Memories -> Seq(Entries)] /\ UndosMarked'
<1>1. stack' \in [Memories -> Seq(Entries)]
  BY DEF StackGains
<1>2. ASSUME NEW n \in Memories, NEW e \in DOMAIN stack'[n], stack'[n][e].pc # "idle"
      PROVE  stack'[n][e].status = "undoing"
  <2>1. CASE n # m
    <3>1. stack'[n] = stack[n]
      BY <2>1 DEF StackGains
    <3> QED
      BY <1>2, <3>1 DEF UndosMarked
  <2>2. CASE n = m
    <3>1. e \in DOMAIN stack[m] /\ stack'[m][e] = stack[m][e]
      BY <1>2, <2>2 DEF StackGains
    <3> QED
      BY <1>2, <2>2, <3>1 DEF UndosMarked
  <2> QED
    BY <2>1, <2>2
<1> QED
  BY <1>1, <1>2 DEF UndosMarked

LEMMA BecomesTyped ==
    ASSUME ScreenTyped, UndosMarked, NEW m \in Memories, NEW e, NEW x, StackBecomes(m, e, x),
           x.pc # "idle" => x.status = "undoing"
    PROVE  stack' \in [Memories -> Seq(Entries)] /\ UndosMarked'
<1>1. /\ stack' \in [Memories -> Seq(Entries)] /\ DOMAIN stack'[m] = DOMAIN stack[m] /\ stack'[m][e] = x
      /\ \A d \in DOMAIN stack[m] : d # e => stack'[m][d] = stack[m][d]
      /\ \A n \in Memories : n # m => stack'[n] = stack[n]
  BY DEF StackBecomes
<1> QED
  BY <1>1 DEF UndosMarked

LEMMA NetworkTyped == ASSUME Typed, Ordered, NEW i \in DOMAIN runs, Network(i) \/ Fault(i) PROVE Typed' /\ Ordered'
<1>0. /\ ServerTyped /\ ScreenTyped /\ RunsHeld /\ RestTyped /\ UndosMarked /\ CommandsTyped
      /\ ui \in Screens /\ queue \in [Memories -> Rows] /\ stack \in [Memories -> Seq(Entries)]
      /\ fetch \in [state : {"idle", "asked", "answered"}, rows : [Memories -> Rows]]
  BY TypedParts DEF Typed, ScreenTyped
<1> DEFINE r == runs[i]
<1>r. r \in Commands => /\ r.m \in Memories /\ r.m \in Refs /\ r.answer \in Replies /\ 0 \in Nat /\ TRUE \in BOOLEAN
                        /\ FALSE \in BOOLEAN
  BY Outside DEF Commands
<1>1. ASSUME NEW a \in Replies, ServeDoes(i, a) PROVE Typed' /\ Ordered'
  <2>1. i \in Running /\ r \in Commands /\ RunBecomes(i, AnsweredRun(r, a)) /\ UNCHANGED waitFor
    BY <1>1 DEF ServeDoes
  <2>2. AnsweredRun(r, a) \in Commands /\ Fixed(r, AnsweredRun(r, a))
    BY <2>1, <1>r, MovesKept
  <2>3. RunsHeld'
    <3> DEFINE s == AnsweredRun(r, a)
    <3> HIDE DEF s
    <3>1. s \in Commands /\ Fixed(r, s) /\ RunBecomes(i, s)
      BY <2>1, <2>2 DEF s
    <3> QED
      BY <2>1, <3>1, <1>0, MoveHeld
  <2>4. ServerTyped'
    <3>1. CASE UNCHANGED <<srv, log, claims>>
      BY <3>1, <1>0, ServerStays
    <3>2. CASE \E o \in Outcome(r) : Apply(r.m, o[1], o[2], keyFor(i))
      <4>1. PICK o \in Outcome(r) : Apply(r.m, o[1], o[2], keyFor(i))
        BY <3>2
      <4>2. o[1] \in Records /\ o[2] \in Replies
        BY <2>1, <1>0, OutcomesKnown
      <4>3. Len(log[r.m]) + 1 \in Nat
        <5>1. log[r.m] \in Seq(Changes)
          BY <2>1, <1>0, <1>r DEF ServerTyped
        <5> QED
          BY <5>1
      <4>4. [o[2] EXCEPT !.receipt = Len(log[r.m]) + 1] \in Replies
        BY <4>2, <4>3, RepliesKept
      <4>5. keyFor(i) \in Keys
        <5> DEFINE S == {s \in settled : s.intent = r.intent}
        <5>1. Cardinality(S) \in Nat
          BY <1>0, FS_Subset, FS_CardinalityType DEF RestTyped
        <5>2. r.intent \in Intents
          BY <2>1 DEF Commands
        <5> QED
          BY <5>1, <5>2 DEF keyFor, Keys
      <4>6. claims' \subseteq [key : Keys, answer : Replies]
        <5> DEFINE k == keyFor(i)
                   a2 == [o[2] EXCEPT !.receipt = Len(log[r.m]) + 1]
        <5>1. claims' = claims \cup {[key |-> k, answer |-> a2]}
          BY <4>1 DEF Apply
        <5>2. k \in Keys /\ a2 \in Replies
          BY <4>4, <4>5
        <5>3. claims \subseteq [key : Keys, answer : Replies]
          BY <1>0 DEF ServerTyped
        <5> HIDE DEF k, a2
        <5> QED
          BY <5>1, <5>2, <5>3
      <4> QED
        BY <4>1, <4>2, <4>6, <2>1, <1>0, <1>r, WritesTyped DEF Apply
    <3> QED
      BY <1>1, <3>1, <3>2 DEF ServeDoes
  <2> QED
    BY <1>1, <2>3, <2>4, <1>0, TypedParts DEF ServeDoes, ScreenTyped, RestTyped, UndosMarked
<1>2. ASSUME AppliedDoes(i) PROVE Typed' /\ Ordered'
  <2>1. i \in Running /\ r \in Commands /\ StackGains(r.m, Entry(r)) /\ settled' = settle(r.intent)
    BY <1>2 DEF AppliedDoes
  <2>2. stack' \in [Memories -> Seq(Entries)] /\ UndosMarked'
    <3>1. Entry(r).pc = "idle"
      BY DEF Entry
    <3> QED
      BY <2>1, <3>1, <1>0, <1>r, GainsTyped
  <2>3. settled' \in SUBSET Keys /\ IsFiniteSet(settled')
    BY <2>1, <1>0, SettleTyped
  <2>4. ui' \in Screens /\ fetch' \in {fetch, Asked}
    BY <1>2, <2>1, <1>0, EndScreens DEF AppliedDoes
  <2>5. RunsHeld' /\ busyRef' \in Refs
    <3>1. CASE Finish(i)
      BY <2>1, <3>1, <1>0, FinishHeld, Outside
    <3>2. CASE RunBecomes(i, SealingRun(r, Len(stack[r.m]) + 1)) /\ UNCHANGED <<busyRef, waitFor>>
      <4> DEFINE s == SealingRun(r, Len(stack[r.m]) + 1)
      <4>1. Len(stack[r.m]) + 1 \in Nat
        <5>1. stack[r.m] \in Seq(Entries)
          BY <1>0, <1>r, <2>1
        <5> QED
          BY <5>1
      <4>2. s \in Commands /\ Fixed(r, s)
        BY <2>1, <4>1, <1>r, MovesKept
      <4> HIDE DEF s
      <4>3. RunBecomes(i, s)
        BY <3>2 DEF s
      <4> QED
        BY <2>1, <3>2, <4>2, <4>3, <1>0, MoveHeld DEF RestTyped
    <3> QED
      BY <1>2, <3>1, <3>2 DEF AppliedDoes
  <2>6. ServerTyped'
    BY <1>2, <1>0, ServerStays DEF AppliedDoes
  <2> QED
    BY <1>2, <2>2, <2>3, <2>4, <2>5, <2>6, <1>0, TypedParts, PlainFetch DEF AppliedDoes, ScreenTyped, RestTyped
<1>3. ASSUME SavedDoes(i) PROVE Typed' /\ Ordered'
  <2>1. /\ i \in Running /\ r \in Commands /\ StackGains(r.m, Entry(r)) /\ settled' = settle(r.intent)
        /\ queue' \in [Memories -> Rows] /\ ui' = Waiting(ui, r.m) /\ busyRef' = r.m /\ waitFor' = i
    BY <1>3 DEF SavedDoes
  <2>2. stack' \in [Memories -> Seq(Entries)] /\ UndosMarked'
    <3>1. Entry(r).pc = "idle"
      BY DEF Entry
    <3> QED
      BY <2>1, <3>1, <1>0, <1>r, GainsTyped
  <2>3. settled' \in SUBSET Keys /\ IsFiniteSet(settled')
    BY <2>1, <1>0, SettleTyped
  <2>4. ui' \in Screens
    BY <2>1, <1>0, EndScreens
  <2>5. RunsHeld'
    <3>1. PICK s \in Commands : RunBecomes(i, s) /\ OfIntent(s) /\ s.kind = "keep"
      BY <1>3 DEF SavedDoes
    <3>2. i \in DOMAIN runs /\ i \in Nat
      <4>1. DOMAIN runs = 1 .. Len(runs)
        BY <1>0, RunningKnown
      <4> QED
        BY <4>1
    <3> QED
      BY <2>1, <3>1, <3>2, <1>0, NotEnded, RunningKnown DEF RunsHeld, RunBecomes
  <2>6. ServerTyped'
    BY <1>3, <1>0, ServerStays DEF SavedDoes
  <2>7. hurried' \in [seal : BOOLEAN, twice : BOOLEAN]
    BY <1>3, <1>0 DEF SavedDoes, RestTyped
  <2> QED
    BY <1>3, <2>1, <2>2, <2>3, <2>4, <2>5, <2>6, <2>7, <1>0, <1>r, TypedParts DEF SavedDoes, ScreenTyped, RestTyped
<1>4. ASSUME Advance(i) PROVE Typed' /\ Ordered'
  <2>1. i \in Running /\ r \in Commands /\ Finish(i)
    BY <1>4, <1>0, RunningKnown DEF Advance
  <2>2. RunsHeld' /\ busyRef' \in Refs
    BY <2>1, <1>0, FinishHeld, Outside
  <2>3. ui' \in Screens /\ fetch' \in {fetch, Asked}
    BY <1>4, <2>1, <1>0, EndScreens DEF Advance
  <2>4. ServerTyped'
    BY <1>4, <1>0, ServerStays DEF Advance
  <2> QED
    BY <1>4, <2>2, <2>3, <2>4, <1>0, TypedParts, PlainFetch DEF Advance, ScreenTyped, RestTyped, UndosMarked
<1>5. ASSUME BusyDoes(i) PROVE Typed' /\ Ordered'
  <2>1. i \in Running /\ r \in Commands
    BY <1>5 DEF BusyDoes
  <2>2. ui' \in Screens
    BY <1>5, <2>1, <1>0, EndScreens DEF BusyDoes
  <2>3. RunsHeld' /\ busyRef' \in Refs
    <3>1. CASE Finish(i)
      BY <2>1, <3>1, <1>0, FinishHeld, Outside
    <3>2. CASE (\E b \in BOOLEAN : RunBecomes(i, PausingRun(r, b))) /\ UNCHANGED <<busyRef, waitFor>>
      <4>1. PICK b \in BOOLEAN : RunBecomes(i, PausingRun(r, b))
        BY <3>2
      <4> DEFINE s == PausingRun(r, b)
      <4>2. s \in Commands /\ Fixed(r, s)
        BY <2>1, <1>r, MovesKept
      <4> HIDE DEF s
      <4>3. RunBecomes(i, s)
        BY <4>1 DEF s
      <4> QED
        BY <2>1, <3>2, <4>2, <4>3, <1>0, MoveHeld DEF RestTyped
    <3> QED
      BY <1>5, <3>1, <3>2 DEF BusyDoes
  <2>4. ServerTyped'
    BY <1>5, <1>0, ServerStays DEF BusyDoes
  <2> QED
    BY <1>5, <2>2, <2>3, <2>4, <1>0, TypedParts DEF BusyDoes, ScreenTyped, RestTyped, UndosMarked
<1>6. ASSUME ResumeDoes(i) PROVE Typed' /\ Ordered'
  <2>1. i \in Running /\ r \in Commands
    BY <1>6 DEF ResumeDoes
  <2>2. RunsHeld' /\ busyRef' \in Refs
    <3>1. CASE Finish(i)
      BY <2>1, <3>1, <1>0, FinishHeld, Outside
    <3>2. CASE RunBecomes(i, AskedRun(r)) /\ UNCHANGED <<busyRef, waitFor>>
      <4> DEFINE s == AskedRun(r)
      <4>1. s \in Commands /\ Fixed(r, s)
        BY <2>1, <1>r, MovesKept
      <4> HIDE DEF s
      <4>2. RunBecomes(i, s)
        BY <3>2 DEF s
      <4> QED
        BY <2>1, <3>2, <4>1, <4>2, <1>0, MoveHeld DEF RestTyped
    <3> QED
      BY <1>6, <3>1, <3>2 DEF ResumeDoes
  <2>3. ServerTyped'
    BY <1>6, <1>0, ServerStays DEF ResumeDoes
  <2> QED
    BY <1>6, <2>2, <2>3, <1>0, TypedParts DEF ResumeDoes, ScreenTyped, RestTyped, UndosMarked
<1>7. ASSUME FailedDoes(i) PROVE Typed' /\ Ordered'
  <2>1. i \in Running /\ r \in Commands /\ Finish(i) /\ OfIntent(r)
    BY <1>7, <1>0 DEF FailedDoes, RunsHeld
  <2>2. RunsHeld' /\ busyRef' \in Refs
    BY <2>1, <1>0, FinishHeld, Outside
  <2>3. ui' \in Screens
    BY <1>7, <2>1, <1>0, RolledKnown DEF FailedDoes
  <2>4. settled' \in SUBSET Keys /\ IsFiniteSet(settled')
    BY <1>7, <2>1, <1>0, SettleTyped DEF FailedDoes, RestTyped
  <2>5. retries' \subseteq Commands /\ \A t \in retries' : OfIntent(t) /\ Unsent(t)
    <3>1. retries' \subseteq retries \cup {Again(r)}
      BY <1>7 DEF FailedDoes
    <3>2. Again(r) \in Commands /\ OfIntent(Again(r)) /\ Unsent(Again(r))
      BY <2>1, <1>0, AgainKnown
    <3> QED
      BY <3>1, <3>2, <1>0 DEF RestTyped
  <2>6. ServerTyped'
    BY <1>7, <1>0, ServerStays DEF FailedDoes
  <2>7. UndosMarked' /\ queue' \in [Memories -> Rows] /\ fetch' \in {fetch, Asked} /\ UNCHANGED <<stack, left, hurried>>
    BY <1>7, <1>0 DEF FailedDoes, UndosMarked
  <2>8. ScreenTyped'
    BY <2>3, <2>7, <1>0, PlainFetch DEF ScreenTyped
  <2>9. RestTyped'
    BY <2>2, <2>4, <2>5, <2>7, <1>0 DEF RestTyped, OfIntent, Unsent
  <2> QED
    BY <2>2, <2>6, <2>7, <2>8, <2>9, TypedParts
<1>8. ASSUME Clashed(i) PROVE Typed' /\ Ordered'
  <2>1. i \in Running /\ r \in Commands /\ Finish(i)
    BY <1>8, <1>0, RunningKnown DEF Clashed, Handles
  <2>2. RunsHeld' /\ busyRef' \in Refs
    BY <2>1, <1>0, FinishHeld, Outside
  <2>3. ui' \in Screens
    <3>1. srv[r.m].version \in Nat
      <4>1. srv[r.m] \in Records
        BY <1>0, <1>r, <2>1 DEF ServerTyped
      <4> QED
        BY <4>1 DEF Records
    <3>2. {} \in SUBSET Memories /\ "gone" \in {"kept", "rejected", "gone"}
      OBVIOUS
    <3> QED
      BY <1>8, <2>1, <3>1, <3>2, <1>0, <1>r, ScreensKept DEF Clashed
  <2>4. settled' \in SUBSET Keys /\ IsFiniteSet(settled')
    BY <1>8, <2>1, <1>0, SettleTyped DEF Clashed
  <2>5. ServerTyped'
    BY <1>8, <1>0, ServerStays DEF Clashed
  <2> QED
    BY <1>8, <2>2, <2>3, <2>4, <2>5, <1>0, TypedParts DEF Clashed, ScreenTyped, RestTyped, UndosMarked
<1>9. ASSUME FaultDoes(i) PROVE Typed' /\ Ordered'
  <2>1. PICK a \in Replies : RunBecomes(i, AnsweredRun(r, a))
    BY <1>9 DEF FaultDoes
  <2>2. i \in Running /\ r \in Commands /\ UNCHANGED waitFor
    BY <1>9 DEF FaultDoes
  <2> DEFINE s == AnsweredRun(r, a)
  <2>3. s \in Commands /\ Fixed(r, s)
    BY <2>2, <1>r, MovesKept
  <2> HIDE DEF s
  <2>4. RunBecomes(i, s)
    BY <2>1 DEF s
  <2>5. RunsHeld'
    BY <2>2, <2>3, <2>4, <1>0, MoveHeld
  <2>6. ServerTyped'
    BY <1>9, <1>0, ServerStays DEF FaultDoes
  <2> QED
    BY <1>9, <2>5, <2>6, <1>0, TypedParts DEF FaultDoes, ScreenTyped, RestTyped, UndosMarked
<1>10. CASE Serve(i)
  BY <1>1, <1>10, ServeView
<1>11. CASE Applied(i)
  BY <1>2, <1>11, AppliedView
<1>12. CASE SavedForJudge(i)
  BY <1>3, <1>12, SavedView
<1>13. CASE Busy(i)
  BY <1>5, <1>13, BusyView
<1>14. CASE Resume(i)
  BY <1>6, <1>14, ResumeView
<1>15. CASE Failed(i)
  BY <1>7, <1>15, FailedView
<1>16. CASE Fault(i)
  BY <1>9, <1>16, FaultView
<1> QED
  BY <1>4, <1>8, <1>10, <1>11, <1>12, <1>13, <1>14, <1>15, <1>16 DEF Network

LEMMA OthersTyped ==
    ASSUME Typed, Ordered, ReceiptsKnown,
           \/ \E m \in Memories, e \in 1 .. MaxPresses : UndoStep(m, e) \/ UndoFault(m, e)
           \/ \E m \in Memories : Judge(m) \/ Elsewhere(m)
           \/ Refetch
           \/ Fetched
    PROVE  Typed' /\ Ordered'
<1>0. /\ ServerTyped /\ ScreenTyped /\ RunsHeld /\ RestTyped /\ UndosMarked /\ CommandsTyped
      /\ ui \in Screens /\ queue \in [Memories -> Rows] /\ stack \in [Memories -> Seq(Entries)]
      /\ fetch \in [state : {"idle", "asked", "answered"}, rows : [Memories -> Rows]]
  BY TypedParts DEF Typed, ScreenTyped
<1>1. ASSUME NEW m \in Memories, NEW e \in Nat, UndoServeDoes(m, e) PROVE Typed' /\ Ordered'
  <2> DEFINE x == stack[m][e]
  <2>1. e \in DOMAIN stack[m] /\ x \in Entries /\ x.pc = "asked" /\ x.status = "undoing"
    BY <1>1, <1>0 DEF UndoServeDoes, UndosMarked
  <2>2. stack' \in [Memories -> Seq(Entries)] /\ UndosMarked'
    <3>1. PICK answer \in {"ok", "refused"}, landed \in {x.landed, TRUE} : StackBecomes(m, e, HeardEntry(x, answer, landed))
      BY <1>1 DEF UndoServeDoes
    <3> DEFINE y == HeardEntry(x, answer, landed)
    <3>2. y.status = "undoing"
      BY <2>1, HeardFields
    <3> HIDE DEF y
    <3>3. StackBecomes(m, e, y)
      BY <3>1 DEF y
    <3> QED
      BY <3>2, <3>3, <1>0, BecomesTyped
  <2>3. ServerTyped'
    <3>1. CASE UNCHANGED <<srv, log>>
      BY <1>1, <3>1, <1>0, ServerStays DEF UndoServeDoes
    <3>2. CASE Writes(m, log[m][x.receipt].before)
      <4>1. x.receipt \in DOMAIN log[m] /\ log[m] \in Seq(Changes)
        BY <2>1, <1>0 DEF ReceiptsKnown, ServerTyped
      <4>2. log[m][x.receipt].before \in Records
        <5>1. log[m][x.receipt] \in Changes
          BY <4>1
        <5> QED
          BY <5>1 DEF Changes
      <4>3. claims' \subseteq [key : Keys, answer : Replies]
        BY <1>1, <1>0 DEF UndoServeDoes, ServerTyped
      <4> QED
        BY <3>2, <4>2, <4>3, <1>0, WritesTyped
    <3> QED
      BY <1>1, <3>1, <3>2 DEF UndoServeDoes
  <2> QED
    BY <1>1, <2>2, <2>3, <1>0, TypedParts DEF UndoServeDoes, ScreenTyped, RunsHeld, Running, RestTyped
<1>2. ASSUME NEW m \in Memories, NEW e \in Nat, UndoFaultDoes(m, e) PROVE Typed' /\ Ordered'
  <2> DEFINE x == stack[m][e]
             y == HeardEntry(x, "unreachable", x.landed)
  <2>1. e \in DOMAIN stack[m] /\ x \in Entries /\ x.status = "undoing" /\ StackBecomes(m, e, y)
    BY <1>2, <1>0 DEF UndoFaultDoes, UndosMarked
  <2>2. y.status = "undoing"
    BY <2>1, HeardFields
  <2> HIDE DEF y
  <2>3. stack' \in [Memories -> Seq(Entries)] /\ UndosMarked'
    BY <2>1, <2>2, <1>0, BecomesTyped
  <2>4. ServerTyped'
    BY <1>2, <1>0, ServerStays DEF UndoFaultDoes
  <2> QED
    BY <1>2, <2>3, <2>4, <1>0, TypedParts DEF UndoFaultDoes, ScreenTyped, RunsHeld, Running, RestTyped
<1>3. ASSUME NEW m \in Memories, NEW e \in Nat, UndoEndsDoes(m, e) PROVE Typed' /\ Ordered'
  <2> DEFINE x == stack[m][e]
  <2>1. e \in DOMAIN stack[m] /\ x \in Entries
    BY <1>3 DEF UndoEndsDoes
  <2>2. PICK status \in {"undone", "done", "dropped"} : StackBecomes(m, e, OverEntry(x, status))
    BY <1>3 DEF UndoEndsDoes
  <2> DEFINE y == OverEntry(x, status)
  <2>3. y.pc = "idle" /\ StackBecomes(m, e, y)
    BY <2>1, <2>2, OverFields
  <2> HIDE DEF y
  <2>4. stack' \in [Memories -> Seq(Entries)] /\ UndosMarked'
    BY <2>3, <1>0, BecomesTyped
  <2>5. ui' \in Screens
    <3>1. Visible \in SUBSET Memories /\ 0 \in Nat /\ "gone" \in {"kept", "rejected", "gone"}
      BY DEF Visible
    <3> QED
      BY <1>3, <3>1, <1>0, ScreensKept DEF UndoEndsDoes
  <2>6. ServerTyped'
    BY <1>3, <1>0, ServerStays DEF UndoEndsDoes
  <2> QED
    BY <1>3, <2>4, <2>5, <2>6, <1>0, TypedParts, PlainFetch DEF UndoEndsDoes, ScreenTyped, RunsHeld, Running, RestTyped
<1>4. ASSUME NEW m \in Memories, Judge(m) PROVE Typed' /\ Ordered'
  <2>1. PICK conflict \in BOOLEAN : srv' = [srv EXCEPT ![m].judged = TRUE, ![m].conflict = conflict]
    BY <1>4 DEF Judge
  <2> DEFINE row == [srv[m] EXCEPT !.judged = TRUE, !.conflict = conflict]
  <2>2. srv[m] \in Records /\ srv \in [Memories -> Records]
    BY <1>0 DEF ServerTyped
  <2>3. row \in Records /\ row.version = srv[m].version
    BY <2>2 DEF Records
  <2>4. srv' = [srv EXCEPT ![m] = row]
    BY <2>1, <2>2
  <2> HIDE DEF row
  <2>5. srv' \in [Memories -> Records] /\ \A n \in Memories : srv'[n].version = srv[n].version
    BY <2>2, <2>3, <2>4
  <2>6. ServerTyped'
    <3>1. UNCHANGED <<log, claims>>
      BY <1>4 DEF Judge
    <3>2. \A n \in Memories : Bounded(n)'
      BY <2>5, <3>1, <1>0 DEF ServerTyped, Bounded
    <3> QED
      BY <2>5, <3>1, <3>2, <1>0 DEF ServerTyped
  <2> QED
    BY <1>4, <2>6, <1>0, TypedParts DEF Judge, ScreenTyped, RunsHeld, Running, RestTyped, UndosMarked
<1>5. ASSUME NEW m \in Memories, Elsewhere(m) PROVE Typed' /\ Ordered'
  <2>1. srv[m] \in Records /\ left.trouble > 0
    BY <1>5, <1>0 DEF ServerTyped, Elsewhere
  <2>2. PICK row : /\ row \in {[srv[m] EXCEPT !.life = "kept", !.conflict = FALSE],
                               [srv[m] EXCEPT !.life = "rejected", !.conflict = FALSE],
                               NewWords(m, "other", "proposed", TRUE),
                               [srv[m] EXCEPT !.conflict = FALSE]}
                   /\ Writes(m, row)
    BY <1>5 DEF Elsewhere
  <2>3. row \in Records
    <3>1. NewWords(m, "other", "proposed", TRUE) \in Records
      BY <1>0, NewWordsKnown
    <3>2. /\ [srv[m] EXCEPT !.life = "kept", !.conflict = FALSE] \in Records
          /\ [srv[m] EXCEPT !.life = "rejected", !.conflict = FALSE] \in Records
          /\ [srv[m] EXCEPT !.conflict = FALSE] \in Records
      BY <2>1 DEF Records
    <3> QED
      BY <2>2, <3>1, <3>2
  <2>4. ServerTyped'
    <3>1. claims' \subseteq [key : Keys, answer : Replies]
      BY <1>5, <1>0 DEF Elsewhere, ServerTyped
    <3> QED
      BY <2>2, <2>3, <3>1, <1>0, WritesTyped
  <2>5. left' \in [trouble : Nat, undos : Nat]
    BY <1>5, <2>1, <1>0, TroubleLeft DEF Elsewhere, RestTyped
  <2> QED
    BY <1>5, <2>4, <2>5, <1>0, TypedParts DEF Elsewhere, ScreenTyped, RunsHeld, Running, RestTyped, UndosMarked
<1>6. ASSUME Refetch PROVE Typed' /\ Ordered'
  <2>1. Proposed \in [Memories -> Rows]
    <3>1. \A m \in Memories : srv[m].version \in Nat /\ srv[m].conflict \in BOOLEAN
      <4>1. \A m \in Memories : srv[m] \in Records
        BY <1>0 DEF ServerTyped
      <4> QED
        BY <4>1 DEF Records
    <3> QED
      BY <3>1 DEF Proposed, Rows, NoRow
  <2>2. fetch' \in [state : {"idle", "asked", "answered"}, rows : [Memories -> Rows]]
    BY <1>6, <2>1, PlainFetch DEF Refetch
  <2>3. ServerTyped'
    BY <1>6, <1>0, ServerStays DEF Refetch
  <2> QED
    BY <1>6, <2>2, <2>3, <1>0, TypedParts DEF Refetch, ScreenTyped, RunsHeld, Running, RestTyped, UndosMarked
<1>7. ASSUME Fetched PROVE Typed' /\ Ordered'
  <2>1. queue' \in [Memories -> Rows]
    BY <1>7, <1>0 DEF Fetched
  <2>2. ServerTyped'
    BY <1>7, <1>0, ServerStays DEF Fetched
  <2> QED
    BY <1>7, <2>1, <2>2, <1>0, TypedParts, PlainFetch DEF Fetched, ScreenTyped, RunsHeld, Running, RestTyped, UndosMarked
<1>8. ASSUME NEW m \in Memories, NEW e \in 1 .. MaxPresses, UndoStep(m, e) \/ UndoFault(m, e) PROVE Typed' /\ Ordered'
  <2>1. e \in Nat
    OBVIOUS
  <2>2. CASE UndoServe(m, e)
    BY <2>1, <2>2, <1>1, UndoServeView
  <2>3. CASE UndoEnds(m, e)
    BY <2>1, <2>3, <1>3, UndoEndsView
  <2>4. CASE UndoFault(m, e)
    BY <2>1, <2>4, <1>2, UndoFaultView
  <2> QED
    BY <1>8, <2>2, <2>3, <2>4 DEF UndoStep
<1> QED
  BY <1>4, <1>5, <1>6, <1>7, <1>8

LEMMA TypedNext == Typed /\ Ordered /\ ReceiptsKnown /\ [Next]_vars => Typed' /\ Ordered'
<1> SUFFICES ASSUME Typed, Ordered, ReceiptsKnown, [Next]_vars PROVE Typed' /\ Ordered'
  OBVIOUS
<1>1. CASE Person
  BY <1>1, PersonTyped
<1>2. CASE \E i \in DOMAIN runs : Network(i) \/ Fault(i)
  BY <1>2, NetworkTyped
<1>3. CASE UNCHANGED vars
  <2>1. ServerTyped' /\ ScreenTyped' /\ RunsHeld' /\ RestTyped' /\ UndosMarked'
    BY <1>3, TypedParts DEF vars, ServerTyped, Bounded, ScreenTyped, RunsHeld, Running, RestTyped, UndosMarked
  <2> QED
    BY <2>1, TypedParts
<1> QED
  BY <1>1, <1>2, <1>3, OthersTyped DEF Next

-----------------------------------------------------------------------------
\* Outcomes

\* No step rewrites a memory's history, or an entry's place in it.
HistoryKept ==
    \A m \in Memories : /\ DOMAIN log[m] \subseteq DOMAIN log'[m]
                        /\ \A n \in DOMAIN log[m] : LifeAfter(m, n)' = LifeAfter(m, n)

StackGrows ==
    \A m \in Memories : /\ DOMAIN stack[m] \subseteq DOMAIN stack'[m]
                        /\ \A e \in DOMAIN stack[m] : /\ stack'[m][e].receipt = stack[m][e].receipt
                                                      /\ stack[m][e].landed => stack'[m][e].landed

LivesStay == UNCHANGED log /\ \A m \in Memories : srv'[m].life = srv[m].life

LEMMA LifeKept == LivesStay => HistoryKept
BY DEF LivesStay, HistoryKept, LifeAfter

\* One command more: what was before it is as it was, and it left row.
LEMMA LifeWritten ==
    ASSUME ServerTyped, NEW m \in Memories, NEW row \in Records, Writes(m, row)
    PROVE  /\ HistoryKept
           /\ DOMAIN log[m] = 1 .. Len(log[m]) /\ Len(log[m]) \in Nat
           /\ DOMAIN log'[m] = 1 .. Len(log[m]) + 1
           /\ \A n : n = Len(log[m]) + 1 => LifeAfter(m, n)' = row.life
           /\ Len(log[m]) # 0 => LifeAfter(m, Len(log[m])) = srv[m].life
           /\ \A n \in Memories : n # m => log'[n] = log[n] /\ srv'[n] = srv[n]
<1> DEFINE ch == [before |-> srv[m], after |-> row.version]
           L == Len(log[m])
<1>1. log[m] \in Seq(Changes) /\ log \in [Memories -> Seq(Changes)] /\ srv \in [Memories -> Records]
  BY DEF ServerTyped
<1>2. srv' = [srv EXCEPT ![m] = row] /\ log' = [log EXCEPT ![m] = Append(@, ch)]
  BY DEF Writes
<1>3. /\ DOMAIN log[m] = 1 .. L /\ L \in Nat
      /\ log'[m] = Append(log[m], ch) /\ srv'[m] = row
      /\ \A n \in Memories : n # m => log'[n] = log[n] /\ srv'[n] = srv[n]
  BY <1>1, <1>2
<1>b. ch.before = srv[m]
  OBVIOUS
<1> HIDE DEF ch
<1>4. /\ Len(Append(log[m], ch)) = L + 1 /\ DOMAIN Append(log[m], ch) = 1 .. L + 1
      /\ Append(log[m], ch)[L + 1] = ch
      /\ \A n \in 1 .. L : Append(log[m], ch)[n] = log[m][n]
  BY <1>1
<1>5. /\ Len(log'[m]) = L + 1 /\ DOMAIN log'[m] = 1 .. L + 1 /\ log'[m][L + 1] = ch
      /\ \A n \in 1 .. L : log'[m][n] = log[m][n]
  BY <1>3, <1>4
<1> HIDE DEF L
<1>6. \A n \in 1 .. L : LifeAfter(m, n)' = LifeAfter(m, n)
  <2> TAKE n \in 1 .. L
  <2>1. CASE n < L
    <3>1. n + 1 \in 1 .. L /\ n < L + 1
      BY <2>1, <1>3
    <3>2. log'[m][n + 1] = log[m][n + 1]
      BY <3>1, <1>5
    <3> QED
      BY <2>1, <3>1, <3>2, <1>5 DEF LifeAfter, L
  <2>2. CASE n = L
    <3>1. n < L + 1 /\ ~(n < L)
      BY <2>2, <1>3
    <3>2. log'[m][n + 1] = ch
      BY <2>2, <1>5
    <3> QED
      BY <3>1, <3>2, <1>5, <1>b DEF LifeAfter, L
  <2> QED
    BY <2>1, <2>2, <1>3
<1>7. HistoryKept
  <2>1. \A n \in Memories : n # m => DOMAIN log[n] \subseteq DOMAIN log'[n]
                                     /\ \A k \in DOMAIN log[n] : LifeAfter(n, k)' = LifeAfter(n, k)
    BY <1>3 DEF LifeAfter
  <2>2. DOMAIN log[m] \subseteq DOMAIN log'[m]
    BY <1>3, <1>5
  <2> QED
    BY <2>1, <2>2, <1>3, <1>6 DEF HistoryKept
<1>8. ASSUME NEW n, n = L + 1 PROVE LifeAfter(m, n)' = row.life
  <2>1. ~(n < L + 1)
    BY <1>3, <1>8
  <2> QED
    BY <2>1, <1>3, <1>5 DEF LifeAfter
<1>9. L # 0 => LifeAfter(m, L) = srv[m].life
  BY <1>3 DEF LifeAfter, L
<1> QED
  BY <1>3, <1>5, <1>7, <1>8, <1>9 DEF L


LEMMA GivenKept ==
    ASSUME HistoryKept, NEW m \in Memories, NEW kind, NEW a, Given(m, kind, a)
    PROVE  Given(m, kind, a)'
BY DEF HistoryKept, Given

LEMMA ClaimsKept ==
    ASSUME ServerTyped, HistoryKept, ClaimsGiven, UNCHANGED claims
    PROVE  ClaimsGiven'
<1> SUFFICES ASSUME NEW c \in claims PROVE c.answer.kind = "ok" /\ Given(c.key.intent.m, c.key.intent.kind, c.answer)'
  BY DEF ClaimsGiven
<1>1. c.key.intent.m \in Memories
  BY DEF ServerTyped, Keys, Intents
<1>2. c.answer.kind = "ok" /\ Given(c.key.intent.m, c.key.intent.kind, c.answer)
  BY DEF ClaimsGiven
<1> QED
  BY <1>1, <1>2, GivenKept

LEMMA GivenStays ==
    ASSUME CommandsTyped, HistoryKept, StackGrows, ReceiptsKnown, NEW j \in Running, GivenAt(j),
           \/ runs'[j] = runs[j]
           \/ runs'[j] = AbortedRun(runs[j])
    PROVE  GivenAt(j)'
<1>1. PICK r \in Commands : r = runs[j]
  BY RunningKnown
<1>2. PICK m \in Memories : m = r.m
  BY DEF Commands
<1>3. PICK k, a, e, pc : k = r.kind /\ a = r.answer /\ e = r.entry /\ pc = r.pc
  OBVIOUS
<1>4. /\ runs'[j].pc = pc /\ runs'[j].m = m /\ runs'[j].kind = k /\ runs'[j].answer = a
      /\ runs'[j].entry = e
  <2>1. CASE runs'[j] = runs[j]
    BY <1>1, <1>2, <1>3, <2>1
  <2>2. CASE runs'[j] = AbortedRun(runs[j])
    BY <2>2, <1>1, <1>2, <1>3 DEF AbortedRun, Commands
  <2> QED
    BY <2>1, <2>2
<1>5. ASSUME pc = "answered", a.kind = "ok" PROVE Given(m, k, a)'
  <2>1. Given(m, k, a)
    BY <1>1, <1>2, <1>3, <1>5 DEF GivenAt
  <2> QED
    BY <2>1, GivenKept
<1>6. ASSUME pc = "sealing"
      PROVE  e \in DOMAIN stack'[m] /\ LifeAfter(m, stack[m][e].receipt)' = "kept"
  <2>1. e \in DOMAIN stack[m] /\ LifeAfter(m, stack[m][e].receipt) = "kept"
    BY <1>1, <1>2, <1>3, <1>6 DEF GivenAt
  <2>2. PICK n : n = stack[m][e].receipt
    OBVIOUS
  <2>3. n \in DOMAIN log[m]
    BY <2>1, <2>2 DEF ReceiptsKnown
  <2>4. LifeAfter(m, n)' = "kept"
    BY <2>1, <2>2, <2>3 DEF HistoryKept
  <2>5. stack'[m][e].receipt = n /\ e \in DOMAIN stack'[m]
    BY <2>1, <2>2 DEF StackGrows
  <2> QED
    BY <2>4, <2>5
<1>7. GivenAt(j)' = /\ pc = "answered" /\ a.kind = "ok" => Given(m, k, a)'
                    /\ pc = "sealing" => e \in DOMAIN stack'[m] /\ LifeAfter(m, stack[m][e].receipt)' = "kept"
  BY <1>4 DEF GivenAt, Given
<1> QED
  BY <1>5, <1>6, <1>7

LEMMA RunsGivenKept ==
    ASSUME CommandsTyped, HistoryKept, StackGrows, ReceiptsKnown, RunsGiven,
           \A j \in Running' : \/ j \in Running /\ (runs'[j] = runs[j] \/ runs'[j] = AbortedRun(runs[j]))
                               \/ GivenAt(j)'
    PROVE  RunsGiven'
<1> SUFFICES ASSUME NEW j \in Running' PROVE GivenAt(j)'
  BY DEF RunsGiven
<1>1. CASE j \in Running /\ (runs'[j] = runs[j] \/ runs'[j] = AbortedRun(runs[j]))
  <2>1. GivenAt(j)
    BY <1>1 DEF RunsGiven
  <2> QED
    BY <1>1, <2>1, GivenStays
<1> QED
  BY <1>1

LEMMA ReceiptsKept ==
    ASSUME HistoryKept, ReceiptsKnown,
           \A m \in Memories : \A e \in DOMAIN stack'[m] :
              \/ e \in DOMAIN stack[m] /\ stack'[m][e].receipt = stack[m][e].receipt
              \/ stack'[m][e].receipt \in DOMAIN log'[m]
    PROVE  ReceiptsKnown'
BY DEF HistoryKept, ReceiptsKnown

LEMMA StandKept ==
    ASSUME LivesStay, StackGrows, DecisionsStand
    PROVE  DecisionsStand'
<1>1. \A m \in Memories : DOMAIN log'[m] = DOMAIN log[m] /\ \A n \in DOMAIN log[m] : LifeAfter(m, n)' = LifeAfter(m, n)
  BY DEF LivesStay, LifeAfter
<1>2. \A m \in Memories : \A n : ~Landed(m, n)' => ~Landed(m, n)
  BY DEF StackGrows, Landed
<1> QED
  BY <1>1, <1>2 DEF DecisionsStand

LEMMA StandWritten ==
    ASSUME ServerTyped, StackGrows, DecisionsStand, NEW m \in Memories, NEW row \in Records, Writes(m, row),
           \A n \in DOMAIN log[m] : LifeAfter(m, n) \in Decisions /\ ~Landed(m, n)' => row.life = LifeAfter(m, n)
    PROVE  DecisionsStand'
<1> DEFINE L == Len(log[m])
<1>0. \A i \in Memories : \A n : ~Landed(i, n)' => ~Landed(i, n)
  BY DEF StackGrows, Landed
<1>1. /\ DOMAIN log[m] = 1 .. L /\ L \in Nat
      /\ DOMAIN log'[m] = 1 .. L + 1
      /\ \A n \in DOMAIN log[m] : LifeAfter(m, n)' = LifeAfter(m, n)
      /\ \A n \in Memories : n # m => log'[n] = log[n] /\ srv'[n] = srv[n]
  BY LifeWritten DEF HistoryKept
<1>2. PICK last : last = L + 1 /\ LifeAfter(m, last)' = row.life
  BY LifeWritten
<1> HIDE DEF L
<1>3. ASSUME NEW i \in Memories, i # m, NEW n \in DOMAIN log'[i], LifeAfter(i, n)' \in Decisions, ~Landed(i, n)',
             NEW k \in DOMAIN log'[i], n <= k
      PROVE  LifeAfter(i, k)' = LifeAfter(i, n)'
  <2>1. log'[i] = log[i] /\ srv'[i] = srv[i] /\ ~Landed(i, n)
    BY <1>3, <1>0, <1>1
  <2>2. \A l : LifeAfter(i, l)' = LifeAfter(i, l)
    BY <2>1 DEF LifeAfter
  <2> QED
    BY <1>3, <2>1, <2>2 DEF DecisionsStand
<1>4. ASSUME NEW n \in DOMAIN log'[m], LifeAfter(m, n)' \in Decisions, ~Landed(m, n)',
             NEW k \in DOMAIN log'[m], n <= k
      PROVE  LifeAfter(m, k)' = LifeAfter(m, n)'
  <2>1. CASE n = last
    <3>1. k = n
      BY <1>1, <1>2, <1>4, <2>1
    <3> QED
      BY <3>1
  <2>2. CASE n # last
    <3>1. n \in DOMAIN log[m] /\ LifeAfter(m, n)' = LifeAfter(m, n) /\ ~Landed(m, n)
      BY <1>0, <1>1, <1>2, <1>4, <2>2
    <3>2. CASE k = last
      BY <3>1, <3>2, <1>2, <1>4
    <3>3. CASE k # last
      <4>1. k \in DOMAIN log[m] /\ LifeAfter(m, k)' = LifeAfter(m, k)
        BY <1>1, <1>2, <3>3
      <4> QED
        BY <3>1, <4>1, <1>4 DEF DecisionsStand
    <3> QED
      BY <3>2, <3>3
  <2> QED
    BY <2>1, <2>2
<1>5. \A i \in Memories : \A n \in DOMAIN log'[i] :
         LifeAfter(i, n)' \in Decisions /\ ~Landed(i, n)'
            => \A k \in DOMAIN log'[i] : n <= k => LifeAfter(i, k)' = LifeAfter(i, n)'
  BY <1>3, <1>4
<1> QED
  BY <1>5 DEF DecisionsStand

\* What left the queue and is still out has the entry it had.
LEMMA LeftKept ==
    ASSUME HistoryKept, ReceiptsKnown, LeftAsDecided,
           \A m \in Memories : ui'.done[m] \in Decisions =>
              \/ /\ ui'.done[m] = ui.done[m]
                 /\ \A e \in DOMAIN stack[m] : stack[m][e].status = "done" =>
                       /\ e \in DOMAIN stack'[m] /\ stack'[m][e].status = "done"
                       /\ stack'[m][e].receipt = stack[m][e].receipt
              \/ \E e \in DOMAIN stack'[m] : /\ stack'[m][e].status = "done"
                                             /\ LifeAfter(m, stack[m][e].receipt)' = ui'.done[m]
    PROVE  LeftAsDecided'
<1> SUFFICES ASSUME NEW m \in Memories, ui'.done[m] \in Decisions
             PROVE  \E e \in DOMAIN stack'[m] : /\ stack'[m][e].status = "done"
                                                /\ LifeAfter(m, stack[m][e].receipt)' = ui'.done[m]
  BY DEF LeftAsDecided
<1>1. CASE /\ ui'.done[m] = ui.done[m]
           /\ \A e \in DOMAIN stack[m] : stack[m][e].status = "done" =>
                 /\ e \in DOMAIN stack'[m] /\ stack'[m][e].status = "done"
                 /\ stack'[m][e].receipt = stack[m][e].receipt
  <2>1. PICK e \in DOMAIN stack[m] : stack[m][e].status = "done" /\ LifeAfter(m, stack[m][e].receipt) = ui.done[m]
    BY <1>1 DEF LeftAsDecided
  <2>2. PICK n : n = stack[m][e].receipt
    OBVIOUS
  <2>3. n \in DOMAIN log[m]
    BY <2>2 DEF ReceiptsKnown
  <2>4. LifeAfter(m, n)' = ui'.done[m]
    BY <1>1, <2>1, <2>2, <2>3 DEF HistoryKept
  <2>5. e \in DOMAIN stack'[m] /\ stack'[m][e].status = "done" /\ stack'[m][e].receipt = n
    BY <1>1, <2>1, <2>2
  <2>6. LifeAfter(m, stack[m][e].receipt)' = LifeAfter(m, n)'
    BY <2>5 DEF LifeAfter
  <2> QED
    BY <2>4, <2>5, <2>6
<1> QED
  BY <1>1

LEMMA WaitDone == ASSUME NEW u \in Screens, NEW m PROVE StopWaiting(u, m).done = u.done
  BY DEF Screens, StopWaiting

LEMMA ClashDone == ASSUME NEW u \in Screens, NEW m, NEW n PROVE Clash(u, m, n).done = u.done
  BY DEF Screens, Clash

\* The reducer takes a card out only by Decided, and brings it back only by Restore.
LEMMA ScreenDone ==
    ASSUME NEW u \in Screens, NEW m \in Memories
    PROVE  /\ Select(u, m).done = u.done /\ Seal(u, m).done = u.done /\ Waiting(u, m).done = u.done
           /\ Unseal(u, m).done = u.done /\ Settled(u, m).done = u.done
           /\ \A w : StopWaiting(u, w).done = u.done
           /\ \A n : Editing(u, m, n).done = u.done /\ Clash(u, m, n).done = u.done
           /\ Restore(u, m).done = [u.done EXCEPT ![m] = "no"]
<1>1. /\ Select(u, m).done = u.done /\ Seal(u, m).done = u.done /\ Waiting(u, m).done = u.done
      /\ Unseal(u, m).done = u.done /\ Settled(u, m).done = u.done
      /\ \A w : StopWaiting(u, w).done = u.done
  BY DEF Screens, Select, Seal, Waiting, StopWaiting, Unseal, Settled
<1>2. \A n : Editing(u, m, n).done = u.done /\ Clash(u, m, n).done = u.done
  BY DEF Screens, Editing, Clash
<1>3. Clear(u, m).done = u.done
  BY DEF Screens, Clear
<1>4. Restore(u, m).done = [u.done EXCEPT ![m] = "no"]
  <2> DEFINE v == Clear(u, m)
  <2>1. v \in Screens
    <3>1. 0 \in Nat /\ {} \in SUBSET Memories /\ "gone" \in {"kept", "rejected", "gone"}
      OBVIOUS
    <3> QED
      BY <3>1, ScreensKept
  <2> HIDE DEF v
  <2>2. [v EXCEPT !.done[m] = "no", !.selected = m].done = [v.done EXCEPT ![m] = "no"]
    BY <2>1 DEF Screens
  <2> QED
    BY <2>2, <1>3 DEF Restore, v
<1> QED
  BY <1>1, <1>2, <1>4

LEMMA DecidedDone ==
    ASSUME NEW u \in Screens, NEW m \in Memories, NEW outcome, NEW order
    PROVE  Decided(u, m, outcome, order).done = [u.done EXCEPT ![m] = outcome]
<1> DEFINE v == Clear(u, m)
           s == IF v.selected \in {m, None} THEN nextAfter(order, m) ELSE v.selected
<1>1. v \in Screens
  <2>1. 0 \in Nat /\ {} \in SUBSET Memories /\ "gone" \in {"kept", "rejected", "gone"}
    OBVIOUS
  <2> QED
    BY <2>1, ScreensKept
<1> HIDE DEF v
<1>2. Decided(u, m, outcome, order) = [v EXCEPT !.done[m] = outcome, !.selected = s]
  BY <1>1 DEF Decided, v, Screens
<1> HIDE DEF s
<1>3. [v EXCEPT !.done[m] = outcome, !.selected = s].done = [v.done EXCEPT ![m] = outcome]
  BY <1>1 DEF Screens
<1>4. v.done = u.done
  BY DEF v, Screens, Clear
<1> QED
  BY <1>2, <1>3, <1>4 DEF v

\* What a step must do with the commands, the entries and the cards.
RunsFollow ==
    \A j \in Running' : \/ j \in Running /\ (runs'[j] = runs[j] \/ runs'[j] = AbortedRun(runs[j]))
                        \/ GivenAt(j)'

EntriesFollow ==
    /\ StackGrows
    /\ \A m \in Memories : \A e \in DOMAIN stack'[m] :
          e \in DOMAIN stack[m] \/ stack'[m][e].receipt \in DOMAIN log'[m]

Remains(m) ==
    \A e \in DOMAIN stack[m] : stack[m][e].status = "done" => e \in DOMAIN stack'[m] /\ stack'[m][e].status = "done"

Left(m, e) == \E n : stack'[m][e].receipt = n /\ LifeAfter(m, n)' = ui'.done[m]

CardsFollow ==
    \A m \in Memories : ui'.done[m] \in Decisions =>
       \/ ui'.done[m] = ui.done[m] /\ Remains(m)
       \/ \E e \in DOMAIN stack'[m] : stack'[m][e].status = "done" /\ Left(m, e)

LEMMA OutcomeFollows ==
    ASSUME Typed, OutcomeInv, HistoryKept, ClaimsGiven', DecisionsStand', RunsFollow, EntriesFollow, CardsFollow
    PROVE  OutcomeInv'
<1>1. /\ CommandsTyped /\ StackGrows /\ ReceiptsKnown /\ RunsGiven /\ LeftAsDecided
  BY DEF Typed, OutcomeInv, EntriesFollow
<1>2. RunsGiven'
  BY <1>1, RunsGivenKept DEF RunsFollow
<1>3. ReceiptsKnown'
  BY <1>1, ReceiptsKept DEF EntriesFollow, StackGrows
<1>4. LeftAsDecided'
  <2> SUFFICES ASSUME NEW m \in Memories, ui'.done[m] \in Decisions
               PROVE  \/ /\ ui'.done[m] = ui.done[m]
                         /\ \A e \in DOMAIN stack[m] : stack[m][e].status = "done" =>
                               /\ e \in DOMAIN stack'[m] /\ stack'[m][e].status = "done"
                               /\ stack'[m][e].receipt = stack[m][e].receipt
                      \/ \E e \in DOMAIN stack'[m] : /\ stack'[m][e].status = "done"
                                                     /\ LifeAfter(m, stack[m][e].receipt)' = ui'.done[m]
    BY <1>1, LeftKept
  <2>1. CASE ui'.done[m] = ui.done[m] /\ Remains(m)
    BY <1>1, <2>1 DEF Remains, StackGrows
  <2>2. CASE \E e \in DOMAIN stack'[m] : stack'[m][e].status = "done" /\ Left(m, e)
    <3>1. PICK e \in DOMAIN stack'[m] : stack'[m][e].status = "done" /\ Left(m, e)
      BY <2>2
    <3>2. PICK n : stack'[m][e].receipt = n /\ LifeAfter(m, n)' = ui'.done[m]
      BY <3>1 DEF Left
    <3>3. LifeAfter(m, stack[m][e].receipt)' = LifeAfter(m, n)'
      BY <3>2 DEF LifeAfter
    <3> QED
      BY <3>1, <3>2, <3>3
  <2> QED
    BY <2>1, <2>2 DEF CardsFollow
<1> QED
  BY <1>2, <1>3, <1>4 DEF OutcomeInv

LEMMA OutcomeQuiet ==
    ASSUME Typed, OutcomeInv, LivesStay, UNCHANGED claims, RunsFollow, EntriesFollow, CardsFollow
    PROVE  OutcomeInv'
<1>1. HistoryKept
  BY LifeKept
<1>2. ClaimsGiven'
  BY <1>1, ClaimsKept DEF Typed, OutcomeInv
<1>3. DecisionsStand'
  BY StandKept DEF OutcomeInv, EntriesFollow
<1> QED
  BY <1>1, <1>2, <1>3, OutcomeFollows

LEMMA ServerRests == UNCHANGED <<srv, log>> => LivesStay
BY DEF LivesStay

LEMMA StackRests == UNCHANGED stack => EntriesFollow /\ \A m \in Memories : Remains(m)
BY DEF EntriesFollow, StackGrows, Remains

LEMMA RunsRest == UNCHANGED runs => RunsFollow
BY DEF RunsFollow, Running

\* A card that did not leave as kept or rejected in this step.
LEMMA CardsRest ==
    ASSUME ScreenTyped, \A m \in Memories : Remains(m),
           \/ ui'.done = ui.done
           \/ \E m \in Memories, outcome \in {"no", "gone"} : ui'.done = [ui.done EXCEPT ![m] = outcome]
    PROVE  CardsFollow
<1>1. ui.done \in [Memories -> {"no", "kept", "rejected", "gone"}]
  BY DEF ScreenTyped, Screens
<1> QED
  BY <1>1 DEF CardsFollow, Decisions

LEMMA StackPushed ==
    ASSUME ScreenTyped, NEW m \in Memories, NEW x, StackGains(m, x), x.receipt \in DOMAIN log'[m]
    PROVE  EntriesFollow /\ \A n \in Memories : Remains(n)
<1>1. \A n \in Memories : \A e \in DOMAIN stack[n] : e \in DOMAIN stack'[n] /\ stack'[n][e] = stack[n][e]
  BY DEF StackGains
<1>2. \A n \in Memories : \A e \in DOMAIN stack'[n] : e \in DOMAIN stack[n] \/ (n = m /\ stack'[n][e] = x)
  BY DEF StackGains
<1> QED
  BY <1>1, <1>2 DEF EntriesFollow, StackGrows, Remains

LEMMA StackMoved ==
    ASSUME ScreenTyped, NEW m \in Memories, NEW e \in DOMAIN stack[m], NEW x, StackBecomes(m, e, x),
           x.receipt = stack[m][e].receipt, stack[m][e].landed => x.landed
    PROVE  /\ EntriesFollow
           /\ \A n \in Memories : n # m => Remains(n)
           /\ (stack[m][e].status = "done" => x.status = "done") => Remains(m)
<1>1. \A n \in Memories : n # m => stack'[n] = stack[n]
  BY DEF StackBecomes
<1>2. /\ DOMAIN stack'[m] = DOMAIN stack[m] /\ stack'[m][e] = x
      /\ \A d \in DOMAIN stack[m] : d # e => stack'[m][d] = stack[m][d]
  BY DEF StackBecomes
<1> QED
  BY <1>1, <1>2 DEF EntriesFollow, StackGrows, Remains

LEMMA RunMoved ==
    ASSUME CommandsTyped, NEW i \in Running, NEW r, RunBecomes(i, r), r # Ended => GivenAt(i)'
    PROVE  RunsFollow
<1>1. \A j \in Running' : j \in Running
  BY DEF RunBecomes
<1>2. \A j \in Running' : j # i => runs'[j] = runs[j]
  BY <1>1, RunningKnown DEF RunBecomes
<1>3. i \in Running' => r # Ended
  BY DEF RunBecomes
<1> QED
  BY <1>1, <1>2, <1>3 DEF RunsFollow

LEMMA RunIdles ==
    ASSUME NEW i, NEW r, RunBecomes(i, r), r.pc \in {"asked", "pausing"}
    PROVE  GivenAt(i)'
BY DEF RunBecomes, GivenAt

LEMMA RunEnds ==
    ASSUME CommandsTyped, RunsHeld, NEW i \in Running, Finish(i)
    PROVE  RunsFollow
BY FinishHeld, RunMoved

LEMMA RunsAbort == ASSUME CommandsTyped, runs' = Abort PROVE RunsFollow
<1>1. CASE waitFor = 0
  BY <1>1, AbortMoves, RunsRest
<1>2. CASE waitFor # 0
  <2>1. waitFor \in Running /\ RunBecomes(waitFor, AbortedRun(runs[waitFor]))
    BY <1>2, AbortMoves
  <2>2. \A j \in Running' : j \in Running /\ j \in DOMAIN runs
    BY <2>1, RunningKnown DEF RunBecomes
  <2> QED
    BY <2>1, <2>2 DEF RunsFollow, RunBecomes
<1> QED
  BY <1>1, <1>2

LEMMA StartsOutcome ==
    ASSUME Typed, OutcomeInv, NEW r \in Commands, Unsent(r), Starts(r)
    PROVE  OutcomeInv'
<1>0. CommandsTyped /\ ScreenTyped /\ ui \in Screens /\ r.m \in Memories
  BY DEF Typed, ScreenTyped, Commands
<1>1. /\ UNCHANGED <<srv, log, claims, stack>> /\ runs' = Append(runs, r)
      /\ ui' = IF r.kind = "reject" THEN [ui EXCEPT !.busy = r.m] ELSE Seal(ui, r.m)
  BY DEF Starts
<1>2. ui'.done = ui.done
  <2>1. [ui EXCEPT !.busy = r.m].done = ui.done
    BY <1>0 DEF Screens
  <2> QED
    BY <1>0, <1>1, <2>1, ScreenDone
<1>3. RunsFollow
  <2>1. /\ runs'[Len(runs) + 1] = r
        /\ \A j \in DOMAIN runs : j \in DOMAIN runs' /\ runs'[j] = runs[j]
        /\ Running' = Running \cup {Len(runs) + 1}
    BY <1>0, <1>1, AddedMoves
  <2>2. PICK k : k = Len(runs) + 1
    OBVIOUS
  <2>3. runs'[k].pc = "asked"
    BY <2>1, <2>2 DEF Unsent
  <2>4. GivenAt(k)'
    BY <2>3 DEF GivenAt
  <2>5. \A j \in Running : runs'[j] = runs[j]
    BY <2>1, <1>0, RunningKnown
  <2> QED
    BY <2>1, <2>2, <2>4, <2>5 DEF RunsFollow
<1> QED
  BY <1>0, <1>1, <1>2, <1>3, ServerRests, StackRests, CardsRest, OutcomeQuiet

LEMMA UnsentRun ==
    \A kind \in Kinds, m \in Memories, version \in Nat :
        Typed => /\ Run(kind, m, queue[m], version) \in Commands
                 /\ Unsent(Run(kind, m, queue[m], version))
                 /\ OfIntent(Run(kind, m, queue[m], version))
<1> SUFFICES ASSUME NEW kind \in Kinds, NEW m \in Memories, NEW version \in Nat, Typed
             PROVE  /\ Run(kind, m, queue[m], version) \in Commands
                    /\ Unsent(Run(kind, m, queue[m], version))
                    /\ OfIntent(Run(kind, m, queue[m], version))
  OBVIOUS
<1>1. queue[m] \in Rows /\ ScreenTyped
  BY DEF Typed, ScreenTyped
<1>2. Run(kind, m, queue[m], version) \in Commands /\ OfIntent(Run(kind, m, queue[m], version))
  BY <1>1, RunKnown
<1>3. Unsent(Run(kind, m, queue[m], version))
  BY DEF Unsent, Run
<1> QED
  BY <1>2, <1>3

LEMMA KindsKnown ==
    Typed => \A m \in Memories : queue[m].version \in Nat /\ KindOf(queue[m]) \in Kinds /\ ui.mode.base \in Nat
<1> SUFFICES ASSUME Typed, NEW m \in Memories
             PROVE  queue[m].version \in Nat /\ KindOf(queue[m]) \in Kinds /\ ui.mode.base \in Nat
  OBVIOUS
<1>1. queue[m] \in Rows /\ ui.mode \in Modes
  BY DEF Typed, ScreenTyped, Screens
<1> QED
  BY <1>1 DEF Rows, Modes, KindOf, Kinds

\* The four presses are one step: a command of the card, which is sent.
LEMMA PressKnown ==
    ASSUME Typed, NEW m \in Memories, Keep(m) \/ Reject(m) \/ SubmitEdit(m)
    PROVE  \E kind \in Kinds, version \in Nat : /\ Starts(Run(kind, m, queue[m], version))
                                                /\ kind = "edit" => ui.mode.kind = "editing"
                                                /\ Pressable(m) /\ busyRef = None /\ UNCHANGED retries
<1>1. queue[m].version \in Nat /\ KindOf(queue[m]) \in Kinds /\ ui.mode.base \in Nat
  BY KindsKnown
<1>2. CASE Keep(m)
  <2>1. KindOf(queue[m]) # "edit"
    BY DEF KindOf
  <2> QED
    BY <1>1, <1>2, <2>1 DEF Keep
<1>3. CASE Reject(m)
  <2>1. "reject" \in Kinds /\ "reject" # "edit"
    BY DEF Kinds
  <2> QED
    BY <1>1, <1>3, <2>1 DEF Reject
<1>4. CASE SubmitEdit(m)
  <2>1. "edit" \in Kinds
    BY DEF Kinds
  <2> QED
    BY <1>1, <1>4, <2>1 DEF SubmitEdit
<1> QED
  BY <1>2, <1>3, <1>4

LEMMA PersonOutcome == ASSUME Typed, Ordered, OutcomeInv, Person PROVE OutcomeInv'
<1>0. /\ CommandsTyped /\ ScreenTyped /\ ui \in Screens /\ queue \in [Memories -> Rows]
  BY DEF Typed, ScreenTyped
<1>1. ASSUME NEW m \in Memories, Keep(m) \/ Reject(m) \/ SubmitEdit(m) PROVE OutcomeInv'
  <2>1. PICK kind \in Kinds, version \in Nat : Starts(Run(kind, m, queue[m], version))
    BY <1>1, PressKnown
  <2> QED
    BY <2>1, UnsentRun, StartsOutcome
<1>2. ASSUME NEW m \in Memories, Edit(m) PROVE OutcomeInv'
  <2>1. ui'.done = ui.done
    BY <1>2, <1>0, ScreenDone DEF Edit
  <2> QED
    BY <1>2, <2>1, <1>0, ServerRests, StackRests, RunsRest, CardsRest, OutcomeQuiet DEF Edit
<1>3. ASSUME NEW m \in Memories, SelectRow(m) PROVE OutcomeInv'
  <2> DEFINE stopped == IF waitFor # 0 THEN StopWaiting(ui, ui.waiting) ELSE ui
  <2>1. stopped \in Screens /\ stopped.done = ui.done
    <3>1. ui.waiting \in Refs /\ 0 \in Nat /\ {} \in SUBSET Memories /\ "gone" \in {"kept", "rejected", "gone"}
      BY <1>0 DEF Screens
    <3>2. StopWaiting(ui, ui.waiting) \in Screens
      BY <1>0, <3>1, ScreensKept
    <3>3. StopWaiting(ui, ui.waiting).done = ui.done
      BY <1>0, ScreenDone
    <3> QED
      BY <1>0, <3>2, <3>3
  <2>2. ui' = Select(stopped, m)
    BY <1>3 DEF SelectRow
  <2> HIDE DEF stopped
  <2>3. ui'.done = ui.done
    BY <2>1, <2>2, ScreenDone
  <2> QED
    BY <1>3, <2>3, <1>0, ServerRests, StackRests, RunsAbort, CardsRest, OutcomeQuiet DEF SelectRow
<1>4. ASSUME Combine PROVE OutcomeInv'
  <2>1. ui'.done = ui.done
    BY <1>4, <1>0 DEF Combine, Screens
  <2> QED
    BY <1>4, <2>1, <1>0, ServerRests, StackRests, RunsRest, CardsRest, OutcomeQuiet DEF Combine
<1>5. ASSUME KeepTheirs PROVE OutcomeInv'
  <2>1. ui'.done = ui.done
    BY <1>5, <1>0 DEF KeepTheirs, Screens
  <2> QED
    BY <1>5, <2>1, <1>0, ServerRests, StackRests, RunsRest, CardsRest, OutcomeQuiet DEF KeepTheirs
<1>6. ASSUME Escape PROVE OutcomeInv'
  <2>1. ui'.done = ui.done
    <3>1. ui.waiting \in Memories
      BY <1>6, <1>0 DEF Escape, Screens, Refs
    <3> QED
      BY <1>6, <1>0, <3>1, ScreenDone DEF Escape
  <2> QED
    BY <1>6, <2>1, <1>0, ServerRests, StackRests, RunsAbort, CardsRest, OutcomeQuiet DEF Escape
<1>7. ASSUME NEW t \in retries, Retry(t) PROVE OutcomeInv'
  <2> DEFINE r == [t EXCEPT !.order = Visible]
  <2>1. r \in Commands /\ Unsent(r)
    BY RetryKnown
  <2>2. Starts(r)
    BY <1>7 DEF Retry
  <2> HIDE DEF r
  <2> QED
    BY <2>1, <2>2, StartsOutcome
<1>8. ASSUME NEW m \in Memories, NEW e \in 1 .. MaxPresses, Undo(m, e) PROVE OutcomeInv'
  <2>1. UndoDoes(m, e)
    <3>1. e \in Nat
      OBVIOUS
    <3> QED
      BY <1>8, <3>1, UndoView
  <2> DEFINE x == stack[m][e]
             y == UndoingEntry(x, queue)
  <2>2. x \in Entries /\ e \in DOMAIN stack[m] /\ StackBecomes(m, e, y)
    BY <2>1 DEF UndoDoes
  <2>3. y.receipt = x.receipt /\ y.landed = x.landed
    BY <2>2, UndoingFields
  <2> HIDE DEF y
  <2>4. EntriesFollow /\ \A n \in Memories : n # m => Remains(n)
    BY <2>2, <2>3, <1>0, StackMoved
  <2>5. CardsFollow
    <3>1. ui'.done = [ui.done EXCEPT ![m] = "no"]
      BY <2>1, <1>0, ScreenDone DEF UndoDoes
    <3>2. ui.done \in [Memories -> {"no", "kept", "rejected", "gone"}]
      BY <1>0 DEF Screens
    <3> QED
      BY <2>4, <3>1, <3>2 DEF CardsFollow, Decisions
  <2> QED
    BY <2>1, <2>4, <2>5, <1>0, ServerRests, RunsAbort, OutcomeQuiet DEF UndoDoes
<1> QED
  BY <1>1, <1>2, <1>3, <1>4, <1>5, <1>6, <1>7, <1>8 DEF Person

\* What an applied command was told, seen from the memory and the kind it is of.
LEMMA ToldOutcome ==
    ASSUME Typed, OutcomeInv, NEW i \in Running, runs[i].pc = "answered", runs[i].answer.kind = "ok",
           ~runs[i].answer.pending, UNCHANGED <<srv, log>>
    PROVE  /\ runs[i].answer.receipt \in DOMAIN log[runs[i].m]
           /\ LifeAfter(runs[i].m, runs[i].answer.receipt)
                 = IF runs[i].kind = "reject" THEN "rejected" ELSE "kept"
BY DEF OutcomeInv, RunsGiven, GivenAt, Given

LEMMA LivesSame == UNCHANGED <<srv, log>> => \A m, n : LifeAfter(m, n)' = LifeAfter(m, n)
BY DEF LifeAfter

LEMMA AppliedOutcome == ASSUME Typed, Ordered, OutcomeInv, NEW i, AppliedDoes(i) PROVE OutcomeInv'
<1>0. CommandsTyped /\ ScreenTyped /\ ui \in Screens /\ RunsHeld
  BY TypedParts DEF Typed, ScreenTyped
<1>1. PICK r \in Commands : r = runs[i]
  BY DEF AppliedDoes
<1>2. PICK m \in Memories : m = r.m
  BY DEF Commands
<1>3. PICK n : n = r.answer.receipt
  OBVIOUS
<1>4. PICK e : e = Len(stack[m]) + 1
  OBVIOUS
<1>5. PICK life \in Decisions : life = IF r.kind = "reject" THEN "rejected" ELSE "kept"
  BY DEF Decisions
<1>6. /\ i \in Running /\ UNCHANGED <<srv, log, claims>> /\ StackGains(m, Entry(r))
      /\ runs[i].pc = "answered" /\ runs[i].answer.kind = "ok" /\ ~runs[i].answer.pending
  BY <1>1, <1>2 DEF AppliedDoes
<1>7. n \in DOMAIN log[m] /\ LifeAfter(m, n) = life
  BY <1>1, <1>2, <1>3, <1>5, <1>6, ToldOutcome
<1>8. LifeAfter(m, n)' = life
  BY <1>6, <1>7, LivesSame
<1>9. /\ e \in DOMAIN stack'[m] /\ stack'[m][e] = Entry(r)
      /\ Entry(r).receipt = n /\ Entry(r).status = "done"
  BY <1>3, <1>4, <1>6, EntryKnown DEF StackGains
<1>10. EntriesFollow /\ \A k \in Memories : Remains(k)
  <2>1. Entry(r).receipt \in DOMAIN log'[m]
    BY <1>6, <1>7, <1>9
  <2> QED
    BY <1>0, <1>6, <2>1, StackPushed
<1>11. CASE /\ r.kind = "reject" \/ r.aborted
            /\ ui' = Decided(ui, r.m, IF r.kind = "reject" THEN "rejected" ELSE "kept", r.order)
            /\ Finish(i)
  <2>1. ui'.done = [ui.done EXCEPT ![m] = life]
    <3>1. ui' = Decided(ui, m, life, r.order)
      BY <1>2, <1>5, <1>11
    <3> QED
      BY <1>0, <3>1, DecidedDone
  <2>2. ui.done \in [Memories -> {"no", "kept", "rejected", "gone"}]
    BY <1>0 DEF Screens
  <2>3. CardsFollow
    <3> SUFFICES ASSUME NEW k \in Memories, k = m
                 PROVE  \E d \in DOMAIN stack'[k] : stack'[k][d].status = "done" /\ Left(k, d)
      BY <2>1, <2>2, <1>10 DEF CardsFollow
    <3> QED
      BY <1>8, <1>9, <2>1, <2>2 DEF Left
  <2>4. RunsFollow
    BY <1>0, <1>6, <1>11, RunEnds
  <2> QED
    BY <1>6, <1>10, <2>3, <2>4, ServerRests, OutcomeQuiet
<1>12. CASE /\ r.kind # "reject" /\ ~r.aborted
            /\ ui' = IF r.waited THEN Seal(ui, r.m) ELSE ui
            /\ RunBecomes(i, SealingRun(r, Len(stack[r.m]) + 1))
  <2>1. ui'.done = ui.done
    BY <1>0, <1>2, <1>12, ScreenDone
  <2>2. PICK s : s = SealingRun(r, e) /\ s.pc = "sealing" /\ s.entry = e /\ s.m = m
    <3>1. SealingRun(r, e).pc = "sealing" /\ SealingRun(r, e).entry = e /\ SealingRun(r, e).m = r.m
      BY DEF SealingRun, Commands
    <3> QED
      BY <3>1, <1>2
  <2>3. RunBecomes(i, s)
    BY <1>2, <1>4, <1>12, <2>2
  <2>4. GivenAt(i)'
    <3>1. runs'[i] = s
      BY <2>3 DEF RunBecomes
    <3>2. LifeAfter(m, stack[m][e].receipt)' = LifeAfter(m, n)'
      BY <1>9 DEF LifeAfter
    <3>3. LifeAfter(m, stack[m][e].receipt)' = "kept"
      BY <1>5, <1>8, <1>12, <3>2
    <3>4. GivenAt(i)' = (e \in DOMAIN stack'[m] /\ LifeAfter(m, stack[m][e].receipt)' = "kept")
      BY <2>2, <3>1 DEF GivenAt
    <3> QED
      BY <1>9, <3>3, <3>4
  <2>5. RunsFollow
    BY <1>0, <1>6, <2>3, <2>4, RunMoved
  <2> QED
    BY <1>0, <1>6, <1>10, <2>1, <2>5, ServerRests, CardsRest, OutcomeQuiet
<1> QED
  BY <1>1, <1>11, <1>12 DEF AppliedDoes

LEMMA SavedOutcome == ASSUME Typed, Ordered, OutcomeInv, NEW i, SavedDoes(i) PROVE OutcomeInv'
<1>0. CommandsTyped /\ ScreenTyped /\ ui \in Screens
  BY DEF Typed, ScreenTyped
<1>1. PICK r \in Commands : r = runs[i]
  BY DEF SavedDoes
<1>2. r.m \in Memories
  BY DEF Commands
<1>3. /\ i \in Running /\ UNCHANGED <<srv, log, claims>> /\ StackGains(r.m, Entry(r)) /\ ui' = Waiting(ui, r.m)
      /\ \E s \in Commands : RunBecomes(i, s) /\ Unsent(s)
  BY <1>1 DEF SavedDoes
<1>4. ui'.done = ui.done
  BY <1>0, <1>2, <1>3, ScreenDone
<1>5. EntriesFollow /\ \A k \in Memories : Remains(k)
  <2>1. r.answer.receipt \in DOMAIN log[r.m]
    BY <1>1, <1>3 DEF SavedDoes, OutcomeInv, RunsGiven, GivenAt, Given
  <2>2. Entry(r).receipt \in DOMAIN log'[r.m]
    BY <2>1, <1>3, EntryKnown
  <2> QED
    BY <1>0, <1>2, <1>3, <2>2, StackPushed
<1>6. RunsFollow
  <2>1. PICK s \in Commands : RunBecomes(i, s) /\ Unsent(s)
    BY <1>3
  <2>2. GivenAt(i)'
    BY <2>1, RunIdles DEF Unsent
  <2> QED
    BY <1>0, <1>3, <2>1, <2>2, RunMoved
<1> QED
  BY <1>0, <1>3, <1>4, <1>5, <1>6, ServerRests, CardsRest, OutcomeQuiet

LEMMA AdvanceOutcome == ASSUME Typed, Ordered, OutcomeInv, NEW i \in DOMAIN runs, Advance(i) PROVE OutcomeInv'
<1>0. CommandsTyped /\ ScreenTyped /\ ui \in Screens /\ RunsHeld
  BY TypedParts DEF Typed, ScreenTyped
<1>1. /\ i \in Running /\ runs[i] \in Commands /\ runs[i].pc = "sealing" /\ UNCHANGED <<srv, log, claims, stack>>
      /\ Finish(i)
  BY <1>0, RunningKnown DEF Advance
<1>2. PICK m \in Memories, e \in Nat : m = runs[i].m /\ e = runs[i].entry
  BY <1>1 DEF Commands
<1>3. e \in DOMAIN stack[m] /\ LifeAfter(m, stack[m][e].receipt) = "kept"
  BY <1>1, <1>2 DEF OutcomeInv, RunsGiven, GivenAt
<1>4. PICK n : n = stack[m][e].receipt
  OBVIOUS
<1>5. LifeAfter(m, n)' = "kept"
  BY <1>1, <1>3, <1>4, LivesSame
<1>6. CASE stack[m][e].status = "done" /\ ui' = Decided(ui, m, "kept", runs[i].order)
  <2>1. ui'.done = [ui.done EXCEPT ![m] = "kept"]
    BY <1>0, <1>6, DecidedDone
  <2>2. ui.done \in [Memories -> {"no", "kept", "rejected", "gone"}]
    BY <1>0 DEF Screens
  <2>3. CardsFollow
    <3> SUFFICES ASSUME NEW k \in Memories, k = m
                 PROVE  \E d \in DOMAIN stack'[k] : stack'[k][d].status = "done" /\ Left(k, d)
      BY <2>1, <2>2, <1>1, StackRests DEF CardsFollow
    <3> QED
      BY <1>1, <1>3, <1>4, <1>5, <1>6, <2>1, <2>2 DEF Left
  <2> QED
    BY <1>0, <1>1, <2>3, ServerRests, StackRests, RunEnds, OutcomeQuiet
<1>7. CASE UNCHANGED ui
  BY <1>0, <1>1, <1>7, ServerRests, StackRests, RunEnds, CardsRest, OutcomeQuiet
<1> QED
  BY <1>2, <1>6, <1>7 DEF Advance

\* What the server answers is what it did, and it overrides no decision that stands.
LEMMA ServeOutcome ==
    ASSUME Typed, Ordered, OutcomeInv, NEW i, NEW a \in Replies, ServeDoes(i, a)
    PROVE  OutcomeInv'
<1>0. CommandsTyped /\ ScreenTyped /\ ServerTyped
  BY DEF Typed
<1>1. PICK r \in Commands : r = runs[i]
  BY DEF ServeDoes
<1>2. PICK m \in Memories : m = r.m
  BY DEF Commands
<1>3. PICK kind \in Kinds : kind = r.kind
  BY DEF Commands
<1>4. /\ i \in Running /\ r.pc = "asked" /\ UNCHANGED <<ui, stack>> /\ RunBecomes(i, AnsweredRun(r, a))
  BY <1>1 DEF ServeDoes
<1>5. /\ AnsweredRun(r, a).pc = "answered" /\ AnsweredRun(r, a).answer = a /\ AnsweredRun(r, a).m = m
      /\ AnsweredRun(r, a).kind = kind
  BY <1>2, <1>3 DEF AnsweredRun, Commands
<1>6. (a.kind = "ok" => Given(m, kind, a)') => RunsFollow
  <2>1. runs'[i] = AnsweredRun(r, a)
    BY <1>4 DEF RunBecomes
  <2>2. GivenAt(i)' = (a.kind = "ok" => Given(m, kind, a)')
    BY <1>5, <2>1 DEF GivenAt, Given
  <2> QED
    BY <1>0, <1>4, <2>2, RunMoved
<1>7. keyFor(i).intent = r.intent /\ r.intent.m = m /\ r.intent.kind = kind
  BY <1>1, <1>2, <1>3, <1>4 DEF Ordered, OfIntent, keyFor
<1>8. EntriesFollow /\ CardsFollow
  BY <1>0, <1>4, StackRests, CardsRest
<1>9. CASE (\E c \in claims : c.key = keyFor(i) /\ a = c.answer) /\ UNCHANGED <<srv, log, claims>>
  <2>1. PICK c \in claims : c.key = keyFor(i) /\ a = c.answer
    BY <1>9
  <2>2. Given(m, kind, a)
    BY <2>1, <1>7 DEF OutcomeInv, ClaimsGiven
  <2>3. Given(m, kind, a)'
    BY <2>2, <1>9, ServerRests, LifeKept, GivenKept
  <2> QED
    BY <1>6, <1>8, <1>9, <2>3, ServerRests, OutcomeQuiet
<1>10. CASE Refusal(r) # "no" /\ a = Answer(Refusal(r)) /\ UNCHANGED <<srv, log, claims>>
  <2>1. a.kind # "ok"
    BY <1>10, RefusalKnown
  <2> QED
    BY <1>6, <1>8, <1>10, <2>1, ServerRests, OutcomeQuiet
<1>11. CASE \E o \in Outcome(r) : /\ Refusal(r) = "no"
                                  /\ Apply(r.m, o[1], o[2], keyFor(i))
                                  /\ a = [o[2] EXCEPT !.receipt = Len(log[r.m]) + 1]
  <2>1. PICK o \in Outcome(r) : /\ Refusal(r) = "no"
                                /\ Apply(r.m, o[1], o[2], keyFor(i))
                                /\ a = [o[2] EXCEPT !.receipt = Len(log[r.m]) + 1]
    BY <1>11
  <2>2. PICK n : n = Len(log[m]) + 1
    OBVIOUS
  <2>3. PICK row \in Records : row = o[1]
    BY <1>0, OutcomesKnown
  <2>4. /\ o[2] \in Replies /\ o[2].kind = "ok"
        /\ ~o[2].pending => row.life = IF kind = "reject" THEN "rejected" ELSE "kept"
        /\ srv[m].life # "proposed" => row.life = srv[m].life
    BY <1>0, <1>2, <1>3, <2>1, <2>3, OutcomesKnown
  <2>5. Writes(m, row) /\ claims' = claims \cup {[key |-> keyFor(i), answer |-> a]}
    BY <1>2, <2>1, <2>3 DEF Apply
  <2>6. /\ HistoryKept
        /\ DOMAIN log[m] = 1 .. Len(log[m]) /\ Len(log[m]) \in Nat
        /\ DOMAIN log'[m] = 1 .. Len(log[m]) + 1
        /\ LifeAfter(m, n)' = row.life
        /\ Len(log[m]) # 0 => LifeAfter(m, Len(log[m])) = srv[m].life
    BY <1>0, <2>2, <2>5, LifeWritten
  <2>7. a.kind = "ok" /\ a.receipt = n /\ a.pending = o[2].pending
    <3>1. n \in Nat
      BY <2>2, <2>6
    <3> QED
      BY <1>2, <2>1, <2>2, <2>4, <3>1, RepliesKept
  <2>8. Given(m, kind, a)'
    <3>1. n \in DOMAIN log'[m]
      BY <2>2, <2>6
    <3> QED
      BY <2>4, <2>6, <2>7, <3>1 DEF Given
  <2>9. ClaimsGiven'
    <3> SUFFICES ASSUME NEW c \in claims' PROVE c.answer.kind = "ok" /\ Given(c.key.intent.m, c.key.intent.kind, c.answer)'
      BY DEF ClaimsGiven
    <3>1. CASE c \in claims
      <4>1. PICK cm \in Memories : cm = c.key.intent.m
        BY <3>1, <1>0 DEF ServerTyped, Keys, Intents
      <4>2. PICK ck, ca : ck = c.key.intent.kind /\ ca = c.answer
        OBVIOUS
      <4>3. ca.kind = "ok" /\ Given(cm, ck, ca)
        BY <3>1, <4>1, <4>2 DEF OutcomeInv, ClaimsGiven
      <4>4. Given(cm, ck, ca)'
        BY <2>6, <4>3, GivenKept
      <4> QED
        BY <4>1, <4>2, <4>3, <4>4
    <3>2. CASE c = [key |-> keyFor(i), answer |-> a]
      BY <3>2, <1>7, <2>7, <2>8
    <3> QED
      BY <2>5, <3>1, <3>2
  <2>10. DecisionsStand'
    <3>1. \A k \in DOMAIN log[m] : LifeAfter(m, k) \in Decisions /\ ~Landed(m, k)' => row.life = LifeAfter(m, k)
      <4> SUFFICES ASSUME NEW k \in DOMAIN log[m], LifeAfter(m, k) \in Decisions, ~Landed(m, k)'
                   PROVE  row.life = LifeAfter(m, k)
        OBVIOUS
      <4>1. ~Landed(m, k)
        BY <1>4 DEF Landed
      <4>2. Len(log[m]) \in DOMAIN log[m] /\ k <= Len(log[m]) /\ Len(log[m]) # 0
        BY <2>6
      <4>3. srv[m].life = LifeAfter(m, k)
        BY <2>6, <4>1, <4>2 DEF OutcomeInv, DecisionsStand
      <4> QED
        BY <2>4, <4>3 DEF Decisions
    <3> QED
      BY <1>0, <1>8, <2>5, <3>1, StandWritten DEF OutcomeInv, EntriesFollow
  <2> QED
    BY <1>6, <1>8, <2>6, <2>8, <2>9, <2>10, OutcomeFollows
<1> QED
  BY <1>1, <1>9, <1>10, <1>11 DEF ServeDoes

LEMMA NetworkOutcome ==
    ASSUME Typed, Ordered, OutcomeInv, NEW i \in DOMAIN runs, Network(i) \/ Fault(i)
    PROVE  OutcomeInv'
<1>0. CommandsTyped /\ ScreenTyped /\ RunsHeld /\ ui \in Screens
  BY TypedParts DEF Typed, ScreenTyped
<1>1. CASE Serve(i)
  BY <1>1, ServeView, ServeOutcome
<1>2. CASE Applied(i)
  BY <1>2, AppliedView, AppliedOutcome
<1>3. CASE SavedForJudge(i)
  BY <1>3, SavedView, SavedOutcome
<1>4. CASE Advance(i)
  BY <1>4, AdvanceOutcome
<1>5. CASE Busy(i)
  <2>1. BusyDoes(i)
    BY <1>5, BusyView
  <2>2. PICK m \in Memories : m = runs[i].m
    BY <2>1 DEF BusyDoes, Commands
  <2>3. ui'.done = ui.done
    <3>1. ui' = Waiting(ui, m) \/ ui' = ui
      BY <2>1, <2>2 DEF BusyDoes
    <3>2. Waiting(ui, m).done = ui.done
      BY <1>0, ScreenDone
    <3> QED
      BY <3>1, <3>2
  <2>4. RunsFollow
    <3>1. CASE Finish(i)
      BY <1>0, <2>1, <3>1, RunEnds DEF BusyDoes
    <3>2. CASE \E b \in BOOLEAN : RunBecomes(i, PausingRun(runs[i], b))
      <4>1. PICK b \in BOOLEAN : RunBecomes(i, PausingRun(runs[i], b))
        BY <3>2
      <4>2. PausingRun(runs[i], b).pc = "pausing"
        BY <2>1 DEF BusyDoes, PausingRun, Commands
      <4> QED
        BY <1>0, <2>1, <4>1, <4>2, RunIdles, RunMoved DEF BusyDoes
    <3> QED
      BY <2>1, <3>1, <3>2 DEF BusyDoes
  <2> QED
    BY <1>0, <2>1, <2>3, <2>4, ServerRests, StackRests, CardsRest, OutcomeQuiet DEF BusyDoes
<1>6. CASE Resume(i)
  <2>1. ResumeDoes(i)
    BY <1>6, ResumeView
  <2>2. RunsFollow
    <3>1. CASE Finish(i)
      BY <1>0, <2>1, <3>1, RunEnds DEF ResumeDoes
    <3>2. CASE RunBecomes(i, AskedRun(runs[i]))
      <4>1. AskedRun(runs[i]).pc = "asked"
        BY <2>1 DEF ResumeDoes, AskedRun, Commands
      <4> QED
        BY <1>0, <2>1, <3>2, <4>1, RunIdles, RunMoved DEF ResumeDoes
    <3> QED
      BY <2>1, <3>1, <3>2 DEF ResumeDoes
  <2> QED
    BY <1>0, <2>1, <2>2, ServerRests, StackRests, CardsRest, OutcomeQuiet DEF ResumeDoes
<1>7. CASE Failed(i)
  <2>1. FailedDoes(i)
    BY <1>7, FailedView
  <2>2. PICK r \in Commands : r = runs[i]
    BY <2>1 DEF FailedDoes
  <2>3. r.m \in Memories /\ r.m \in Refs
    BY Outside DEF Commands
  <2>4. RolledBack(r).done = ui.done /\ RolledBack(r) \in Screens
    <3>0. ui \in Screens /\ r.m \in Memories
      BY <1>0, <2>3
    <3>1. Settled(ui, r.m).done = ui.done /\ Unseal(ui, r.m).done = ui.done
      BY <3>0, ScreenDone
    <3>2. Unseal(ui, r.m) \in Screens
      <4>1. 0 \in Nat /\ {} \in SUBSET Memories /\ "gone" \in {"kept", "rejected", "gone"}
        OBVIOUS
      <4> QED
        BY <1>0, <2>3, <4>1, ScreensKept
    <3>3. StopWaiting(Unseal(ui, r.m), r.m).done = ui.done
      BY <3>1, <3>2, WaitDone
    <3>4. RolledBack(r).done = ui.done
      BY <3>1, <3>3 DEF RolledBack
    <3> QED
      BY <1>0, <3>4, RolledKnown
  <2>5. ui'.done = ui.done \/ ui'.done = [ui.done EXCEPT ![r.m] = "gone"]
    <3>1. ui' = RolledBack(r) \/ ui' = Decided(RolledBack(r), r.m, "gone", r.order)
      BY <2>1, <2>2 DEF FailedDoes
    <3>2. Decided(RolledBack(r), r.m, "gone", r.order).done = [RolledBack(r).done EXCEPT ![r.m] = "gone"]
      BY <2>3, <2>4, DecidedDone
    <3> QED
      BY <2>4, <3>1, <3>2
  <2>6. RunsFollow /\ UNCHANGED <<srv, log, claims, stack>>
    BY <1>0, <2>1, RunEnds DEF FailedDoes
  <2> QED
    BY <1>0, <2>3, <2>5, <2>6, ServerRests, StackRests, CardsRest, OutcomeQuiet
<1>8. CASE Clashed(i)
  <2>1. i \in Running /\ Finish(i) /\ UNCHANGED <<srv, log, claims, stack>> /\ runs[i] \in Commands
    BY <1>0, <1>8, RunningKnown DEF Clashed, Handles
  <2>2. runs[i].m \in Memories
    BY <2>1 DEF Commands
  <2>3. ui'.done = ui.done
    <3>1. \E n : ui' = Clash(ui, runs[i].m, n)
      BY <1>8 DEF Clashed
    <3>3. ui \in Screens
      BY <1>0
    <3>2. \A n : Clash(ui, runs[i].m, n).done = ui.done
      BY <3>3, ClashDone
    <3> QED
      BY <3>1, <3>2
  <2> QED
    BY <1>0, <2>1, <2>3, RunEnds, ServerRests, StackRests, CardsRest, OutcomeQuiet
<1>9. CASE Fault(i)
  <2>1. FaultDoes(i)
    BY <1>9, FaultView
  <2>2. PICK a \in Replies : a.kind # "ok" /\ RunBecomes(i, AnsweredRun(runs[i], a))
    BY <2>1 DEF FaultDoes
  <2>3. AnsweredRun(runs[i], a).pc = "answered" /\ AnsweredRun(runs[i], a).answer = a
    BY <2>1 DEF FaultDoes, AnsweredRun, Commands
  <2>4. GivenAt(i)'
    BY <2>2, <2>3 DEF RunBecomes, GivenAt
  <2>5. RunsFollow
    BY <1>0, <2>1, <2>2, <2>4, RunMoved DEF FaultDoes
  <2> QED
    BY <1>0, <2>1, <2>5, ServerRests, StackRests, CardsRest, OutcomeQuiet DEF FaultDoes
<1> QED
  BY <1>1, <1>2, <1>3, <1>4, <1>5, <1>6, <1>7, <1>8, <1>9 DEF Network

LEMMA OthersOutcome ==
    ASSUME Typed, Ordered, OutcomeInv,
           \/ \E m \in Memories, e \in 1 .. MaxPresses : UndoStep(m, e) \/ UndoFault(m, e)
           \/ \E m \in Memories : Judge(m) \/ Elsewhere(m)
           \/ Refetch
           \/ Fetched
    PROVE  OutcomeInv'
<1>0. /\ ServerTyped /\ CommandsTyped /\ ScreenTyped /\ ui \in Screens /\ UndosMarked
  BY TypedParts DEF Typed, ScreenTyped
<1>1. ASSUME NEW m \in Memories, NEW e \in Nat, UndoServeDoes(m, e) PROVE OutcomeInv'
  <2> DEFINE x == stack[m][e]
  <2>1. e \in DOMAIN stack[m] /\ x \in Entries
    BY <1>1 DEF UndoServeDoes
  <2>2. /\ EntriesFollow /\ \A n \in Memories : Remains(n)
    <3>1. PICK answer \in {"ok", "refused"}, landed \in {x.landed, TRUE} : StackBecomes(m, e, HeardEntry(x, answer, landed))
      BY <1>1 DEF UndoServeDoes
    <3> DEFINE y == HeardEntry(x, answer, landed)
    <3>2. y.status = x.status /\ y.receipt = x.receipt /\ y.landed = landed
      BY <2>1, HeardFields
    <3> HIDE DEF y
    <3>3. StackBecomes(m, e, y)
      BY <3>1 DEF y
    <3> QED
      BY <1>0, <2>1, <3>2, <3>3, StackMoved
  <2>3. RunsFollow /\ CardsFollow /\ UNCHANGED claims
    BY <1>0, <1>1, <2>2, RunsRest, CardsRest DEF UndoServeDoes
  <2>4. CASE UNCHANGED <<srv, log>>
    BY <2>2, <2>3, <2>4, ServerRests, OutcomeQuiet
  <2>5. CASE /\ Len(log[m]) = x.receipt /\ Writes(m, log[m][x.receipt].before)
             /\ StackBecomes(m, e, HeardEntry(x, "ok", TRUE))
    <3>1. PICK L : L = x.receipt /\ L = Len(log[m])
      BY <2>5
    <3>2. L \in DOMAIN log[m] /\ log[m] \in Seq(Changes)
      BY <1>0, <2>1, <3>1 DEF OutcomeInv, ReceiptsKnown, ServerTyped
    <3>3. DOMAIN log[m] = 1 .. L /\ L \in Nat \ {0}
      BY <3>1, <3>2
    <3>4. PICK row \in Records : row = log[m][L].before
      <4>1. log[m][L] \in Changes
        BY <3>2
      <4> QED
        BY <4>1 DEF Changes
    <3>5. Writes(m, row)
      BY <2>5, <3>1, <3>4
    <3>6. Landed(m, L)'
      <4>1. HeardEntry(x, "ok", TRUE).landed = TRUE /\ HeardEntry(x, "ok", TRUE).receipt = x.receipt
        BY <2>1 DEF HeardEntry, Entries
      <4>2. e \in DOMAIN stack'[m] /\ stack'[m][e] = HeardEntry(x, "ok", TRUE)
        BY <2>1, <2>5 DEF StackBecomes
      <4> QED
        BY <3>1, <4>1, <4>2 DEF Landed
    <3>7. \A k \in DOMAIN log[m] : LifeAfter(m, k) \in Decisions /\ ~Landed(m, k)' => row.life = LifeAfter(m, k)
      <4> SUFFICES ASSUME NEW k \in DOMAIN log[m], LifeAfter(m, k) \in Decisions, ~Landed(m, k)'
                   PROVE  row.life = LifeAfter(m, k)
        OBVIOUS
      <4>1. k # L
        BY <3>6
      <4>2. ~Landed(m, k)
        BY <2>2 DEF Landed, EntriesFollow, StackGrows
      <4>3. PICK p : p = L - 1
        OBVIOUS
      <4>4. p \in DOMAIN log[m] /\ k <= p /\ p < L /\ p + 1 = L
        BY <3>3, <4>1, <4>3
      <4>5. LifeAfter(m, p) = LifeAfter(m, k)
        BY <4>2, <4>4 DEF OutcomeInv, DecisionsStand
      <4>6. LifeAfter(m, p) = row.life
        <5>1. p < Len(log[m]) /\ log[m][p + 1] = log[m][L]
          BY <3>1, <4>4
        <5> QED
          BY <3>4, <5>1 DEF LifeAfter
      <4> QED
        BY <4>5, <4>6
    <3>8. DecisionsStand'
      BY <1>0, <2>2, <3>5, <3>7, StandWritten DEF OutcomeInv, EntriesFollow
    <3>9. HistoryKept
      BY <1>0, <3>5, LifeWritten
    <3>10. ClaimsGiven'
      BY <1>0, <2>3, <3>9, ClaimsKept DEF OutcomeInv
    <3> QED
      BY <2>2, <2>3, <3>8, <3>9, <3>10, OutcomeFollows
  <2> QED
    BY <1>1, <2>4, <2>5 DEF UndoServeDoes
<1>2. ASSUME NEW m \in Memories, NEW e \in Nat, UndoFaultDoes(m, e) PROVE OutcomeInv'
  <2> DEFINE x == stack[m][e]
             y == HeardEntry(x, "unreachable", x.landed)
  <2>1. e \in DOMAIN stack[m] /\ x \in Entries /\ StackBecomes(m, e, y)
    BY <1>2 DEF UndoFaultDoes
  <2>2. y.status = x.status /\ y.receipt = x.receipt /\ y.landed = x.landed
    BY <2>1, HeardFields
  <2> HIDE DEF y
  <2>3. EntriesFollow /\ \A n \in Memories : Remains(n)
    BY <1>0, <2>1, <2>2, StackMoved
  <2> QED
    BY <1>0, <1>2, <2>3, ServerRests, RunsRest, CardsRest, OutcomeQuiet DEF UndoFaultDoes
<1>3. ASSUME NEW m \in Memories, NEW e \in Nat, UndoEndsDoes(m, e) PROVE OutcomeInv'
  <2> DEFINE x == stack[m][e]
  <2>1. e \in DOMAIN stack[m] /\ x \in Entries /\ x.status = "undoing"
    BY <1>0, <1>3 DEF UndoEndsDoes, UndosMarked
  <2>2. PICK status \in {"undone", "done", "dropped"} : StackBecomes(m, e, OverEntry(x, status))
    BY <1>3 DEF UndoEndsDoes
  <2> DEFINE y == OverEntry(x, status)
  <2>3. y.receipt = x.receipt /\ y.landed = x.landed /\ StackBecomes(m, e, y)
    BY <2>1, <2>2, OverFields
  <2> HIDE DEF y
  <2>4. EntriesFollow /\ \A n \in Memories : Remains(n)
    BY <1>0, <2>1, <2>3, StackMoved
  <2>5. ui'.done = ui.done \/ ui'.done = [ui.done EXCEPT ![m] = "gone"]
    <3>1. UNCHANGED ui \/ ui' = Decided(ui, m, "gone", Visible)
      BY <1>3 DEF UndoEndsDoes
    <3> QED
      BY <1>0, <3>1, DecidedDone
  <2> QED
    BY <1>0, <1>3, <2>4, <2>5, ServerRests, RunsRest, CardsRest, OutcomeQuiet DEF UndoEndsDoes
<1>4. ASSUME NEW m \in Memories, Judge(m) PROVE OutcomeInv'
  <2>1. LivesStay
    <3>1. PICK conflict \in BOOLEAN : srv' = [srv EXCEPT ![m].judged = TRUE, ![m].conflict = conflict]
      BY <1>4 DEF Judge
    <3>2. srv \in [Memories -> Records]
      BY <1>0 DEF ServerTyped
    <3>3. \A n \in Memories : srv'[n].life = srv[n].life
      BY <3>1, <3>2 DEF Records
    <3> QED
      BY <1>4, <3>3 DEF Judge, LivesStay
  <2> QED
    BY <1>0, <1>4, <2>1, RunsRest, StackRests, CardsRest, OutcomeQuiet DEF Judge
<1>5. ASSUME NEW m \in Memories, Elsewhere(m) PROVE OutcomeInv'
  <2>1. srv[m] \in Records /\ srv[m].life = "proposed"
    BY <1>5, <1>0 DEF ServerTyped, Elsewhere
  <2>2. PICK row : /\ row \in {[srv[m] EXCEPT !.life = "kept", !.conflict = FALSE],
                               [srv[m] EXCEPT !.life = "rejected", !.conflict = FALSE],
                               NewWords(m, "other", "proposed", TRUE),
                               [srv[m] EXCEPT !.conflict = FALSE]}
                   /\ Writes(m, row)
    BY <1>5 DEF Elsewhere
  <2>3. row \in Records
    <3>1. NewWords(m, "other", "proposed", TRUE) \in Records
      BY <1>0, NewWordsKnown
    <3>2. /\ [srv[m] EXCEPT !.life = "kept", !.conflict = FALSE] \in Records
          /\ [srv[m] EXCEPT !.life = "rejected", !.conflict = FALSE] \in Records
          /\ [srv[m] EXCEPT !.conflict = FALSE] \in Records
      BY <2>1 DEF Records
    <3> QED
      BY <2>2, <3>1, <3>2
  <2>4. RunsFollow /\ EntriesFollow /\ CardsFollow /\ UNCHANGED <<claims, stack>>
    BY <1>0, <1>5, RunsRest, StackRests, CardsRest DEF Elsewhere
  <2>5. HistoryKept
    BY <1>0, <2>2, <2>3, LifeWritten
  <2>6. \A k \in DOMAIN log[m] : LifeAfter(m, k) \in Decisions /\ ~Landed(m, k)' => row.life = LifeAfter(m, k)
    <3> SUFFICES ASSUME NEW k \in DOMAIN log[m], LifeAfter(m, k) \in Decisions, ~Landed(m, k)
                 PROVE  FALSE
      BY <2>4 DEF Landed
    <3>1. DOMAIN log[m] = 1 .. Len(log[m]) /\ Len(log[m]) \in Nat
      BY <1>0, <2>2, <2>3, LifeWritten
    <3>2. Len(log[m]) \in DOMAIN log[m] /\ k <= Len(log[m])
      BY <3>1
    <3>3. LifeAfter(m, Len(log[m])) = srv[m].life
      BY <3>1 DEF LifeAfter
    <3> QED
      BY <2>1, <3>2, <3>3 DEF OutcomeInv, DecisionsStand, Decisions
  <2>7. DecisionsStand'
    BY <1>0, <2>2, <2>3, <2>4, <2>6, StandWritten DEF OutcomeInv, EntriesFollow
  <2>8. ClaimsGiven'
    BY <1>0, <2>4, <2>5, ClaimsKept DEF OutcomeInv
  <2> QED
    BY <2>4, <2>5, <2>7, <2>8, OutcomeFollows
<1>6. ASSUME Refetch \/ Fetched PROVE OutcomeInv'
  <2>1. UNCHANGED <<srv, log, claims, ui, runs, stack>>
    BY <1>6 DEF Refetch, Fetched
  <2> QED
    BY <1>0, <2>1, ServerRests, RunsRest, StackRests, CardsRest, OutcomeQuiet
<1>7. ASSUME NEW m \in Memories, NEW e \in 1 .. MaxPresses, UndoStep(m, e) \/ UndoFault(m, e) PROVE OutcomeInv'
  <2>1. e \in Nat
    OBVIOUS
  <2>2. CASE UndoServe(m, e)
    BY <2>1, <2>2, <1>1, UndoServeView DEF OutcomeInv
  <2>3. CASE UndoEnds(m, e)
    BY <2>1, <2>3, <1>3, UndoEndsView
  <2>4. CASE UndoFault(m, e)
    BY <2>1, <2>4, <1>2, UndoFaultView
  <2> QED
    BY <1>7, <2>2, <2>3, <2>4 DEF UndoStep
<1> QED
  BY <1>4, <1>5, <1>6, <1>7

LEMMA OutcomeInit == Init => OutcomeInv
<1> SUFFICES ASSUME Init PROVE OutcomeInv
  OBVIOUS
<1>1. claims = {} /\ runs = <<>> /\ \A m \in Memories : DOMAIN log[m] = {} /\ DOMAIN stack[m] = {} /\ ui.done[m] = "no"
  BY DEF Init
<1> QED
  BY <1>1 DEF OutcomeInv, ClaimsGiven, RunsGiven, Running, ReceiptsKnown, DecisionsStand, LeftAsDecided, Decisions

LEMMA OutcomeNext == Typed /\ Ordered /\ OutcomeInv /\ [Next]_vars => OutcomeInv'
<1> SUFFICES ASSUME Typed, Ordered, OutcomeInv, [Next]_vars PROVE OutcomeInv'
  OBVIOUS
<1>1. CASE Person
  BY <1>1, PersonOutcome
<1>2. CASE \E i \in DOMAIN runs : Network(i) \/ Fault(i)
  BY <1>2, NetworkOutcome
<1>3. CASE UNCHANGED vars
  BY <1>3, ServerRests, RunsRest, StackRests, CardsRest, OutcomeQuiet DEF vars, Typed
<1> QED
  BY <1>1, <1>2, <1>3, OthersOutcome DEF Next

-----------------------------------------------------------------------------
\* Theorems: types and outcomes

LEMMA TypesHold == Typed => TypeOK
<1> SUFFICES ASSUME Typed PROVE TypeOK
  OBVIOUS
<1>1. srv \in [Memories -> [life : {"proposed", "kept", "rejected"}, version : Nat \ {0}, conflict : BOOLEAN,
                            judged : BOOLEAN, by : {"agent", "you", "other"}]]
  BY DEF Typed, ServerTyped, Records
<1>2. /\ ui.selected \in Refs /\ ui.busy \in Refs /\ ui.waiting \in Refs /\ ui.sealed.ref \in Refs
      /\ ui.done \in [Memories -> {"no", "kept", "rejected", "gone"}]
      /\ ui.mode.kind \in {"browse", "editing", "clash"} /\ ui.mode.ref \in Refs
  BY DEF Typed, ScreenTyped, Screens, Modes
<1>3. queue \in [Memories -> [version : Nat, conflict : BOOLEAN]]
  BY DEF Typed, ScreenTyped, Rows
<1>4. busyRef \in Refs /\ waitFor \in 0 .. Len(runs)
  BY RunningKnown DEF Typed, CommandsTyped
<1>5. \A s \in settled : s.intent.m \in Memories /\ s.gen \in Nat
  BY DEF Typed, CommandsTyped, Keys, Intents
<1>6. \A m \in Memories : \A e \in DOMAIN stack[m] : stack[m][e].status \in {"done", "undoing", "undone", "dropped"}
  BY EntryAt DEF Typed, Entries
<1> QED
  BY <1>1, <1>2, <1>3, <1>4, <1>5, <1>6 DEF TypeOK

LEMMA ReviewHolds == Spec => [](Typed /\ Ordered /\ OutcomeInv)
<1>1. Init => Typed /\ Ordered /\ OutcomeInv
  BY InitTyped, OutcomeInit
<1>2. (Typed /\ Ordered /\ OutcomeInv) /\ [Next]_vars => (Typed /\ Ordered /\ OutcomeInv)'
  BY TypedNext, OutcomeNext DEF OutcomeInv
<1> QED
  BY <1>1, <1>2, PTL DEF Spec

\* The types of the screen, the server's rows, the queue, the commands and the undo stack.
THEOREM TypeCorrect == Spec => []TypeOK
BY ReviewHolds, TypesHold, PTL

\* A card of the Review screen that left as kept, or as rejected, is that on the
\* server, for every queue, every number of presses, undos and lost answers, and
\* whatever other people do to the proposals: unless an undo of it is on its way,
\* or landed untold, or one command's answer came twice (use-review.ts, undo.tsx).
THEOREM LeftAsItWent == Spec => []OutcomeHolds
<1>1. Typed /\ Ordered /\ OutcomeInv => OutcomeHolds
  <2> SUFFICES ASSUME Typed, OutcomeInv, NEW m \in Memories, ui.done[m] \in Decisions, UndoneAndTold(m), AnsweredOnce(m)
               PROVE  srv[m].life = ui.done[m]
    BY DEF OutcomeHolds, Decisions
  <2>1. PICK e \in DOMAIN stack[m] : stack[m][e].status = "done" /\ LifeAfter(m, stack[m][e].receipt) = ui.done[m]
    BY DEF OutcomeInv, LeftAsDecided
  <2>2. PICK n : n = stack[m][e].receipt
    OBVIOUS
  <2>3. n \in DOMAIN log[m] /\ log[m] \in Seq(Changes)
    BY <2>2 DEF OutcomeInv, ReceiptsKnown, Typed, ServerTyped
  <2>4. ~Landed(m, n)
    BY <2>1, <2>2 DEF UndoneAndTold, AnsweredOnce, Landed
  <2>5. Len(log[m]) \in DOMAIN log[m] /\ n <= Len(log[m])
    BY <2>3
  <2>6. LifeAfter(m, Len(log[m])) = ui.done[m]
    BY <2>1, <2>2, <2>3, <2>4, <2>5 DEF OutcomeInv, DecisionsStand
  <2>7. ~(Len(log[m]) < Len(log[m]))
    BY <2>3
  <2> QED
    BY <2>6, <2>7 DEF LifeAfter
<1> QED
  BY <1>1, ReviewHolds, PTL

-----------------------------------------------------------------------------
\* Marks

\* Fewer cards to hold, or more that hold them.
LEMMA HeldMore ==
    ASSUME NEW u, NEW S, NEW E, NEW W, NEW B, NEW S2, NEW E2, NEW W2, NEW B2, Held(u, S, E, W, B),
           S \subseteq S2, E \subseteq E2, W \subseteq W2, B \subseteq B2
    PROVE  Held(u, S2, E2, W2, B2)
BY DEF Held, Sealed, Waits, Busies

\* What each step of the reducer does with the marks.
LEMMA MarksOfClear ==
    ASSUME NEW u \in Screens, NEW m \in Memories
    PROVE  /\ Clear(u, m).sealed = (IF u.sealed.ref = m THEN NoSeal ELSE u.sealed)
           /\ Clear(u, m).busy = (IF u.busy = m THEN None ELSE u.busy)
           /\ Clear(u, m).waiting = (IF u.waiting = m THEN None ELSE u.waiting)
           /\ Clear(u, m).mode = Browse
BY DEF Clear, Screens, Unless

\* Nothing of m's is needed to hold what is left when m is cleared.
LEMMA ClearHeld ==
    ASSUME NEW u \in Screens, NEW m \in Memories, NEW S, NEW E, NEW W, NEW B, NEW S2, NEW E2, NEW W2, NEW B2,
           Held(u, S, E, W, B),
           S \ {m} \subseteq S2, E \ {m} \subseteq E2, W \ {m} \subseteq W2, B \ {m} \subseteq B2
    PROVE  Held(Clear(u, m), S2, E2, W2, B2)
<1> DEFINE v == Clear(u, m)
<1>1. /\ v.sealed = (IF u.sealed.ref = m THEN NoSeal ELSE u.sealed)
      /\ v.busy = (IF u.busy = m THEN None ELSE u.busy)
      /\ v.waiting = (IF u.waiting = m THEN None ELSE u.waiting)
      /\ v.mode.kind = "browse"
  BY MarksOfClear DEF Browse
<1>2. None # m /\ NoSeal.ref = None
  BY Outside DEF NoSeal
<1> HIDE DEF v
<1>3. Sealed(v, S2, E2)
  BY <1>1 DEF Held, Sealed
<1>4. Waits(v, W2)
  BY <1>1 DEF Held, Waits
<1>5. Busies(v, B2)
  BY <1>1, <1>2 DEF Held, Busies
<1> QED
  BY <1>3, <1>4, <1>5 DEF Held, v

\* Restore and Decided mark as Clear does.
LEMMA HeldAsMarked ==
    ASSUME NEW u, NEW v, NEW S, NEW E, NEW W, NEW B, Held(u, S, E, W, B),
           v.sealed = u.sealed, v.busy = u.busy, v.waiting = u.waiting, v.mode = u.mode
    PROVE  Held(v, S, E, W, B)
BY DEF Held, Sealed, Waits, Busies

LEMMA CutMarks ==
    ASSUME NEW v \in Screens, NEW d, NEW s
    PROVE  LET w == [v EXCEPT !.done = d, !.selected = s]
           IN  w.sealed = v.sealed /\ w.busy = v.busy /\ w.waiting = v.waiting /\ w.mode = v.mode
BY DEF Screens

\* No command of another memory than m lets go of a mark.
LosesOnly(m, S, E, W, B, S2, E2, W2, B2) ==
    S \ {m} \subseteq S2 /\ E \ {m} \subseteq E2 /\ W \ {m} \subseteq W2 /\ B \ {m} \subseteq B2

LEMMA DecidedHeld ==
    ASSUME NEW u \in Screens, NEW m \in Memories, NEW S, NEW E, NEW W, NEW B, NEW S2, NEW E2, NEW W2, NEW B2,
           Held(u, S, E, W, B), LosesOnly(m, S, E, W, B, S2, E2, W2, B2)
    PROVE  /\ \A outcome, order : Held(Decided(u, m, outcome, order), S2, E2, W2, B2)
           /\ Held(Restore(u, m), S2, E2, W2, B2)
<1>1. Held(Clear(u, m), S2, E2, W2, B2)
  BY ClearHeld DEF LosesOnly
<1> DEFINE v == Clear(u, m)
<1>2. v \in Screens
  <2>1. 0 \in Nat /\ {} \in SUBSET Memories /\ "gone" \in {"kept", "rejected", "gone"}
    OBVIOUS
  <2> QED
    BY <2>1, ScreensKept
<1> HIDE DEF v
<1>3. ASSUME NEW outcome, NEW order PROVE Held(Decided(u, m, outcome, order), S2, E2, W2, B2)
  <2> DEFINE s == IF v.selected \in {m, None} THEN nextAfter(order, m) ELSE v.selected
             d == [v.done EXCEPT ![m] = outcome]
  <2>1. Decided(u, m, outcome, order) = [v EXCEPT !.done = d, !.selected = s]
    BY <1>2 DEF Decided, v, Screens
  <2> HIDE DEF s, d
  <2> DEFINE w == [v EXCEPT !.done = d, !.selected = s]
  <2>2. w.sealed = v.sealed /\ w.busy = v.busy /\ w.waiting = v.waiting /\ w.mode = v.mode
    BY <1>2, CutMarks
  <2> HIDE DEF w
  <2>3. Held(v, S2, E2, W2, B2)
    BY <1>1 DEF v
  <2>4. Held(w, S2, E2, W2, B2)
    BY <2>2, <2>3, HeldAsMarked
  <2> QED
    BY <2>1, <2>4 DEF w
<1>4. Held(Restore(u, m), S2, E2, W2, B2)
  <2> DEFINE d == [v.done EXCEPT ![m] = "no"]
  <2>1. Restore(u, m) = [v EXCEPT !.done = d, !.selected = m]
    BY <1>2 DEF Restore, v, Screens
  <2> HIDE DEF d
  <2> DEFINE w == [v EXCEPT !.done = d, !.selected = m]
  <2>2. w.sealed = v.sealed /\ w.busy = v.busy /\ w.waiting = v.waiting /\ w.mode = v.mode
    BY <1>2, CutMarks
  <2> HIDE DEF w
  <2>3. Held(v, S2, E2, W2, B2)
    BY <1>1 DEF v
  <2>4. Held(w, S2, E2, W2, B2)
    BY <2>2, <2>3, HeldAsMarked
  <2> QED
    BY <2>1, <2>4 DEF w
<1> QED
  BY <1>3, <1>4

\* Leaving a wait, and moving on.
LEMMA StopHeld ==
    ASSUME NEW u \in Screens, NEW S, NEW E, NEW W, NEW B, NEW S2, NEW E2, NEW W2, NEW B2,
           Held(u, S, E, W, B), u.waiting # None, B \subseteq B2
    PROVE  Held(StopWaiting(u, u.waiting), S2, E2, W2, B2)
<1> DEFINE v == StopWaiting(u, u.waiting)
<1>1. u.sealed = NoSeal
  BY DEF Held, Waits
<1>2. v.sealed = u.sealed /\ v.waiting = None /\ v.busy = IF u.busy = u.waiting THEN None ELSE u.busy
  BY DEF StopWaiting, Unless, Screens
<1> HIDE DEF v
<1>3. NoSeal.ref = None
  BY DEF NoSeal
<1>4. Busies(v, B2)
  BY <1>1, <1>2, <1>3 DEF Held, Busies
<1> QED
  BY <1>1, <1>2, <1>4 DEF Held, Sealed, Waits, v

LEMMA SelectHeld ==
    ASSUME NEW u \in Screens, NEW m \in Memories, NEW S, NEW E, NEW W, NEW B, Held(u, S, E, W, B)
    PROVE  Held(Select(u, m), S, E, W, B)
<1>1. Browse.kind = "browse" /\ NoSeal.ref = None
  BY DEF Browse, NoSeal
<1>2. CASE u.waiting # None
  <2> DEFINE v == Select(u, m)
  <2>1. u.sealed = NoSeal
    BY <1>2 DEF Held, Waits
  <2>2. v.sealed = u.sealed /\ v.waiting = None /\ v.busy = IF u.busy = u.waiting THEN None ELSE u.busy
    BY <1>2 DEF Select, Unless, Screens
  <2> HIDE DEF v
  <2>3. Busies(v, B)
    BY <1>1, <2>1, <2>2 DEF Held, Busies
  <2> QED
    BY <2>1, <2>2, <2>3 DEF Held, Sealed, Waits, v
<1>3. CASE u.waiting = None
  <2> DEFINE w == [u EXCEPT !.selected = m, !.mode = Browse]
  <2>1. w.sealed = u.sealed /\ w.waiting = u.waiting /\ w.busy = u.busy /\ w.mode = Browse
    BY DEF Screens
  <2>2. Select(u, m) = u \/ Select(u, m) = w
    BY <1>3 DEF Select
  <2> HIDE DEF w
  <2>3. Held(w, S, E, W, B)
    BY <1>1, <2>1 DEF Held, Sealed, Waits, Busies
  <2> QED
    BY <2>2, <2>3
<1> QED
  BY <1>2, <1>3

\* A card that waits, or is sealed, is held by its command.
LEMMA WaitingHeld ==
    ASSUME NEW u \in Screens, NEW m \in Memories, NEW S, NEW E, NEW W, NEW B, m \in W
    PROVE  Held(Waiting(u, m), S, E, W, B)
<1> DEFINE v == Waiting(u, m)
<1>1. v.sealed = NoSeal /\ v.busy = m /\ v.waiting = m
  BY DEF Waiting, Screens
<1> HIDE DEF v
<1> QED
  BY <1>1 DEF Held, Sealed, Waits, Busies, v

LEMMA SealHeld ==
    ASSUME NEW u \in Screens, NEW m \in Memories, NEW S, NEW E, NEW W, NEW B,
           m \in S \/ (m \in E /\ u.mode.kind = "editing" /\ u.sealed.ref # m)
    PROVE  Held(Seal(u, m), S, E, W, B)
<1> DEFINE v == Seal(u, m)
<1>1. /\ v.sealed.ref = m /\ v.busy = m /\ v.waiting = None /\ v.mode.kind = "browse"
      /\ u.sealed.ref # m => v.sealed.restore = u.mode
  BY DEF Seal, Screens, Browse
<1> HIDE DEF v
<1> QED
  BY <1>1 DEF Held, Sealed, Waits, Busies, v

\* A failure takes off what its press put on.
LEMMA SettledHeld ==
    ASSUME NEW u \in Screens, NEW m \in Memories, NEW S, NEW E, NEW W, NEW B, NEW S2, NEW E2, NEW W2, NEW B2,
           Held(u, S, E, W, B), S \subseteq S2, E \subseteq E2, W \subseteq W2, B \ {m} \subseteq B2
    PROVE  Held(Settled(u, m), S2, E2, W2, B2)
<1> DEFINE v == Settled(u, m)
<1>1. /\ v.sealed = u.sealed /\ v.waiting = u.waiting /\ v.mode = u.mode
      /\ v.busy = IF u.busy = m THEN None ELSE u.busy
  BY DEF Settled, Unless, Screens
<1> HIDE DEF v
<1>2. Busies(v, B2)
  BY <1>1 DEF Held, Busies
<1> QED
  BY <1>1, <1>2 DEF Held, Sealed, Waits, v

LEMMA UnsealHeld ==
    ASSUME NEW u \in Screens, NEW m \in Memories, NEW S, NEW E, NEW W, NEW B, NEW S2, NEW E2, NEW W2, NEW B2,
           Held(u, S, E, W, B), S \ {m} \subseteq S2, E \ {m} \subseteq E2, W \ {m} \subseteq W2, B \subseteq B2
    PROVE  Held(StopWaiting(Unseal(u, m), m), S2, E2, W2, B2)
<1>0. NoSeal.ref = None /\ m # None
  BY Outside DEF NoSeal
<1>1. CASE u.sealed.ref = m
  <2> DEFINE v == Unseal(u, m)
  <2>1. u.waiting = None
    BY <1>0, <1>1 DEF Held, Waits
  <2>2. v.sealed = NoSeal /\ v.busy = None /\ v.waiting = None
    BY <1>1, <2>1 DEF Unseal, Screens
  <2>3. StopWaiting(v, m) = v
    BY <1>0, <2>2 DEF StopWaiting
  <2> HIDE DEF v
  <2>4. Held(v, S2, E2, W2, B2)
    BY <2>2 DEF Held, Sealed, Waits, Busies
  <2> QED
    BY <2>3, <2>4 DEF v
<1>2. CASE u.sealed.ref # m
  <2>1. Unseal(u, m) = u
    BY <1>2 DEF Unseal
  <2>2. CASE u.waiting = m
    BY <1>0, <2>1, <2>2, StopHeld
  <2>3. CASE u.waiting # m
    <3>1. StopWaiting(u, m) = u
      BY <2>3 DEF StopWaiting
    <3>2. Held(u, S2, E2, W2, B2)
      BY <1>2, <2>3 DEF Held, Sealed, Waits, Busies
    <3> QED
      BY <2>1, <3>1, <3>2
  <2> QED
    BY <2>2, <2>3
<1> QED
  BY <1>1, <1>2

LEMMA ClashHeld ==
    ASSUME NEW u \in Screens, NEW m \in Memories, NEW n \in Nat, NEW S, NEW E, NEW W, NEW B,
           NEW S2, NEW E2, NEW W2, NEW B2,
           Held(u, S, E, W, B), S \subseteq S2, E \ {m} \subseteq E2, W \subseteq W2, B \subseteq B2
    PROVE  Held(Clash(u, m, n), S2, E2, W2, B2)
<1> DEFINE from == IF u.sealed.ref = m THEN u.sealed.restore ELSE u.mode
<1>1. CASE from.kind # "editing"
  <2>1. Clash(u, m, n) = u
    BY <1>1 DEF Clash
  <2>2. Held(u, S2, E2, W2, B2)
    BY <1>1 DEF Held, Sealed, Waits, Busies
  <2> QED
    BY <2>1, <2>2
<1>2. CASE from.kind = "editing"
  <2> DEFINE v == Clash(u, m, n)
             w == [from EXCEPT !.kind = "clash", !.theirs = n]
  <2>1. v = [u EXCEPT !.sealed = NoSeal, !.busy = None, !.mode = w]
    BY <1>2 DEF Clash
  <2> HIDE DEF w, v
  <2>2. v.sealed = NoSeal /\ v.busy = None /\ v.waiting = u.waiting
    BY <2>1 DEF Screens
  <2>3. Held(v, S2, E2, W2, B2)
    BY <2>2 DEF Held, Sealed, Waits, Busies
  <2> QED
    BY <2>3 DEF v
<1> QED
  BY <1>1, <1>2

LEMMA EditingHeld ==
    ASSUME NEW u \in Screens, NEW m \in Memories, NEW n \in Nat, NEW S, NEW E, NEW W, NEW B,
           Held(u, S, E, W, B), u.sealed = NoSeal
    PROVE  Held(Editing(u, m, n), S, E, W, B)
<1> DEFINE v == Editing(u, m, n)
<1>1. v.sealed = u.sealed /\ v.busy = u.busy /\ v.waiting = u.waiting
  BY DEF Editing, Screens
<1> HIDE DEF v
<1> QED
  BY <1>1 DEF Held, Sealed, Waits, Busies, v

LEMMA ModeHeld ==
    ASSUME NEW u \in Screens, NEW x, NEW S, NEW E, NEW W, NEW B, Held(u, S, E, W, B), u.mode.kind # "browse"
    PROVE  Held([u EXCEPT !.mode = x], S, E, W, B)
<1> DEFINE v == [u EXCEPT !.mode = x]
<1>1. v.sealed = u.sealed /\ v.busy = u.busy /\ v.waiting = u.waiting
  BY DEF Screens
<1> HIDE DEF v
<1> QED
  BY <1>1 DEF Held, Sealed, Waits, Busies, v

LEMMA BusyHeld ==
    ASSUME NEW u \in Screens, NEW m \in Memories, NEW S, NEW E, NEW W, NEW B, Held(u, S, E, W, B), m \in B
    PROVE  Held([u EXCEPT !.busy = m], S, E, W, B)
<1> DEFINE v == [u EXCEPT !.busy = m]
<1>1. v.sealed = u.sealed /\ v.busy = m /\ v.waiting = u.waiting /\ v.mode = u.mode
  BY DEF Screens
<1> HIDE DEF v
<1> QED
  BY <1>1 DEF Held, Sealed, Waits, Busies, v

-----------------------------------------------------------------------------
\* Which cards are held after a step

\* j goes on, and still minds the card it minded.
Steady(j) ==
    /\ j \in Running' /\ runs'[j].m = runs[j].m /\ runs'[j].kind = runs[j].kind /\ runs'[j].aborted = runs[j].aborted
    /\ runs[j].pc = "sealing" => runs'[j].pc = "sealing"
    /\ runs'[j].pc = "sealing" => stack'[runs[j].m][runs'[j].entry].status = "done"

\* All that minds n goes on, but for i.
SteadyFor(n, i) == \A j \in Running : Minds(j, n) /\ j # i => Steady(j)

LEMMA MindStays == \A j \in Running : \A n : Minds(j, n) /\ Steady(j) => Minds(j, n)'
BY DEF Minds, Steady, Running

LEMMA HoldersKept ==
    ASSUME NEW n \in Memories, NEW i, SteadyFor(n, i)
    PROVE  /\ \/ ~Minds(i, n)
              \/ runs[i].kind \notin {"keep", "resolve"} /\ runs[i].pc # "sealing"
              => (n \in SealHolders => n \in SealHolders')
           /\ ~Minds(i, n) \/ runs[i].kind # "edit" => (n \in EditHolders => n \in EditHolders')
           /\ ~Minds(i, n) \/ runs[i].kind # "keep" => (n \in WaitHolders => n \in WaitHolders')
           /\ ~Minds(i, n) \/ runs[i].kind # "reject" => (n \in BusyHolders => n \in BusyHolders')
<1>1. ASSUME NEW j \in DOMAIN runs, Minds(j, n), j # i
      PROVE  /\ j \in DOMAIN runs' /\ Minds(j, n)' /\ runs'[j].kind = runs[j].kind
             /\ runs[j].pc = "sealing" => runs'[j].pc = "sealing"
  <2>1. j \in Running /\ Steady(j)
    BY <1>1 DEF Minds, SteadyFor
  <2>2. Minds(j, n)'
    BY <1>1, <2>1, MindStays
  <2> QED
    BY <2>1, <2>2 DEF Steady, Running
<1>2. ASSUME n \in SealHolders, ~Minds(i, n) \/ (runs[i].kind \notin {"keep", "resolve"} /\ runs[i].pc # "sealing")
      PROVE  n \in SealHolders'
  <2>1. PICK j \in DOMAIN runs : Minds(j, n) /\ (runs[j].kind \in {"keep", "resolve"} \/ runs[j].pc = "sealing")
    BY <1>2 DEF SealHolders
  <2>2. j # i
    BY <1>2, <2>1
  <2>3. /\ j \in DOMAIN runs' /\ Minds(j, n)' /\ runs'[j].kind = runs[j].kind
        /\ runs[j].pc = "sealing" => runs'[j].pc = "sealing"
    BY <1>1, <2>1, <2>2
  <2> QED
    BY <2>1, <2>3 DEF SealHolders
<1>3. ASSUME n \in EditHolders, ~Minds(i, n) \/ runs[i].kind # "edit" PROVE n \in EditHolders'
  <2>1. PICK j \in DOMAIN runs : Minds(j, n) /\ runs[j].kind = "edit"
    BY <1>3 DEF EditHolders
  <2> QED
    BY <1>1, <1>3, <2>1 DEF EditHolders
<1>4. ASSUME n \in WaitHolders, ~Minds(i, n) \/ runs[i].kind # "keep" PROVE n \in WaitHolders'
  <2>1. PICK j \in DOMAIN runs : Minds(j, n) /\ runs[j].kind = "keep"
    BY <1>4 DEF WaitHolders
  <2> QED
    BY <1>1, <1>4, <2>1 DEF WaitHolders
<1>5. ASSUME n \in BusyHolders, ~Minds(i, n) \/ runs[i].kind # "reject" PROVE n \in BusyHolders'
  <2>1. PICK j \in DOMAIN runs : Minds(j, n) /\ runs[j].kind = "reject"
    BY <1>5 DEF BusyHolders
  <2> QED
    BY <1>1, <1>5, <2>1 DEF BusyHolders
<1> QED
  BY <1>2, <1>3, <1>4, <1>5

\* The holders of every card go on; and of every card but m's.
HoldersStay == /\ SealHolders \subseteq SealHolders' /\ EditHolders \subseteq EditHolders'
               /\ WaitHolders \subseteq WaitHolders' /\ BusyHolders \subseteq BusyHolders'

HoldersBut(m) == /\ SealHolders \ {m} \subseteq SealHolders' /\ EditHolders \ {m} \subseteq EditHolders'
                 /\ WaitHolders \ {m} \subseteq WaitHolders' /\ BusyHolders \ {m} \subseteq BusyHolders'

Good == Held(ui, SealHolders, EditHolders, WaitHolders, BusyHolders)
GoodNext == Held(ui', SealHolders', EditHolders', WaitHolders', BusyHolders')

\* The person decided m, or what was decided is not: nothing else lets go.
LEMMA DecidedGood ==
    ASSUME Good, ui \in Screens, NEW m \in Memories, HoldersBut(m)
    PROVE  /\ \A outcome, order : Held(Decided(ui, m, outcome, order), SealHolders', EditHolders', WaitHolders', BusyHolders')
           /\ Held(Restore(ui, m), SealHolders', EditHolders', WaitHolders', BusyHolders')
<1> DEFINE S == SealHolders
           E == EditHolders
           W == WaitHolders
           B == BusyHolders
           S2 == SealHolders'
           E2 == EditHolders'
           W2 == WaitHolders'
           B2 == BusyHolders'
<1>1. Held(ui, S, E, W, B)
  BY DEF Good
<1>2. LosesOnly(m, S, E, W, B, S2, E2, W2, B2)
  BY DEF HoldersBut, LosesOnly
<1> HIDE DEF S, E, W, B, S2, E2, W2, B2
<1>3. /\ \A outcome, order : Held(Decided(ui, m, outcome, order), S2, E2, W2, B2)
      /\ Held(Restore(ui, m), S2, E2, W2, B2)
  BY <1>1, <1>2, DecidedHeld
<1> QED
  BY <1>3 DEF S2, E2, W2, B2

LEMMA HoldersKnown ==
    SealHolders \subseteq Memories /\ EditHolders \subseteq Memories /\ WaitHolders \subseteq Memories /\ BusyHolders \subseteq Memories
BY DEF SealHolders, EditHolders, WaitHolders, BusyHolders

LEMMA AllStay ==
    ASSUME CommandsTyped, \A n \in Memories : \A j \in Running : Minds(j, n) => Steady(j)
    PROVE  HoldersStay
<1>1. \A n \in Memories : SteadyFor(n, 0)
  BY DEF SteadyFor
<1>2. \A n : ~Minds(0, n)
  BY RunningKnown DEF Minds
<1> QED
  BY HoldersKnown, HoldersKept, <1>1, <1>2 DEF HoldersStay

\* A command no step moved, when no entry stopped being done.
LEMMA OtherSteady ==
    ASSUME CommandsTyped, RunsGiven, NEW n \in Memories, Remains(n), NEW j \in Running, Minds(j, n),
           j \in Running', runs'[j] = runs[j]
    PROVE  Steady(j)
<1>1. runs[j].m = n
  BY DEF Minds
<1>2. ASSUME runs[j].pc = "sealing" PROVE stack'[n][runs[j].entry].status = "done"
  <2>1. runs[j].entry \in DOMAIN stack[n] /\ stack[n][runs[j].entry].status = "done"
    BY <1>1, <1>2 DEF Minds, RunsGiven, GivenAt
  <2> QED
    BY <2>1 DEF Remains
<1> QED
  BY <1>1, <1>2 DEF Steady

LEMMA RestSteady ==
    ASSUME CommandsTyped, RunsGiven, \A n \in Memories : Remains(n), NEW i \in Running, NEW r, RunBecomes(i, r)
    PROVE  \A n \in Memories : SteadyFor(n, i)
<1> SUFFICES ASSUME NEW n \in Memories, NEW j \in Running, Minds(j, n), j # i PROVE Steady(j)
  BY DEF SteadyFor
<1>1. j \in Running' /\ runs'[j] = runs[j]
  BY RunningKnown DEF RunBecomes
<1> QED
  BY <1>1, OtherSteady

LEMMA SameStay ==
    ASSUME CommandsTyped, RunsGiven, \A n \in Memories : Remains(n), UNCHANGED runs
    PROVE  HoldersStay
<1>1. \A n \in Memories : \A j \in Running : Minds(j, n) => Steady(j)
  BY OtherSteady DEF Running
<1> QED
  BY <1>1, AllStay

\* A command that goes on from one await to another.
LEMMA MoveStays ==
    ASSUME CommandsTyped, RunsGiven, UNCHANGED stack, NEW i \in Running, NEW r, RunBecomes(i, r), r # Ended,
           r.m = runs[i].m, r.kind = runs[i].kind, r.aborted = runs[i].aborted,
           runs[i].pc # "sealing", r.pc # "sealing"
    PROVE  HoldersStay
<1>1. \A n \in Memories : SteadyFor(n, i)
  BY StackRests, RestSteady
<1>2. Steady(i)
  BY DEF RunBecomes, Steady
<1> QED
  BY <1>1, <1>2, AllStay DEF SteadyFor

\* A command that ended held its own card only, and another kind of command holds it still.
LEMMA EndStays ==
    ASSUME CommandsTyped, RunsHeld, RunsGiven, \A n \in Memories : Remains(n), NEW i \in Running, Finish(i),
           NEW m, m = runs[i].m
    PROVE  /\ HoldersBut(m)
           /\ runs[i].kind \notin {"keep", "resolve"} /\ runs[i].pc # "sealing" => SealHolders \subseteq SealHolders'
           /\ runs[i].kind # "edit" => EditHolders \subseteq EditHolders'
           /\ runs[i].kind # "keep" => WaitHolders \subseteq WaitHolders'
           /\ runs[i].kind # "reject" => BusyHolders \subseteq BusyHolders'
           /\ (\A n \in Memories : ~Minds(i, n)) => HoldersStay
<1>1. RunBecomes(i, Ended)
  BY FinishHeld
<1>2. \A n \in Memories : SteadyFor(n, i)
  BY <1>1, RestSteady
<1>3. \A n : n # m => ~Minds(i, n)
  BY DEF Minds
<1>4. HoldersBut(m)
  BY <1>2, <1>3, HoldersKnown, HoldersKept DEF HoldersBut
<1>5. /\ runs[i].kind \notin {"keep", "resolve"} /\ runs[i].pc # "sealing" => SealHolders \subseteq SealHolders'
      /\ runs[i].kind # "edit" => EditHolders \subseteq EditHolders'
      /\ runs[i].kind # "keep" => WaitHolders \subseteq WaitHolders'
      /\ runs[i].kind # "reject" => BusyHolders \subseteq BusyHolders'
  BY <1>2, HoldersKnown, HoldersKept
<1>6. (\A n \in Memories : ~Minds(i, n)) => HoldersStay
  BY <1>2, HoldersKnown, HoldersKept DEF HoldersStay
<1> QED
  BY <1>4, <1>5, <1>6

LEMMA GoodStays == Good /\ HoldersStay /\ UNCHANGED ui => GoodNext
BY HeldMore DEF Good, HoldersStay, GoodNext

-----------------------------------------------------------------------------
\* Marks: every step

LEMMA MindsHolds ==
    \A m \in Memories : \A i \in DOMAIN runs : Minds(i, m) =>
        /\ runs[i].kind \in {"keep", "resolve"} \/ runs[i].pc = "sealing" => m \in SealHolders
        /\ runs[i].kind = "edit" => m \in EditHolders
        /\ runs[i].kind = "keep" => m \in WaitHolders
        /\ runs[i].kind = "reject" => m \in BusyHolders
BY DEF SealHolders, EditHolders, WaitHolders, BusyHolders

LEMMA StartsGood ==
    ASSUME Typed, OutcomeInv, NEW r \in Commands, Unsent(r), Starts(r), Good, ~hurried'.seal
    PROVE  GoodNext
<1>0. CommandsTyped /\ ui \in Screens /\ RunsGiven
  BY DEF Typed, ScreenTyped, OutcomeInv
<1>1. PICK m \in Memories : m = r.m
  BY DEF Commands
<1>2. PICK k : k = Len(runs) + 1
  OBVIOUS
<1>3. /\ runs'[k] = r /\ k \in Running' /\ k \in DOMAIN runs'
      /\ \A j \in DOMAIN runs : j \in DOMAIN runs' /\ runs'[j] = runs[j]
      /\ Running' = Running \cup {k}
  <2>1. runs' = Append(runs, r)
    BY DEF Starts
  <2>2. /\ runs'[k] = r
        /\ \A j \in DOMAIN runs : j \in DOMAIN runs' /\ runs'[j] = runs[j]
        /\ Running' = Running \cup {k}
    BY <1>0, <1>2, <2>1, AddedMoves
  <2> QED
    BY <2>2 DEF Running
<1>4. HoldersStay
  <2>1. \A n \in Memories : Remains(n)
    BY StackRests DEF Starts
  <2>2. \A n \in Memories : \A j \in Running : Minds(j, n) => Steady(j)
    BY <1>0, <1>3, <2>1, RunningKnown, OtherSteady
  <2> QED
    BY <1>0, <2>2, AllStay
<1>5. Held(ui, SealHolders', EditHolders', WaitHolders', BusyHolders')
  BY <1>4, HeldMore DEF Good, HoldersStay
<1>6. Minds(k, m)'
  BY <1>1, <1>3 DEF Minds, Unsent
<1>7. r.kind \in Kinds
  BY DEF Commands
<1>8. CASE r.kind = "reject"
  <2>1. m \in BusyHolders'
    BY <1>3, <1>6, <1>8 DEF BusyHolders
  <2>2. ui' = [ui EXCEPT !.busy = m]
    BY <1>1, <1>8 DEF Starts
  <2> QED
    BY <1>0, <1>5, <2>1, <2>2, BusyHeld DEF GoodNext
<1>9. CASE r.kind # "reject"
  <2>1. ui' = Seal(ui, m)
    BY <1>1, <1>9 DEF Starts
  <2>2. m \in SealHolders' \/ (m \in EditHolders' /\ ui.mode.kind = "editing" /\ ui.sealed.ref # m)
    <3>1. CASE r.kind = "edit"
      <4>1. m \in EditHolders'
        BY <1>3, <1>6, <3>1 DEF EditHolders
      <4>2. ui.mode.kind = "editing"
        <5>1. hurried'.seal = (hurried.seal \/ (r.kind = "edit" /\ ui.mode.kind # "editing"))
          BY DEF Starts
        <5> QED
          BY <5>1, <3>1
      <4>3. ui.sealed = NoSeal
        BY <4>2 DEF Good, Held, Sealed
      <4> QED
        BY <4>1, <4>2, <4>3, Outside DEF NoSeal
    <3>2. CASE r.kind \in {"keep", "resolve"}
      BY <1>3, <1>6, <3>2 DEF SealHolders
    <3> QED
      BY <1>7, <1>9, <3>1, <3>2 DEF Kinds
  <2> QED
    BY <1>0, <2>1, <2>2, SealHeld DEF GoodNext
<1> QED
  BY <1>8, <1>9

\* Leaving a Keep that waits: it held a wait, which is over.
LEMMA AbortsGood ==
    ASSUME Typed, Ordered, OutcomeInv, runs' = Abort, UNCHANGED stack, Good
    PROVE  /\ waitFor = 0 => HoldersStay
           /\ BusyHolders \subseteq BusyHolders'
<1>0. CommandsTyped /\ RunsGiven /\ \A n \in Memories : Remains(n)
  BY StackRests DEF Typed, OutcomeInv
<1>1. CASE waitFor = 0
  BY <1>0, <1>1, AbortMoves, SameStay DEF HoldersStay
<1>2. CASE waitFor # 0
  <2>1. waitFor \in Running /\ RunBecomes(waitFor, AbortedRun(runs[waitFor]))
    BY <1>0, <1>2, AbortMoves
  <2>2. \A n \in Memories : SteadyFor(n, waitFor)
    BY <1>0, <2>1, RestSteady
  <2>3. runs[waitFor].kind = "keep"
    BY <1>2 DEF Ordered
  <2>4. \A n \in Memories : n \in BusyHolders => n \in BusyHolders'
    BY <2>2, <2>3, HoldersKept
  <2> QED
    BY <1>2, <2>4, HoldersKnown
<1> QED
  BY <1>1, <1>2

LEMMA SelectGood ==
    ASSUME Typed, Ordered, OutcomeInv, NEW m \in Memories, SelectRow(m), Good, ~hurried'.seal
    PROVE  GoodNext
<1>0. ui \in Screens /\ ui.waiting \in Refs /\ hurried \in [seal : BOOLEAN, twice : BOOLEAN]
  BY DEF Typed, ScreenTyped, Screens, CommandsTyped
<1>1. /\ runs' = Abort /\ UNCHANGED stack
      /\ hurried' = [hurried EXCEPT !.seal = @ \/ (waitFor # 0 /\ ui.waiting = None)]
  BY DEF SelectRow
<1>2. ~(waitFor # 0 /\ ui.waiting = None)
  BY <1>0, <1>1
<1>3. CASE waitFor = 0
  <2>1. ui' = Select(ui, m)
    BY <1>3 DEF SelectRow
  <2>2. Held(ui, SealHolders', EditHolders', WaitHolders', BusyHolders')
    BY <1>1, <1>3, AbortsGood, HeldMore DEF HoldersStay, Good
  <2> QED
    BY <1>0, <2>1, <2>2, SelectHeld DEF GoodNext
<1>4. CASE waitFor # 0
  <2> DEFINE v == StopWaiting(ui, ui.waiting)
  <2>1. ui' = Select(v, m)
    BY <1>4 DEF SelectRow
  <2>2. v \in Screens
    <3>1. 0 \in Nat /\ {} \in SUBSET Memories /\ "gone" \in {"kept", "rejected", "gone"}
      OBVIOUS
    <3> QED
      BY <1>0, <3>1, ScreensKept
  <2>3. Held(v, SealHolders', EditHolders', WaitHolders', BusyHolders')
    <3>1. BusyHolders \subseteq BusyHolders'
      BY <1>1, AbortsGood
    <3> QED
      BY <1>0, <1>2, <1>4, <3>1, StopHeld DEF Good
  <2> HIDE DEF v
  <2> QED
    BY <2>1, <2>2, <2>3, SelectHeld DEF GoodNext
<1> QED
  BY <1>3, <1>4

LEMMA UndoGood ==
    ASSUME Typed, Ordered, OutcomeInv, NEW m \in Memories, NEW e, UndoDoes(m, e), Good, ~hurried'.seal
    PROVE  GoodNext
<1>0. /\ CommandsTyped /\ ScreenTyped /\ RunsGiven /\ ui \in Screens
      /\ hurried \in [seal : BOOLEAN, twice : BOOLEAN]
  BY DEF Typed, ScreenTyped, OutcomeInv, CommandsTyped
<1>1. \A n \in Memories : n # m => Remains(n)
  BY DEF UndoDoes, StackBecomes, Remains
<1>2. waitFor = 0 \/ runs[waitFor].m = m
  BY <1>0 DEF UndoDoes
<1>3. \A n \in Memories : n # m => SteadyFor(n, waitFor) /\ ~Minds(waitFor, n)
  <2> SUFFICES ASSUME NEW n \in Memories, n # m PROVE SteadyFor(n, waitFor) /\ ~Minds(waitFor, n)
    OBVIOUS
  <2>1. ~Minds(waitFor, n)
    BY <1>0, <1>2, RunningKnown DEF Minds
  <2>2. ASSUME NEW j \in Running, Minds(j, n), j # waitFor PROVE Steady(j)
    <3>1. j \in Running' /\ runs'[j] = runs[j]
      BY <1>0, <2>2, AbortMoves, RunningKnown DEF UndoDoes, RunBecomes
    <3>2. Remains(n)
      BY <1>1
    <3> QED
      BY <1>0, <2>2, <3>1, <3>2, OtherSteady
  <2> QED
    BY <2>1, <2>2 DEF SteadyFor
<1>4. HoldersBut(m)
  BY <1>3, HoldersKnown, HoldersKept DEF HoldersBut
<1>5. Held(Restore(ui, m), SealHolders', EditHolders', WaitHolders', BusyHolders')
  BY <1>0, <1>4, DecidedGood
<1> QED
  BY <1>5 DEF UndoDoes, GoodNext

LEMMA PersonGood ==
    ASSUME Typed, Ordered, OutcomeInv, Person, Good, ~hurried'.seal
    PROVE  GoodNext
<1>0. /\ CommandsTyped /\ ScreenTyped /\ ui \in Screens /\ queue \in [Memories -> Rows] /\ RunsGiven
  BY DEF Typed, ScreenTyped, OutcomeInv
<1>1. ASSUME NEW m \in Memories, Keep(m) \/ Reject(m) \/ SubmitEdit(m) PROVE GoodNext
  <2>1. PICK kind \in Kinds, version \in Nat : Starts(Run(kind, m, queue[m], version))
    BY <1>1, PressKnown
  <2> QED
    BY <2>1, UnsentRun, StartsGood
<1>2. ASSUME UNCHANGED <<runs, stack>> PROVE Held(ui, SealHolders', EditHolders', WaitHolders', BusyHolders')
  BY <1>0, <1>2, StackRests, SameStay, HeldMore DEF HoldersStay, Good
<1>3. ASSUME NEW m \in Memories, Edit(m) PROVE GoodNext
  <2>1. Held(ui, SealHolders', EditHolders', WaitHolders', BusyHolders')
    BY <1>2, <1>3 DEF Edit
  <2>2. PICK n \in Nat : n = queue[m].version
    BY <1>0 DEF Rows
  <2>3. ui' = Editing(ui, m, n) /\ ui.sealed = NoSeal
    BY <1>3, <2>2 DEF Edit
  <2> QED
    BY <1>0, <2>1, <2>3, EditingHeld DEF GoodNext
<1>4. ASSUME Combine \/ KeepTheirs PROVE GoodNext
  <2>1. Held(ui, SealHolders', EditHolders', WaitHolders', BusyHolders')
    BY <1>2, <1>4 DEF Combine, KeepTheirs
  <2>2. ui.mode.kind # "browse" /\ \E x : ui' = [ui EXCEPT !.mode = x]
    BY <1>4 DEF Combine, KeepTheirs
  <2> QED
    BY <1>0, <2>1, <2>2, ModeHeld DEF GoodNext
<1>5. ASSUME Escape PROVE GoodNext
  <2>1. BusyHolders \subseteq BusyHolders'
    BY <1>5, AbortsGood DEF Escape
  <2>2. Held(StopWaiting(ui, ui.waiting), SealHolders', EditHolders', WaitHolders', BusyHolders')
    BY <1>0, <1>5, <2>1, StopHeld DEF Escape, Good
  <2> QED
    BY <1>5, <2>2 DEF Escape, GoodNext
<1>6. ASSUME NEW t \in retries, Retry(t) PROVE GoodNext
  <2> DEFINE r == [t EXCEPT !.order = Visible]
  <2>1. r \in Commands /\ Unsent(r)
    BY RetryKnown
  <2>2. Starts(r)
    BY <1>6 DEF Retry
  <2> HIDE DEF r
  <2> QED
    BY <2>1, <2>2, StartsGood
<1>7. ASSUME NEW m \in Memories, NEW e \in 1 .. MaxPresses, Undo(m, e) PROVE GoodNext
  <2>1. e \in Nat
    OBVIOUS
  <2> QED
    BY <1>7, <2>1, UndoView, UndoGood
<1> QED
  BY <1>1, <1>3, <1>4, <1>5, <1>6, <1>7, SelectGood DEF Person

LEMMA AppliedGood ==
    ASSUME Typed, Ordered, OutcomeInv, NEW i, AppliedDoes(i), Good
    PROVE  GoodNext
<1>0. CommandsTyped /\ ScreenTyped /\ ui \in Screens /\ RunsHeld /\ RunsGiven
  BY TypedParts DEF Typed, ScreenTyped, OutcomeInv
<1>1. PICK r \in Commands : r = runs[i]
  BY DEF AppliedDoes
<1>2. PICK m \in Memories : m = r.m
  BY DEF Commands
<1>3. i \in Running /\ r.pc = "answered" /\ StackGains(m, Entry(r))
  BY <1>1, <1>2 DEF AppliedDoes
<1>4. \A n \in Memories : Remains(n)
  BY <1>3 DEF StackGains, Remains
<1>5. CASE /\ \E outcome : ui' = Decided(ui, r.m, outcome, r.order)
           /\ Finish(i)
  <2>1. HoldersBut(m)
    BY <1>0, <1>1, <1>2, <1>3, <1>4, <1>5, EndStays
  <2>2. ui \in Screens /\ m \in Memories
    BY <1>0, <1>2
  <2>3. \A outcome, order : Held(Decided(ui, m, outcome, order), SealHolders', EditHolders', WaitHolders', BusyHolders')
    BY <2>1, <2>2, DecidedGood
  <2> QED
    BY <1>2, <1>5, <2>3 DEF GoodNext
<1>6. CASE /\ r.kind # "reject" /\ ~r.aborted
           /\ ui' = IF r.waited THEN Seal(ui, r.m) ELSE ui
           /\ RunBecomes(i, SealingRun(r, Len(stack[r.m]) + 1))
  <2>1. PICK e : e = Len(stack[m]) + 1
    OBVIOUS
  <2>2. stack'[m][e] = Entry(r) /\ Entry(r).status = "done"
    BY <1>3, <2>1, EntryKnown DEF StackGains
  <2>3. PICK s : /\ s = SealingRun(r, e) /\ s.pc = "sealing" /\ s.entry = e /\ s.m = m /\ s.kind = r.kind
                 /\ s.aborted = r.aborted /\ s # Ended
    <3>1. /\ SealingRun(r, e).pc = "sealing" /\ SealingRun(r, e).entry = e /\ SealingRun(r, e).m = r.m
          /\ SealingRun(r, e).kind = r.kind /\ SealingRun(r, e).aborted = r.aborted
      BY DEF SealingRun, Commands
    <3>2. SealingRun(r, e) # Ended
      BY <3>1 DEF Ended
    <3> QED
      BY <3>1, <3>2, <1>2
  <2>4. RunBecomes(i, s)
    BY <1>2, <1>6, <2>1, <2>3
  <2>5. i \in Running' /\ i \in DOMAIN runs' /\ runs'[i] = s
    BY <1>3, <2>3, <2>4 DEF RunBecomes, Running
  <2>6. Steady(i)
    BY <1>1, <1>2, <1>3, <2>2, <2>3, <2>5 DEF Steady
  <2>7. HoldersStay
    BY <1>0, <1>3, <1>4, <2>4, <2>6, RestSteady, AllStay DEF SteadyFor
  <2>8. m \in SealHolders'
    <3>1. Minds(i, m)'
      BY <1>6, <2>2, <2>3, <2>5 DEF Minds
    <3> QED
      BY <2>3, <2>5, <3>1 DEF SealHolders
  <2>9. CASE r.waited
    BY <1>0, <1>2, <1>6, <2>8, <2>9, SealHeld DEF GoodNext
  <2>10. CASE ~r.waited
    BY <1>6, <2>7, <2>10, GoodStays
  <2> QED
    BY <2>9, <2>10
<1> QED
  BY <1>1, <1>5, <1>6 DEF AppliedDoes

LEMMA SavedGood ==
    ASSUME Typed, NEW i, SavedDoes(i)
    PROVE  GoodNext
<1>0. ui \in Screens
  BY DEF Typed, ScreenTyped
<1>1. PICK m \in Memories : m = runs[i].m
  BY DEF SavedDoes, Commands
<1>2. PICK s \in Commands : RunBecomes(i, s) /\ Unsent(s) /\ s.kind = "keep" /\ s.m = m
  BY <1>1 DEF SavedDoes
<1>3. i \in Running' /\ i \in DOMAIN runs' /\ runs'[i] = s
  BY <1>2, NotEnded DEF RunBecomes, SavedDoes, Running
<1>4. Minds(i, m)'
  BY <1>2, <1>3 DEF Minds, Unsent
<1>5. m \in WaitHolders'
  BY <1>2, <1>3, <1>4 DEF WaitHolders
<1>6. ui' = Waiting(ui, m)
  BY <1>1 DEF SavedDoes
<1> QED
  BY <1>0, <1>5, <1>6, WaitingHeld DEF GoodNext

LEMMA AdvanceGood ==
    ASSUME Typed, Ordered, OutcomeInv, NEW i \in DOMAIN runs, Advance(i), Good
    PROVE  GoodNext
<1>0. CommandsTyped /\ ScreenTyped /\ ui \in Screens /\ RunsHeld /\ RunsGiven
  BY TypedParts DEF Typed, ScreenTyped, OutcomeInv
<1>1. i \in Running /\ runs[i].pc = "sealing" /\ Finish(i) /\ \A n \in Memories : Remains(n)
  BY StackRests DEF Advance
<1>2. PICK m \in Memories : m = runs[i].m
  BY <1>0, <1>1, RunningKnown
<1>3. CASE stack[m][runs[i].entry].status = "done" /\ ui' = Decided(ui, m, "kept", runs[i].order)
  <2>1. HoldersBut(m)
    BY <1>0, <1>1, <1>2, EndStays
  <2>2. \A outcome, order : Held(Decided(ui, m, outcome, order), SealHolders', EditHolders', WaitHolders', BusyHolders')
    BY <1>0, <1>2, <2>1, DecidedGood
  <2> QED
    BY <1>3, <2>2 DEF GoodNext
<1>4. CASE stack[m][runs[i].entry].status # "done" /\ UNCHANGED ui
  <2>1. \A n \in Memories : ~Minds(i, n)
    BY <1>1, <1>2, <1>4 DEF Minds
  <2>2. HoldersStay
    BY <1>0, <1>1, <1>2, <2>1, EndStays
  <2> QED
    BY <1>4, <2>2, GoodStays
<1> QED
  BY <1>2, <1>3, <1>4 DEF Advance

LEMMA MoveGood ==
    ASSUME Typed, OutcomeInv, UNCHANGED <<ui, stack>>, Good, NEW i \in Running, NEW r \in Commands, RunBecomes(i, r),
           r.m = runs[i].m, r.kind = runs[i].kind, r.aborted = runs[i].aborted,
           runs[i].pc # "sealing", r.pc # "sealing"
    PROVE  GoodNext
<1>1. CommandsTyped /\ RunsGiven /\ r # Ended
  BY NotEnded DEF Typed, OutcomeInv
<1>2. HoldersStay
  BY <1>1, MoveStays
<1> QED
  BY <1>2, GoodStays

\* A command that was given up minds no card.
LEMMA GivenUpGood ==
    ASSUME Typed, Ordered, OutcomeInv, NEW i \in Running, runs[i].aborted, Finish(i), UNCHANGED <<ui, stack>>, Good
    PROVE  GoodNext
<1>0. CommandsTyped /\ RunsHeld /\ RunsGiven /\ \A n \in Memories : Remains(n)
  BY TypedParts, StackRests DEF Typed, OutcomeInv
<1>1. \A n \in Memories : ~Minds(i, n)
  BY DEF Minds
<1>2. PICK m : m = runs[i].m
  OBVIOUS
<1>3. HoldersStay
  BY <1>0, <1>1, <1>2, EndStays
<1> QED
  BY <1>3, GoodStays

LEMMA BusyGood ==
    ASSUME Typed, Ordered, OutcomeInv, NEW i, BusyDoes(i), Good
    PROVE  GoodNext
<1>1. PICK r \in Commands : r = runs[i]
  BY DEF BusyDoes
<1>2. PICK m \in Memories : m = r.m
  BY DEF Commands
<1>3. i \in Running /\ UNCHANGED stack /\ r.pc = "answered" /\ r.kind = "keep" /\ ui \in Screens
  BY <1>1 DEF BusyDoes, Typed, ScreenTyped
<1>4. CASE r.aborted /\ Finish(i) /\ UNCHANGED ui
  BY <1>1, <1>3, <1>4, GivenUpGood
<1>5. CASE /\ ~r.aborted
           /\ ui' = Waiting(ui, m) \/ ui' = ui
           /\ \E b \in BOOLEAN : RunBecomes(i, PausingRun(r, b))
  <2>1. PICK b \in BOOLEAN : RunBecomes(i, PausingRun(r, b))
    BY <1>5
  <2> DEFINE s == PausingRun(r, b)
  <2>2. s \in Commands /\ s.pc = "pausing" /\ s.m = m /\ s.kind = "keep" /\ s.aborted = r.aborted
    <3>1. s.pc = "pausing" /\ s.m = r.m /\ s.kind = r.kind /\ s.aborted = r.aborted
      BY DEF PausingRun, Commands
    <3>2. s \in Commands
      BY DEF PausingRun, Commands, Places
    <3> QED
      BY <3>1, <3>2, <1>2, <1>3
  <2> HIDE DEF s
  <2>3. RunBecomes(i, s)
    BY <2>1 DEF s
  <2>4. CASE ui' = Waiting(ui, m)
    <3>1. i \in Running' /\ i \in DOMAIN runs' /\ runs'[i] = s
      BY <1>3, <2>2, <2>3, NotEnded DEF RunBecomes, Running
    <3>2. Minds(i, m)'
      BY <1>5, <2>2, <3>1 DEF Minds
    <3>3. m \in WaitHolders'
      BY <2>2, <3>1, <3>2 DEF WaitHolders
    <3> QED
      BY <1>3, <2>4, <3>3, WaitingHeld DEF GoodNext
  <2>5. CASE ui' = ui
    BY <1>1, <1>2, <1>3, <2>2, <2>3, <2>5, MoveGood
  <2> QED
    BY <1>5, <2>4, <2>5
<1> QED
  BY <1>1, <1>2, <1>4, <1>5 DEF BusyDoes

LEMMA FailedGood ==
    ASSUME Typed, Ordered, OutcomeInv, NEW i, FailedDoes(i), Good
    PROVE  GoodNext
<1>0. CommandsTyped /\ ScreenTyped /\ ui \in Screens /\ RunsHeld /\ RunsGiven
  BY TypedParts DEF Typed, ScreenTyped, OutcomeInv
<1>1. PICK r \in Commands : r = runs[i]
  BY DEF FailedDoes
<1>2. PICK m \in Memories : m = r.m
  BY DEF Commands
<1>3. i \in Running /\ r.pc = "answered" /\ Finish(i) /\ \A n \in Memories : Remains(n)
  BY <1>1, StackRests DEF FailedDoes
<1>4. /\ HoldersBut(m)
      /\ r.kind \notin {"keep", "resolve"} /\ r.pc # "sealing" => SealHolders \subseteq SealHolders'
      /\ r.kind # "edit" => EditHolders \subseteq EditHolders'
      /\ r.kind # "keep" => WaitHolders \subseteq WaitHolders'
      /\ r.kind # "reject" => BusyHolders \subseteq BusyHolders'
  BY <1>0, <1>1, <1>2, <1>3, EndStays
<1> DEFINE v == RolledBack(r)
<1>5. Held(v, SealHolders', EditHolders', WaitHolders', BusyHolders')
  <2>1. CASE r.kind = "reject"
    <3>1. v = Settled(ui, m)
      BY <1>2, <2>1 DEF RolledBack
    <3> QED
      BY <1>0, <1>3, <1>4, <2>1, <3>1, SettledHeld DEF HoldersBut, Good
  <2>2. CASE r.kind # "reject"
    <3>1. v = StopWaiting(Unseal(ui, m), m)
      BY <1>2, <2>2 DEF RolledBack
    <3> QED
      BY <1>0, <1>4, <2>2, <3>1, UnsealHeld DEF HoldersBut, Good
  <2> QED
    BY <2>1, <2>2
<1>6. v \in Screens
  BY <1>0, RolledKnown
<1>7. ui' = v \/ ui' = Decided(v, m, "gone", r.order)
  BY <1>1, <1>2 DEF FailedDoes
<1> HIDE DEF v
<1>8. \A outcome, order : Held(Decided(v, m, outcome, order), SealHolders', EditHolders', WaitHolders', BusyHolders')
  <2> DEFINE S2 == SealHolders'
             E2 == EditHolders'
             W2 == WaitHolders'
             B2 == BusyHolders'
  <2>1. LosesOnly(m, S2, E2, W2, B2, S2, E2, W2, B2)
    BY DEF LosesOnly
  <2> HIDE DEF S2, E2, W2, B2
  <2>2. Held(v, S2, E2, W2, B2)
    BY <1>5 DEF S2, E2, W2, B2
  <2>3. v \in Screens /\ m \in Memories
    BY <1>2, <1>6
  <2>4. \A outcome, order : Held(Decided(v, m, outcome, order), S2, E2, W2, B2)
    BY <2>1, <2>2, <2>3, DecidedHeld
  <2> QED
    BY <2>4 DEF S2, E2, W2, B2
<1> QED
  BY <1>5, <1>7, <1>8 DEF GoodNext

LEMMA ClashedGood ==
    ASSUME Typed, Ordered, OutcomeInv, NEW i, Clashed(i), Good
    PROVE  GoodNext
<1>0. CommandsTyped /\ ScreenTyped /\ ui \in Screens /\ RunsHeld /\ RunsGiven
  BY TypedParts DEF Typed, ScreenTyped, OutcomeInv
<1>1. i \in Running /\ runs[i].pc = "answered" /\ runs[i].kind = "edit" /\ Finish(i) /\ \A n \in Memories : Remains(n)
  BY StackRests DEF Clashed, Handles
<1>2. PICK m \in Memories : m = runs[i].m
  BY <1>0, <1>1, RunningKnown
<1>3. PICK n \in Nat : n = srv[m].version
  BY DEF Typed, ServerTyped, Records
<1>4. ui' = Clash(ui, m, n)
  BY <1>2, <1>3 DEF Clashed
<1>5. /\ HoldersBut(m) /\ SealHolders \subseteq SealHolders' /\ WaitHolders \subseteq WaitHolders'
      /\ BusyHolders \subseteq BusyHolders'
  BY <1>0, <1>1, <1>2, EndStays
<1> QED
  BY <1>0, <1>4, <1>5, ClashHeld DEF HoldersBut, Good, GoodNext

LEMMA NetworkGood ==
    ASSUME Typed, Ordered, OutcomeInv, NEW i \in DOMAIN runs, Network(i) \/ Fault(i), Good
    PROVE  GoodNext
<1>1. ASSUME i \in Running, runs[i] \in Commands, runs[i].pc # "sealing", UNCHANGED <<ui, stack>>,
             NEW a \in Replies, RunBecomes(i, AnsweredRun(runs[i], a))
      PROVE  GoodNext
  <2> DEFINE s == AnsweredRun(runs[i], a)
  <2>1. s \in Commands
    BY <1>1, MovesKept
  <2>2. s.m = runs[i].m /\ s.kind = runs[i].kind /\ s.aborted = runs[i].aborted /\ s.pc = "answered"
    BY <1>1 DEF AnsweredRun, Commands
  <2>3. RunBecomes(i, s)
    BY <1>1
  <2> HIDE DEF s
  <2> QED
    BY <1>1, <2>1, <2>2, <2>3, MoveGood
<1>2. CASE Serve(i)
  <2>1. PICK a \in Replies : ServeDoes(i, a)
    BY <1>2, ServeView
  <2> QED
    BY <2>1, <1>1 DEF ServeDoes
<1>3. CASE Fault(i)
  <2>1. FaultDoes(i)
    BY <1>3, FaultView
  <2> QED
    BY <2>1, <1>1 DEF FaultDoes
<1>4. CASE Resume(i)
  <2>1. ResumeDoes(i)
    BY <1>4, ResumeView
  <2>2. CASE runs[i].aborted /\ Finish(i)
    BY <2>1, <2>2, GivenUpGood DEF ResumeDoes
  <2>3. CASE RunBecomes(i, AskedRun(runs[i]))
    <3> DEFINE s == AskedRun(runs[i])
    <3>1. /\ s \in Commands /\ s.m = runs[i].m /\ s.kind = runs[i].kind /\ s.aborted = runs[i].aborted
          /\ s.pc = "asked"
      <4>1. runs[i] \in Commands
        BY <2>1 DEF ResumeDoes
      <4>2. PICK n \in Nat : n = runs[i].asks + 1
        BY <4>1 DEF Commands
      <4>3. s = [runs[i] EXCEPT !.pc = "asked", !.asks = n]
        BY <4>2 DEF AskedRun
      <4> HIDE DEF s
      <4> QED
        BY <4>1, <4>3 DEF Commands, Places
    <3>2. RunBecomes(i, s) /\ i \in Running /\ runs[i].pc = "pausing" /\ UNCHANGED <<ui, stack>>
      BY <2>1, <2>3 DEF ResumeDoes
    <3> HIDE DEF s
    <3> QED
      BY <3>1, <3>2, MoveGood
  <2> QED
    BY <2>1, <2>2, <2>3 DEF ResumeDoes
<1> QED
  BY <1>2, <1>3, <1>4, AppliedView, AppliedGood, SavedView, SavedGood, AdvanceGood, BusyView, BusyGood,
     FailedView, FailedGood, ClashedGood DEF Network

LEMMA OthersGood ==
    ASSUME Typed, Ordered, OutcomeInv, Good,
           \/ \E m \in Memories, e \in 1 .. MaxPresses : UndoStep(m, e) \/ UndoFault(m, e)
           \/ \E m \in Memories : Judge(m) \/ Elsewhere(m)
           \/ Refetch
           \/ Fetched
           \/ UNCHANGED vars
    PROVE  GoodNext
<1>0. /\ CommandsTyped /\ ScreenTyped /\ RunsGiven /\ ui \in Screens /\ UndosMarked
  BY TypedParts DEF Typed, ScreenTyped, OutcomeInv
<1>1. ASSUME NEW m \in Memories, NEW e \in DOMAIN stack[m], NEW x, StackBecomes(m, e, x),
             stack[m][e].status = "done" => x.status = "done", UNCHANGED runs
      PROVE  HoldersStay
  <2>1. \A n \in Memories : Remains(n)
    BY <1>1 DEF StackBecomes, Remains
  <2> QED
    BY <1>0, <1>1, <2>1, SameStay
<1>2. ASSUME NEW m \in Memories, NEW e \in Nat, UndoServeDoes(m, e) PROVE GoodNext
  <2>1. e \in DOMAIN stack[m] /\ stack[m][e] \in Entries /\ UNCHANGED <<ui, runs>>
    BY <1>2 DEF UndoServeDoes
  <2>2. PICK answer, landed : StackBecomes(m, e, HeardEntry(stack[m][e], answer, landed))
    BY <1>2 DEF UndoServeDoes
  <2>3. HeardEntry(stack[m][e], answer, landed).status = stack[m][e].status
    BY <2>1, HeardFields
  <2> QED
    BY <1>1, <2>1, <2>2, <2>3, GoodStays
<1>3. ASSUME NEW m \in Memories, NEW e \in Nat, UndoFaultDoes(m, e) PROVE GoodNext
  <2>1. e \in DOMAIN stack[m] /\ stack[m][e] \in Entries /\ UNCHANGED <<ui, runs>>
    BY <1>3 DEF UndoFaultDoes
  <2>2. PICK landed : StackBecomes(m, e, HeardEntry(stack[m][e], "unreachable", landed))
    BY <1>3 DEF UndoFaultDoes
  <2>3. HeardEntry(stack[m][e], "unreachable", landed).status = stack[m][e].status
    BY <2>1, HeardFields
  <2> QED
    BY <1>1, <2>1, <2>2, <2>3, GoodStays
<1>4. ASSUME NEW m \in Memories, NEW e \in Nat, UndoEndsDoes(m, e) PROVE GoodNext
  <2>1. e \in DOMAIN stack[m] /\ stack[m][e].status = "undoing" /\ UNCHANGED runs
    BY <1>0, <1>4 DEF UndoEndsDoes, UndosMarked
  <2>2. HoldersStay
    <3>1. PICK status : StackBecomes(m, e, OverEntry(stack[m][e], status))
      BY <1>4 DEF UndoEndsDoes
    <3> QED
      BY <1>1, <2>1, <3>1
  <2>3. CASE UNCHANGED ui
    BY <2>2, <2>3, GoodStays
  <2>4. CASE ui' = Decided(ui, m, "gone", Visible)
    <3>1. \A outcome, order : Held(Decided(ui, m, outcome, order), SealHolders', EditHolders', WaitHolders', BusyHolders')
      <4>1. HoldersBut(m)
        BY <2>2 DEF HoldersStay, HoldersBut
      <4> QED
        BY <1>0, <4>1, DecidedGood
    <3> QED
      BY <2>4, <3>1 DEF GoodNext
  <2> QED
    BY <1>4, <2>3, <2>4 DEF UndoEndsDoes
<1>5. ASSUME UNCHANGED <<ui, runs, stack>> PROVE GoodNext
  BY <1>0, <1>5, StackRests, SameStay, GoodStays
<1>6. ASSUME NEW m \in Memories, NEW e \in 1 .. MaxPresses, UndoStep(m, e) \/ UndoFault(m, e) PROVE GoodNext
  <2>1. e \in Nat
    OBVIOUS
  <2>2. CASE UndoServe(m, e)
    BY <2>1, <2>2, <1>2, UndoServeView DEF OutcomeInv
  <2>3. CASE UndoEnds(m, e)
    BY <2>1, <2>3, <1>4, UndoEndsView
  <2>4. CASE UndoFault(m, e)
    BY <2>1, <2>4, <1>3, UndoFaultView
  <2> QED
    BY <1>6, <2>2, <2>3, <2>4 DEF UndoStep
<1> QED
  BY <1>5, <1>6 DEF Judge, Elsewhere, Refetch, Fetched, vars

\* What was hurried stays so.
HurryKept == (hurried.seal => hurried'.seal) /\ (hurried.twice => hurried'.twice)

LEMMA HurriedStays == Typed /\ [Next]_vars => HurryKept
<1> SUFFICES ASSUME Typed, [Next]_vars PROVE HurryKept
  OBVIOUS
<1>0. hurried \in [seal : BOOLEAN, twice : BOOLEAN]
  BY DEF Typed, CommandsTyped
<1>1. CASE Person
  <2>1. ASSUME NEW m \in Memories, Keep(m) \/ Reject(m) \/ SubmitEdit(m) PROVE HurryKept
    BY <1>0, <2>1, PressKnown DEF Starts, HurryKept
  <2>2. ASSUME NEW m \in Memories, Edit(m) PROVE HurryKept
    BY <2>2 DEF Edit, HurryKept
  <2>3. ASSUME NEW m \in Memories, SelectRow(m) PROVE HurryKept
    BY <1>0, <2>3 DEF SelectRow, HurryKept
  <2>4. ASSUME Combine \/ KeepTheirs \/ Escape PROVE HurryKept
    BY <2>4 DEF Combine, KeepTheirs, Escape, HurryKept
  <2>5. ASSUME NEW t \in retries, Retry(t) PROVE HurryKept
    BY <1>0, <2>5 DEF Retry, Starts, HurryKept
  <2>6. ASSUME NEW m \in Memories, NEW e \in 1 .. MaxPresses, Undo(m, e) PROVE HurryKept
    BY <1>0, <2>6 DEF Undo, HurryKept
  <2> QED
    BY <1>1, <2>1, <2>2, <2>3, <2>4, <2>5, <2>6 DEF Person
<1>2. ASSUME NEW i \in DOMAIN runs, Network(i) \/ Fault(i) PROVE HurryKept
  <2>1. CASE SavedForJudge(i)
    BY <1>0, <2>1 DEF SavedForJudge, HurryKept
  <2> QED
    BY <1>2, <2>1 DEF Network, Serve, Applied, Advance, Busy, Resume, Failed, Clashed, Fault, HurryKept
<1>3. ASSUME NEW m, NEW e, UndoStep(m, e) \/ UndoFault(m, e) PROVE HurryKept
  <2>1. UndoServe(m, e) => UNCHANGED hurried
    BY DEF UndoServe
  <2>2. UndoEnds(m, e) => UNCHANGED hurried
    BY DEF UndoEnds
  <2>3. UndoFault(m, e) => UNCHANGED hurried
    BY DEF UndoFault
  <2> QED
    BY <1>3, <2>1, <2>2, <2>3 DEF UndoStep, HurryKept
<1>4. CASE \/ \E m \in Memories : Judge(m) \/ Elsewhere(m)
           \/ Refetch
           \/ Fetched
           \/ UNCHANGED vars
  BY <1>4 DEF Judge, Elsewhere, Refetch, Fetched, vars, HurryKept
<1> QED
  BY <1>1, <1>2, <1>3, <1>4 DEF Next

LEMMA MarksInit == Init => MarksInv
<1> SUFFICES ASSUME Init PROVE MarksInv
  OBVIOUS
<1>1. ui.sealed = NoSeal /\ ui.waiting = None /\ ui.busy = None
  BY DEF Init
<1> QED
  BY <1>1 DEF MarksInv, Held, Sealed, Waits, Busies

LEMMA MarksNext == Typed /\ Ordered /\ OutcomeInv /\ MarksInv /\ [Next]_vars => MarksInv'
<1> SUFFICES ASSUME Typed, Ordered, OutcomeInv, MarksInv, [Next]_vars, ~hurried'.seal PROVE GoodNext
  BY DEF MarksInv, GoodNext
<1>1. Good
  BY HurriedStays DEF HurryKept, MarksInv, Good
<1> QED
  BY <1>1, PersonGood, NetworkGood, OthersGood DEF Next

\* "The card wears the seal while the command is in flight" (review-state.ts): no
\* card is sealed, busy or waiting without a command for it, whatever fails, is
\* undone, tried again or given up, as long as nobody leaves a Keep under its seal
\* or tries an edit again after closing it (use-review.ts, review-state.ts).
THEOREM MarksComeOff == Spec => []MarksEnd
<1>1. MarksInv => MarksEnd
  <2> SUFFICES ASSUME Good, NEW m \in Marked PROVE Commanded(m)
    BY DEF MarksInv, Good, MarksEnd, SealHasCommand
  <2>1. m # None
    BY DEF Marked
  <2>2. m \in SealHolders \cup EditHolders \cup WaitHolders \cup BusyHolders
    <3>1. CASE m = ui.sealed.ref
      <4>1. ui.sealed # NoSeal
        BY <2>1, <3>1 DEF NoSeal
      <4> QED
        BY <3>1, <4>1 DEF Good, Held, Sealed
    <3>2. CASE m = ui.waiting
      BY <2>1, <3>2 DEF Good, Held, Waits
    <3>3. CASE m = ui.busy /\ m # ui.sealed.ref /\ m # ui.waiting
      BY <2>1, <3>3 DEF Good, Held, Busies
    <3> QED
      BY <3>1, <3>2, <3>3 DEF Marked
  <2>3. \E i \in DOMAIN runs : Minds(i, m)
    BY <2>2 DEF SealHolders, EditHolders, WaitHolders, BusyHolders
  <2> QED
    BY <2>3 DEF Minds, Commanded
<1>2. Init => MarksInv
  BY MarksInit
<1>3. (Typed /\ Ordered /\ OutcomeInv) /\ MarksInv /\ [Next]_vars => MarksInv'
  BY MarksNext
<1> QED
  BY <1>1, <1>2, <1>3, ReviewHolds, PTL DEF Spec

-----------------------------------------------------------------------------
\* Keys: what a step does with them

LEMMA NowPrimed == \A x : \A i : runs'[i].intent = x => Now(runs[i].intent)' = Now(x)'
BY DEF Now, Gen, GensOf

LEMMA GenKnown ==
    ASSUME CommandsTyped
    PROVE  \A x : Gen(x) \in Nat /\ IsFiniteSet(GensOf(x))
<1> SUFFICES ASSUME NEW x PROVE Gen(x) \in Nat /\ IsFiniteSet(GensOf(x))
  OBVIOUS
<1>1. GensOf(x) \subseteq settled /\ IsFiniteSet(settled)
  BY DEF GensOf, CommandsTyped
<1>2. IsFiniteSet(GensOf(x))
  BY <1>1, FS_Subset
<1> QED
  BY <1>2, FS_CardinalityType DEF Gen

LEMMA KeyNow == \A i : keyFor(i) = [intent |-> runs[i].intent, gen |-> Gen(runs[i].intent)]
BY DEF keyFor, Gen, GensOf

\* A key is given up for the next one.
LEMMA GenSettled ==
    ASSUME CommandsTyped, GensInOrder, NEW x, settled' = settle(x)
    PROVE  /\ settled' = settled \cup {[intent |-> x, gen |-> Gen(x)]}
           /\ Gen(x)' = Gen(x) + 1
           /\ \A y : y # x => Gen(y)' = Gen(y)
<1> DEFINE s == [intent |-> x, gen |-> Gen(x)]
<1>1. settled' = settled \cup {s}
  BY DEF settle, Gen, GensOf
<1>2. s.intent = x /\ s.gen = Gen(x)
  OBVIOUS
<1>3. Gen(x) \in Nat /\ IsFiniteSet(GensOf(x))
  BY GenKnown
<1>4. s \notin GensOf(x)
  <2>1. \A z \in GensOf(x) : z.gen < Gen(x)
    BY DEF GensInOrder, GensOf
  <2> QED
    BY <1>2, <1>3, <2>1
<1> HIDE DEF s
<1>5. GensOf(x)' = GensOf(x) \cup {s}
  BY <1>1, <1>2 DEF GensOf
<1>6. Cardinality(GensOf(x) \cup {s}) = Cardinality(GensOf(x)) + 1
  BY <1>3, <1>4, FS_AddElement
<1>7. Gen(x)' = Gen(x) + 1
  BY <1>5, <1>6 DEF Gen
<1>8. ASSUME NEW y, y # x PROVE Gen(y)' = Gen(y)
  <2>1. GensOf(y)' = GensOf(y)
    BY <1>1, <1>2, <1>8 DEF GensOf
  <2> QED
    BY <2>1 DEF Gen
<1> QED
  BY <1>1, <1>7, <1>8 DEF s

LEMMA GenSame == UNCHANGED settled => \A x : Gen(x)' = Gen(x)
BY DEF Gen, GensOf

LEMMA ToldKept ==
    ASSUME ServerTyped, StackGrows
    PROVE  \A c \in claims : Told(c) => Told(c)'
<1> SUFFICES ASSUME NEW c \in claims, Told(c) PROVE Told(c)'
  OBVIOUS
<1>1. PICK m \in Memories : m = c.key.intent.m
  BY DEF ServerTyped, Keys, Intents
<1> QED
  BY <1>1 DEF Told, StackGrows

\* A step that gives no key up, and puts none to use.
Hushed ==
    \A j \in Running' :
        /\ j \in Running /\ runs'[j].intent = runs[j].intent
        /\ runs'[j].pc = "answered" =>
              \/ runs[j].pc = "answered" /\ runs'[j].answer = runs[j].answer
              \/ Retryable(runs'[j].answer.kind) /\ runs'[j].answer.kind # "ok"

LEMMA KeysQuiet ==
    ASSUME Typed, KeysGood, UNCHANGED <<settled, claims>>, StackGrows, Hushed
    PROVE  KeysGood'
<1>0. ServerTyped
  BY DEF Typed
<1>1. \A x : Gen(x)' = Gen(x) /\ Now(x)' = Now(x)
  <2>1. \A x : Gen(x)' = Gen(x)
    BY GenSame
  <2> QED
    BY <2>1 DEF Now
<1>2. OnceAtATime'
  BY DEF Hushed, KeysGood, OnceAtATime
<1>3. GensInOrder' /\ ClaimsNow' /\ OneClaim'
  BY <1>1 DEF KeysGood, GensInOrder, ClaimsNow, OneClaim
<1>4. ClaimsTold'
  BY <1>0, <1>1, ToldKept DEF KeysGood, ClaimsTold
<1>5. AnswersNow'
  <2> SUFFICES ASSUME NEW j \in Running', runs'[j].pc = "answered"
               PROVE  /\ runs'[j].answer.kind # "ok" /\ ~Retryable(runs'[j].answer.kind) => Now(runs[j].intent)' = {}
                      /\ runs'[j].answer.kind = "ok" =>
                            \E c \in Now(runs[j].intent)' : c.answer.receipt = runs'[j].answer.receipt
    BY DEF AnswersNow, Retryable
  <2>1. PICK x : x = runs[j].intent
    OBVIOUS
  <2>2. Now(runs[j].intent)' = Now(x) /\ Now(x) = Now(runs[j].intent)
    BY <1>1, <2>1, NowPrimed DEF Hushed
  <2> QED
    BY <2>2 DEF KeysGood, AnswersNow, Hushed
<1> QED
  BY <1>2, <1>3, <1>4, <1>5 DEF KeysGood

LEMMA HushedMove ==
    ASSUME CommandsTyped, NEW i \in Running, NEW r, RunBecomes(i, r),
           \/ r = Ended
           \/ /\ r.intent = runs[i].intent
              /\ r.pc = "answered" => Retryable(r.answer.kind) /\ r.answer.kind # "ok"
    PROVE  Hushed
<1>1. \A j \in Running' : j \in Running
  BY DEF RunBecomes
<1>2. \A j \in Running' : j # i => runs'[j] = runs[j]
  BY <1>1, RunningKnown DEF RunBecomes
<1>3. i \in Running' => r # Ended /\ runs'[i] = r
  BY DEF RunBecomes
<1> QED
  BY <1>1, <1>2, <1>3 DEF Hushed

LEMMA HushedAbort == ASSUME CommandsTyped, runs' = Abort PROVE Hushed
<1>1. CASE waitFor = 0
  BY <1>1, AbortMoves DEF Hushed
<1>2. CASE waitFor # 0
  <2> DEFINE s == AbortedRun(runs[waitFor])
  <2>1. waitFor \in Running /\ RunBecomes(waitFor, s)
    BY <1>2, AbortMoves
  <2>2. runs[waitFor] \in Commands
    BY <2>1, RunningKnown
  <2>3. s.intent = runs[waitFor].intent /\ s.pc = runs[waitFor].pc /\ s.answer = runs[waitFor].answer
    BY <2>2 DEF AbortedRun, Commands
  <2> HIDE DEF s
  <2>4. \A j \in Running' : j \in Running /\ (j # waitFor => runs'[j] = runs[j])
    BY <2>1, RunningKnown DEF RunBecomes
  <2>5. runs'[waitFor] = s
    BY <2>1 DEF RunBecomes
  <2> QED
    BY <2>3, <2>4, <2>5 DEF Hushed
<1> QED
  BY <1>1, <1>2

LEMMA StartsKeys ==
    ASSUME Typed, KeysGood, NEW r \in Commands, Unsent(r), Starts(r), ~hurried'.twice
    PROVE  KeysGood'
<1>0. ServerTyped /\ CommandsTyped
  BY DEF Typed
<1>1. PICK k : k = Len(runs) + 1
  OBVIOUS
<1>2. /\ runs'[k] = r /\ Running' = Running \cup {k}
      /\ \A j \in Running : runs'[j] = runs[j]
  BY <1>0, <1>1, AddedMoves, RunningKnown DEF Starts
<1>3. ~Sending(r.intent)
  <2>1. hurried'.twice = (hurried.twice \/ Sending(r.intent))
    BY DEF Starts
  <2> QED
    BY <2>1
<1>4. UNCHANGED <<settled, claims, stack>>
  BY DEF Starts
<1>5. \A x : Gen(x)' = Gen(x) /\ Now(x)' = Now(x)
  <2>1. \A x : Gen(x)' = Gen(x)
    BY <1>4, GenSame
  <2> QED
    BY <1>4, <2>1 DEF Now
<1>6. OnceAtATime'
  BY <1>2, <1>3 DEF KeysGood, OnceAtATime, Sending
<1>7. GensInOrder' /\ ClaimsNow' /\ OneClaim' /\ ClaimsTold'
  BY <1>4, <1>5 DEF KeysGood, GensInOrder, ClaimsNow, OneClaim, ClaimsTold, Told
<1>8. AnswersNow'
  <2> SUFFICES ASSUME NEW j \in Running', runs'[j].pc = "answered"
               PROVE  /\ runs'[j].answer.kind # "ok" /\ ~Retryable(runs'[j].answer.kind) => Now(runs[j].intent)' = {}
                      /\ runs'[j].answer.kind = "ok" =>
                            \E c \in Now(runs[j].intent)' : c.answer.receipt = runs'[j].answer.receipt
    BY DEF AnswersNow, Retryable
  <2>1. j \in Running /\ runs'[j] = runs[j]
    BY <1>2 DEF Unsent
  <2>2. PICK x : x = runs[j].intent
    OBVIOUS
  <2>3. Now(runs[j].intent)' = Now(x) /\ Now(x) = Now(runs[j].intent)
    BY <1>5, <2>1, <2>2, NowPrimed
  <2> QED
    BY <2>1, <2>3 DEF KeysGood, AnswersNow
<1> QED
  BY <1>6, <1>7, <1>8 DEF KeysGood

\* What the server answers is what it did with the key, or that it did nothing.
LEMMA ServeKeys ==
    ASSUME Typed, Ordered, OutcomeInv, KeysGood, NEW i, NEW a \in Replies, ServeDoes(i, a)
    PROVE  KeysGood'
<1>0. ServerTyped /\ CommandsTyped
  BY DEF Typed
<1>1. PICK r \in Commands : r = runs[i]
  BY DEF ServeDoes
<1>2. PICK x \in Intents : x = r.intent
  BY DEF Commands
<1>3. i \in Running /\ UNCHANGED <<stack, settled>> /\ RunBecomes(i, AnsweredRun(r, a))
  BY <1>1 DEF ServeDoes
<1>4. PICK s \in Commands : s = AnsweredRun(r, a) /\ s.pc = "answered" /\ s.answer = a /\ s.intent = x
  <2>1. AnsweredRun(r, a).pc = "answered" /\ AnsweredRun(r, a).answer = a /\ AnsweredRun(r, a).intent = r.intent
    BY DEF AnsweredRun, Commands
  <2>2. AnsweredRun(r, a) \in Commands
    BY <1>3, MovesKept
  <2> QED
    BY <1>2, <2>1, <2>2
<1>5. runs'[i] = s /\ Running' = Running /\ \A j \in Running : j # i => runs'[j] = runs[j]
  BY <1>0, <1>3, <1>4, NotEnded, RunningKnown DEF RunBecomes
<1>6. keyFor(i) = [intent |-> x, gen |-> Gen(x)] /\ Gen(x) \in Nat
  BY <1>0, <1>1, <1>2, KeyNow, GenKnown
<1>7. \A y : Gen(y)' = Gen(y)
  BY <1>3, GenSame
<1>8. \A c \in claims : c.key = keyFor(i) <=> c \in Now(x)
  <2> SUFFICES ASSUME NEW c \in claims PROVE c.key = keyFor(i) <=> c \in Now(x)
    OBVIOUS
  <2>1. c.key \in [intent : Intents, gen : Nat]
    BY <1>0 DEF ServerTyped, Keys
  <2> QED
    BY <1>6, <2>1 DEF Now
<1>9. \A j \in Running : j # i => runs[j].intent # x
  BY <1>1, <1>2, <1>3 DEF KeysGood, OnceAtATime
<1>10. OnceAtATime' /\ GensInOrder'
  <2>1. \A j \in Running : runs'[j].intent = runs[j].intent
    BY <1>1, <1>2, <1>4, <1>5
  <2>2. OnceAtATime'
    BY <1>5, <2>1 DEF KeysGood, OnceAtATime
  <2> QED
    BY <1>3, <1>7, <2>2 DEF KeysGood, GensInOrder
<1>11. ASSUME \A y : y # x => Now(y)' = Now(y),
              a.kind # "ok" /\ ~Retryable(a.kind) => Now(x)' = {},
              a.kind = "ok" => \E c \in Now(x)' : c.answer.receipt = a.receipt
       PROVE  AnswersNow'
  <2> SUFFICES ASSUME NEW j \in Running', runs'[j].pc = "answered"
               PROVE  /\ runs'[j].answer.kind # "ok" /\ ~Retryable(runs'[j].answer.kind) => Now(runs[j].intent)' = {}
                      /\ runs'[j].answer.kind = "ok" =>
                            \E c \in Now(runs[j].intent)' : c.answer.receipt = runs'[j].answer.receipt
    BY DEF AnswersNow, Retryable
  <2>1. CASE j = i
    <3>1. Now(runs[j].intent)' = Now(x)'
      BY <1>4, <1>5, <2>1, NowPrimed
    <3> QED
      BY <1>4, <1>5, <1>11, <2>1, <3>1
  <2>2. CASE j # i
    <3>1. j \in Running /\ runs'[j] = runs[j]
      BY <1>5, <2>2
    <3>2. PICK y : y = runs[j].intent
      OBVIOUS
    <3>3. y # x
      BY <1>9, <2>2, <3>1, <3>2
    <3>4. Now(runs[j].intent)' = Now(y)'
      BY <3>1, <3>2, NowPrimed
    <3>5. Now(runs[j].intent)' = Now(y) /\ Now(y) = Now(runs[j].intent)
      BY <1>11, <3>2, <3>3, <3>4
    <3> QED
      BY <3>1, <3>5 DEF KeysGood, AnswersNow
  <2> QED
    BY <2>1, <2>2
<1>12. ASSUME UNCHANGED claims PROVE ClaimsTold' /\ ClaimsNow' /\ OneClaim' /\ \A y : Now(y)' = Now(y)
  BY <1>3, <1>7, <1>12 DEF KeysGood, ClaimsTold, ClaimsNow, OneClaim, Told, Now
<1>13. CASE (\E c \in claims : c.key = keyFor(i) /\ a = c.answer) /\ UNCHANGED claims
  <2>1. PICK c \in claims : c.key = keyFor(i) /\ a = c.answer
    BY <1>13
  <2>2. c \in Now(x) /\ a.kind = "ok"
    BY <1>8, <2>1 DEF OutcomeInv, ClaimsGiven
  <2>3. AnswersNow'
    BY <1>11, <1>12, <1>13, <2>1, <2>2
  <2> QED
    BY <1>10, <1>12, <1>13, <2>3 DEF KeysGood
<1>14. CASE (\A c \in claims : c.key # keyFor(i)) /\ a.kind # "ok" /\ UNCHANGED claims
  <2>1. Now(x) = {}
    BY <1>8, <1>14 DEF Now
  <2>2. AnswersNow'
    BY <1>11, <1>12, <1>14, <2>1
  <2> QED
    BY <1>10, <1>12, <1>14, <2>2 DEF KeysGood
<1>15. CASE (\A c \in claims : c.key # keyFor(i)) /\ claims' = claims \cup {[key |-> keyFor(i), answer |-> a]} /\ a.kind = "ok"
  <2> DEFINE d == [key |-> keyFor(i), answer |-> a]
  <2>1. d.key.intent = x /\ d.key.gen = Gen(x) /\ d.answer = a /\ d.key = keyFor(i)
    BY <1>6
  <2>2. claims' = claims \cup {d}
    BY <1>15
  <2> HIDE DEF d
  <2>3. d \in Now(x)'
    BY <1>7, <2>1, <2>2 DEF Now
  <2>4. \A y : y # x => Now(y)' = Now(y)
    BY <1>7, <2>1, <2>2 DEF Now
  <2>5. AnswersNow'
    BY <1>11, <1>15, <2>1, <2>3, <2>4
  <2>6. ClaimsTold' /\ ClaimsNow'
    BY <1>3, <1>6, <1>7, <2>1, <2>2 DEF KeysGood, ClaimsTold, ClaimsNow, Told
  <2>7. OneClaim'
    BY <1>15, <2>1, <2>2 DEF KeysGood, OneClaim
  <2> QED
    BY <1>10, <2>5, <2>6, <2>7 DEF KeysGood
<1>16. ASSUME Refusal(r) # "no", a = Answer(Refusal(r)) PROVE a.kind # "ok"
  BY <1>16, RefusalKnown
<1>17. ASSUME NEW o \in Outcome(r), Apply(r.m, o[1], o[2], keyFor(i)), a = [o[2] EXCEPT !.receipt = Len(log[r.m]) + 1]
       PROVE  claims' = claims \cup {[key |-> keyFor(i), answer |-> a]} /\ a.kind = "ok"
  <2>1. o[2] \in Replies /\ o[2].kind = "ok"
    BY <1>0, OutcomesKnown
  <2>2. a.kind = o[2].kind
    BY <1>17, <2>1 DEF Replies
  <2> QED
    BY <1>17, <2>1, <2>2 DEF Apply
<1> QED
  BY <1>1, <1>13, <1>14, <1>15, <1>16, <1>17 DEF ServeDoes

\* A command's key is given up when what the server did with it is told.
LEMMA SettleKeys ==
    ASSUME Typed, Ordered, KeysGood, NEW i \in Running, NEW x, x = runs[i].intent, settled' = settle(x),
           UNCHANGED claims, StackGrows,
           \A c \in Now(x) : Told(c)',
           \A j \in Running' : j # i => j \in Running /\ runs'[j] = runs[j],
           i \in Running' => runs'[i].pc # "answered" /\ (runs'[i].intent = x \/ ~Sending(runs'[i].intent))
    PROVE  KeysGood'
<1>0. ServerTyped /\ CommandsTyped
  BY DEF Typed
<1>1. /\ settled' = settled \cup {[intent |-> x, gen |-> Gen(x)]}
      /\ Gen(x)' = Gen(x) + 1
      /\ \A y : y # x => Gen(y)' = Gen(y)
  BY <1>0, GenSettled DEF KeysGood
<1>2. \A y : Gen(y) \in Nat
  BY <1>0, GenKnown
<1>3. \A j \in Running : j # i => runs[j].intent # x
  BY DEF KeysGood, OnceAtATime
<1>4. \A y : y # x => Now(y)' = Now(y)
  BY <1>1 DEF Now
<1>5. OnceAtATime'
  <2>1. \A j \in Running' : i \in Running' /\ j # i => runs'[i].intent # runs'[j].intent
    BY <1>3 DEF Sending
  <2> QED
    BY <2>1 DEF KeysGood, OnceAtATime
<1>6. GensInOrder'
  <2> SUFFICES ASSUME NEW s \in settled' PROVE s.gen < Gen(s.intent)'
    BY DEF GensInOrder
  <2>0. \A z \in settled : z.gen \in Nat
    BY <1>0 DEF CommandsTyped, Keys
  <2>1. CASE s \in settled /\ s.intent # x
    BY <1>1, <2>1 DEF KeysGood, GensInOrder
  <2>2. CASE s \in settled /\ s.intent = x
    <3>1. s.gen < Gen(x) /\ s.gen \in Nat
      BY <2>0, <2>2 DEF KeysGood, GensInOrder
    <3> QED
      BY <1>1, <1>2, <2>2, <3>1
  <2>3. CASE s = [intent |-> x, gen |-> Gen(x)]
    <3>1. s.intent = x /\ s.gen = Gen(x)
      BY <2>3
    <3> QED
      BY <1>1, <1>2, <3>1
  <2> QED
    BY <1>1, <2>1, <2>2, <2>3
<1>7. \A c \in claims : c.key.gen \in Nat
  BY <1>0 DEF ServerTyped, Keys
<1>8. ClaimsTold' /\ ClaimsNow'
  <2> SUFFICES ASSUME NEW c \in claims
               PROVE  /\ c.key.gen < Gen(c.key.intent)' => Told(c)'
                      /\ c.key.gen <= Gen(c.key.intent)'
    BY DEF ClaimsTold, ClaimsNow
  <2>1. /\ c.key.gen < Gen(c.key.intent) => Told(c)'
        /\ c.key.gen <= Gen(c.key.intent)
    BY <1>0, ToldKept DEF KeysGood, ClaimsTold, ClaimsNow
  <2>2. CASE c.key.intent # x
    BY <1>1, <2>1, <2>2
  <2>3. CASE c.key.intent = x
    <3>1. Gen(c.key.intent) = Gen(x) /\ Gen(c.key.intent)' = Gen(x) + 1
      BY <1>1, <2>3
    <3>2. c.key.gen = Gen(x) => Told(c)'
      BY <2>3 DEF Now
    <3> QED
      BY <1>2, <1>7, <2>1, <3>1, <3>2
  <2> QED
    BY <2>2, <2>3
<1>9. OneClaim'
  BY DEF KeysGood, OneClaim
<1>10. AnswersNow'
  <2> SUFFICES ASSUME NEW j \in Running', runs'[j].pc = "answered"
               PROVE  /\ runs'[j].answer.kind # "ok" /\ ~Retryable(runs'[j].answer.kind) => Now(runs[j].intent)' = {}
                      /\ runs'[j].answer.kind = "ok" =>
                            \E c \in Now(runs[j].intent)' : c.answer.receipt = runs'[j].answer.receipt
    BY DEF AnswersNow, Retryable
  <2>1. j # i /\ j \in Running /\ runs'[j] = runs[j]
    OBVIOUS
  <2>2. PICK y : y = runs[j].intent
    OBVIOUS
  <2>3. y # x
    BY <1>3, <2>1, <2>2
  <2>4. Now(runs[j].intent)' = Now(y)'
    BY <2>1, <2>2, NowPrimed
  <2>5. Now(runs[j].intent)' = Now(y) /\ Now(y) = Now(runs[j].intent)
    BY <1>4, <2>2, <2>3, <2>4
  <2> QED
    BY <2>1, <2>5 DEF KeysGood, AnswersNow
<1> QED
  BY <1>5, <1>6, <1>8, <1>9, <1>10 DEF KeysGood

\* A command that was applied tells what the server did with its key.
LEMMA ToldAll ==
    ASSUME Typed, Ordered, KeysGood, NEW i \in Running, runs[i].pc = "answered", runs[i].answer.kind = "ok",
           StackGains(runs[i].m, Entry(runs[i]))
    PROVE  \A c \in Now(runs[i].intent) : Told(c)'
<1>0. CommandsTyped /\ ServerTyped
  BY DEF Typed
<1>1. PICK r \in Commands : r = runs[i]
  BY <1>0, RunningKnown
<1>2. PICK m \in Memories : m = r.m
  BY DEF Commands
<1>3. PICK x : x = r.intent /\ x.m = m
  BY <1>1, <1>2 DEF Ordered, OfIntent
<1>4. PICK c0 \in Now(x) : c0.answer.receipt = r.answer.receipt
  BY <1>1, <1>3 DEF KeysGood, AnswersNow
<1> SUFFICES ASSUME NEW c \in Now(x) PROVE Told(c)'
  BY <1>1, <1>3
<1>5. c = c0
  <2>1. c \in claims /\ c0 \in claims /\ c.key \in [intent : Intents, gen : Nat] /\ c0.key \in [intent : Intents, gen : Nat]
    BY <1>0, <1>4 DEF Now, ServerTyped, Keys
  <2>2. c.key = c0.key
    BY <2>1, <1>4 DEF Now
  <2> QED
    BY <2>1, <2>2 DEF KeysGood, OneClaim
<1>6. PICK e : e = Len(stack[m]) + 1
  OBVIOUS
<1>7. e \in DOMAIN stack'[m] /\ stack'[m][e] = Entry(r) /\ Entry(r).receipt = r.answer.receipt
  BY <1>1, <1>2, <1>6, EntryKnown DEF StackGains
<1>8. c.key.intent.m = m
  BY <1>3 DEF Now
<1> QED
  BY <1>4, <1>5, <1>7, <1>8 DEF Told

\* A command the server refused left nothing to tell.
LEMMA NothingToTell ==
    ASSUME KeysGood, NEW i \in Running, runs[i].pc = "answered", runs[i].answer.kind # "ok",
           ~Retryable(runs[i].answer.kind)
    PROVE  Now(runs[i].intent) = {}
BY DEF KeysGood, AnswersNow

\* What a command that settles does, but for its own answer.
LEMMA SettlesKeys ==
    ASSUME Typed, Ordered, KeysGood, NEW i \in Running, NEW s, RunBecomes(i, s), UNCHANGED claims, StackGrows,
           settled' = settle(runs[i].intent),
           \A c \in Now(runs[i].intent) : Told(c)',
           s # Ended => s.pc # "answered" /\ (s.intent = runs[i].intent \/ ~Sending(s.intent))
    PROVE  KeysGood'
<1>0. CommandsTyped
  BY DEF Typed
<1>1. PICK x : x = runs[i].intent
  OBVIOUS
<1>2. \A j \in Running' : j # i => j \in Running /\ runs'[j] = runs[j]
  BY <1>0, RunningKnown DEF RunBecomes
<1>3. i \in Running' => runs'[i] = s /\ s # Ended
  BY DEF RunBecomes
<1>4. i \in Running' => runs'[i].pc # "answered" /\ (runs'[i].intent = x \/ ~Sending(runs'[i].intent))
  BY <1>1, <1>3
<1> QED
  BY <1>1, <1>2, <1>4, SettleKeys

LEMMA PushedGrows == ASSUME NEW m \in Memories, NEW x, StackGains(m, x) PROVE StackGrows
<1>1. \A n \in Memories : \A e \in DOMAIN stack[n] : e \in DOMAIN stack'[n] /\ stack'[n][e] = stack[n][e]
  BY DEF StackGains
<1> QED
  BY <1>1 DEF StackGrows

LEMMA AppliedKeys == ASSUME Typed, Ordered, KeysGood, NEW i, AppliedDoes(i) PROVE KeysGood'
<1>0. CommandsTyped /\ RunsHeld
  BY TypedParts DEF Typed
<1>1. PICK r \in Commands : r = runs[i]
  BY DEF AppliedDoes
<1>2. PICK m \in Memories : m = r.m
  BY DEF Commands
<1>3. /\ i \in Running /\ r.pc = "answered" /\ r.answer.kind = "ok" /\ settled' = settle(r.intent)
      /\ StackGains(m, Entry(r)) /\ UNCHANGED claims
  BY <1>1, <1>2 DEF AppliedDoes
<1>4. StackGrows /\ \A c \in Now(r.intent) : Told(c)'
  BY <1>1, <1>2, <1>3, PushedGrows, ToldAll
<1>5. CASE Finish(i)
  <2>1. RunBecomes(i, Ended)
    BY <1>0, <1>3, <1>5, FinishHeld
  <2> QED
    BY <1>1, <1>3, <1>4, <2>1, SettlesKeys
<1>6. CASE RunBecomes(i, SealingRun(r, Len(stack[r.m]) + 1))
  <2>1. PICK e : e = Len(stack[r.m]) + 1
    OBVIOUS
  <2>2. PICK s : s = SealingRun(r, e) /\ s.pc = "sealing" /\ s.intent = r.intent
    <3>1. SealingRun(r, e).pc = "sealing" /\ SealingRun(r, e).intent = r.intent
      BY DEF SealingRun, Commands
    <3> QED
      BY <3>1
  <2>3. RunBecomes(i, s)
    BY <1>6, <2>1, <2>2
  <2> QED
    BY <1>1, <1>3, <1>4, <2>2, <2>3, SettlesKeys
<1> QED
  BY <1>1, <1>5, <1>6 DEF AppliedDoes

LEMMA SavedKeys == ASSUME Typed, Ordered, KeysGood, NEW i, SavedDoes(i), ~hurried'.twice PROVE KeysGood'
<1>0. hurried \in [seal : BOOLEAN, twice : BOOLEAN]
  BY DEF Typed, CommandsTyped
<1>1. PICK r \in Commands : r = runs[i]
  BY DEF SavedDoes
<1>2. PICK m \in Memories : m = r.m
  BY DEF Commands
<1>3. /\ i \in Running /\ r.pc = "answered" /\ r.answer.kind = "ok" /\ settled' = settle(r.intent)
      /\ StackGains(m, Entry(r)) /\ UNCHANGED claims
  BY <1>1, <1>2 DEF SavedDoes
<1>4. StackGrows /\ \A c \in Now(r.intent) : Told(c)'
  BY <1>1, <1>2, <1>3, PushedGrows, ToldAll
<1>5. PICK y : y = intentOf("keep", m, r.answer.version)
  OBVIOUS
<1>6. ~Sending(y)
  <2>1. hurried' = [hurried EXCEPT !.twice = @ \/ Sending(y)]
    BY <1>1, <1>2, <1>5 DEF SavedDoes
  <2> QED
    BY <1>0, <2>1
<1>7. PICK s \in Commands : RunBecomes(i, s) /\ s.pc = "asked" /\ s.intent = y
  BY <1>1, <1>2, <1>5 DEF SavedDoes, Unsent
<1> QED
  BY <1>1, <1>3, <1>4, <1>6, <1>7, SettlesKeys

LEMMA FailedKeys == ASSUME Typed, Ordered, KeysGood, NEW i, FailedDoes(i) PROVE KeysGood'
<1>0. CommandsTyped /\ RunsHeld
  BY TypedParts DEF Typed
<1>1. PICK r \in Commands : r = runs[i]
  BY DEF FailedDoes
<1>2. /\ i \in Running /\ r.pc = "answered" /\ r.answer.kind # "ok" /\ Finish(i) /\ UNCHANGED <<claims, stack>>
      /\ settled' = IF Retryable(r.answer.kind) THEN settled ELSE settle(r.intent)
  BY <1>1 DEF FailedDoes
<1>3. RunBecomes(i, Ended) /\ StackGrows
  BY <1>0, <1>2, FinishHeld, StackRests DEF EntriesFollow
<1>4. CASE Retryable(r.answer.kind)
  BY <1>0, <1>2, <1>3, <1>4, HushedMove, KeysQuiet
<1>5. CASE ~Retryable(r.answer.kind)
  <2>1. Now(r.intent) = {}
    BY <1>1, <1>2, <1>5, NothingToTell
  <2> QED
    BY <1>1, <1>2, <1>3, <1>5, <2>1, SettlesKeys
<1> QED
  BY <1>4, <1>5

LEMMA ClashedKeys == ASSUME Typed, Ordered, KeysGood, NEW i, Clashed(i) PROVE KeysGood'
<1>0. CommandsTyped /\ RunsHeld
  BY TypedParts DEF Typed
<1>1. /\ i \in Running /\ runs[i].pc = "answered" /\ runs[i].answer.kind = "clash" /\ Finish(i)
      /\ UNCHANGED <<claims, stack>> /\ settled' = settle(runs[i].intent)
  BY DEF Clashed, Handles
<1>2. RunBecomes(i, Ended) /\ StackGrows
  BY <1>0, <1>1, FinishHeld, StackRests DEF EntriesFollow
<1>3. Now(runs[i].intent) = {}
  BY <1>1, NothingToTell DEF Retryable
<1> QED
  BY <1>1, <1>2, <1>3, SettlesKeys

LEMMA PersonKeys == ASSUME Typed, Ordered, KeysGood, Person, ~hurried'.twice PROVE KeysGood'
<1>0. CommandsTyped /\ ScreenTyped
  BY DEF Typed
<1>1. ASSUME NEW m \in Memories, Keep(m) \/ Reject(m) \/ SubmitEdit(m) PROVE KeysGood'
  <2>1. PICK kind \in Kinds, version \in Nat : Starts(Run(kind, m, queue[m], version))
    BY <1>1, PressKnown
  <2> QED
    BY <2>1, UnsentRun, StartsKeys
<1>2. ASSUME UNCHANGED <<settled, claims, stack, runs>> PROVE KeysGood'
  <2>1. StackGrows /\ Hushed
    BY <1>2, StackRests DEF EntriesFollow, Hushed, Running
  <2> QED
    BY <1>2, <2>1, KeysQuiet
<1>3. ASSUME UNCHANGED <<settled, claims>>, runs' = Abort, StackGrows PROVE KeysGood'
  BY <1>0, <1>3, HushedAbort, KeysQuiet
<1>4. ASSUME NEW m \in Memories, Edit(m) PROVE KeysGood'
  BY <1>2, <1>4 DEF Edit
<1>5. ASSUME Combine \/ KeepTheirs PROVE KeysGood'
  BY <1>2, <1>5 DEF Combine, KeepTheirs
<1>6. ASSUME NEW m \in Memories, SelectRow(m) PROVE KeysGood'
  <2>1. UNCHANGED <<settled, claims, stack>> /\ runs' = Abort
    BY <1>6 DEF SelectRow
  <2> QED
    BY <1>3, <2>1, StackRests DEF EntriesFollow
<1>7. ASSUME Escape PROVE KeysGood'
  <2>1. UNCHANGED <<settled, claims, stack>> /\ runs' = Abort
    BY <1>7 DEF Escape
  <2> QED
    BY <1>3, <2>1, StackRests DEF EntriesFollow
<1>8. ASSUME NEW t \in retries, Retry(t) PROVE KeysGood'
  <2> DEFINE r == [t EXCEPT !.order = Visible]
  <2>1. r \in Commands /\ Unsent(r)
    BY RetryKnown
  <2>2. Starts(r)
    BY <1>8 DEF Retry
  <2> HIDE DEF r
  <2> QED
    BY <2>1, <2>2, StartsKeys
<1>9. ASSUME NEW m \in Memories, NEW e \in 1 .. MaxPresses, Undo(m, e) PROVE KeysGood'
  <2>1. UndoDoes(m, e)
    <3>1. e \in Nat
      OBVIOUS
    <3> QED
      BY <1>9, <3>1, UndoView
  <2> DEFINE x == stack[m][e]
             y == UndoingEntry(x, queue)
  <2>2. x \in Entries /\ e \in DOMAIN stack[m] /\ StackBecomes(m, e, y)
    BY <2>1 DEF UndoDoes
  <2>3. y.receipt = x.receipt /\ y.landed = x.landed
    BY <2>2, UndoingFields
  <2> HIDE DEF y
  <2>4. StackGrows
    BY <2>2, <2>3, <1>0, StackMoved DEF EntriesFollow
  <2> QED
    BY <1>3, <2>1, <2>4 DEF UndoDoes
<1> QED
  BY <1>1, <1>4, <1>5, <1>6, <1>7, <1>8, <1>9 DEF Person

LEMMA NetworkKeys ==
    ASSUME Typed, Ordered, OutcomeInv, KeysGood, NEW i \in DOMAIN runs, Network(i) \/ Fault(i), ~hurried'.twice
    PROVE  KeysGood'
<1>0. CommandsTyped /\ RunsHeld
  BY TypedParts DEF Typed
<1>1. ASSUME NEW s, i \in Running, UNCHANGED <<settled, claims, stack>>, RunBecomes(i, s),
             \/ s = Ended
             \/ /\ s.intent = runs[i].intent
                /\ s.pc = "answered" => Retryable(s.answer.kind) /\ s.answer.kind # "ok"
      PROVE  KeysGood'
  BY <1>0, <1>1, StackRests, HushedMove, KeysQuiet DEF EntriesFollow
<1>2. ASSUME i \in Running, UNCHANGED <<settled, claims, stack>>, Finish(i) PROVE KeysGood'
  BY <1>0, <1>1, <1>2, FinishHeld
<1>3. CASE Advance(i)
  BY <1>2, <1>3 DEF Advance
<1>4. CASE Busy(i)
  <2>1. BusyDoes(i)
    BY <1>4, BusyView
  <2>2. i \in Running /\ runs[i] \in Commands /\ UNCHANGED <<settled, claims, stack>>
    BY <2>1 DEF BusyDoes
  <2>3. ASSUME NEW b \in BOOLEAN, RunBecomes(i, PausingRun(runs[i], b)) PROVE KeysGood'
    <3> DEFINE s == PausingRun(runs[i], b)
    <3>1. s.intent = runs[i].intent /\ s.pc = "pausing"
      BY <2>2 DEF PausingRun, Commands
    <3>2. RunBecomes(i, s)
      BY <2>3
    <3> HIDE DEF s
    <3> QED
      BY <1>1, <2>2, <3>1, <3>2
  <2> QED
    BY <1>2, <2>1, <2>2, <2>3 DEF BusyDoes
<1>5. CASE Resume(i)
  <2>1. ResumeDoes(i)
    BY <1>5, ResumeView
  <2>2. i \in Running /\ runs[i] \in Commands /\ UNCHANGED <<settled, claims, stack>>
    BY <2>1 DEF ResumeDoes
  <2>3. ASSUME RunBecomes(i, AskedRun(runs[i])) PROVE KeysGood'
    <3> DEFINE s == AskedRun(runs[i])
    <3>1. s.intent = runs[i].intent /\ s.pc = "asked"
      BY <2>2 DEF AskedRun, Commands
    <3>2. RunBecomes(i, s)
      BY <2>3
    <3> HIDE DEF s
    <3> QED
      BY <1>1, <2>2, <3>1, <3>2
  <2> QED
    BY <1>2, <2>1, <2>2, <2>3 DEF ResumeDoes
<1>6. CASE Fault(i)
  <2>1. FaultDoes(i)
    BY <1>6, FaultView
  <2>2. i \in Running /\ runs[i] \in Commands /\ UNCHANGED <<settled, claims, stack>>
    BY <2>1 DEF FaultDoes
  <2>3. PICK a \in Replies : Retryable(a.kind) /\ a.kind # "ok" /\ RunBecomes(i, AnsweredRun(runs[i], a))
    BY <2>1 DEF FaultDoes
  <2> DEFINE s == AnsweredRun(runs[i], a)
  <2>4. s.intent = runs[i].intent /\ s.answer = a
    BY <2>2 DEF AnsweredRun, Commands
  <2>5. RunBecomes(i, s)
    BY <2>3
  <2> HIDE DEF s
  <2> QED
    BY <1>1, <2>2, <2>3, <2>4, <2>5
<1> QED
  BY <1>3, <1>4, <1>5, <1>6, ServeView, ServeKeys, AppliedView, AppliedKeys, SavedView, SavedKeys,
     FailedView, FailedKeys, ClashedKeys DEF Network

LEMMA OthersKeys ==
    ASSUME Typed, Ordered, OutcomeInv, KeysGood,
           \/ \E m \in Memories, e \in 1 .. MaxPresses : UndoStep(m, e) \/ UndoFault(m, e)
           \/ \E m \in Memories : Judge(m) \/ Elsewhere(m)
           \/ Refetch
           \/ Fetched
           \/ UNCHANGED vars
    PROVE  KeysGood'
<1>0. ScreenTyped
  BY DEF Typed
<1>1. ASSUME UNCHANGED <<settled, claims, runs>>, StackGrows PROVE KeysGood'
  <2>1. Hushed
    BY <1>1 DEF Hushed, Running
  <2> QED
    BY <1>1, <2>1, KeysQuiet
<1>2. ASSUME NEW m \in Memories, NEW e \in DOMAIN stack[m], NEW x, StackBecomes(m, e, x),
             x.receipt = stack[m][e].receipt, stack[m][e].landed => x.landed
      PROVE  StackGrows
  BY <1>0, <1>2, StackMoved DEF EntriesFollow
<1>3. ASSUME NEW m \in Memories, NEW e \in Nat, UndoServeDoes(m, e) PROVE KeysGood'
  <2> DEFINE x == stack[m][e]
  <2>1. e \in DOMAIN stack[m] /\ x \in Entries /\ UNCHANGED <<settled, claims, runs>>
    BY <1>3 DEF UndoServeDoes
  <2>2. PICK answer \in {"ok", "refused"}, landed \in {x.landed, TRUE} : StackBecomes(m, e, HeardEntry(x, answer, landed))
    BY <1>3 DEF UndoServeDoes
  <2> DEFINE y == HeardEntry(x, answer, landed)
  <2>3. y.receipt = x.receipt /\ y.landed = landed
    BY <2>1, HeardFields
  <2>4. StackBecomes(m, e, y)
    BY <2>2
  <2> HIDE DEF y
  <2> QED
    BY <1>1, <1>2, <2>1, <2>3, <2>4
<1>4. ASSUME NEW m \in Memories, NEW e \in Nat, UndoFaultDoes(m, e) PROVE KeysGood'
  <2> DEFINE x == stack[m][e]
             y == HeardEntry(x, "unreachable", x.landed)
  <2>1. e \in DOMAIN stack[m] /\ x \in Entries /\ StackBecomes(m, e, y) /\ UNCHANGED <<settled, claims, runs>>
    BY <1>4 DEF UndoFaultDoes
  <2>2. y.receipt = x.receipt /\ y.landed = x.landed
    BY <2>1, HeardFields
  <2> HIDE DEF y
  <2> QED
    BY <1>1, <1>2, <2>1, <2>2
<1>5. ASSUME NEW m \in Memories, NEW e \in Nat, UndoEndsDoes(m, e) PROVE KeysGood'
  <2> DEFINE x == stack[m][e]
  <2>1. e \in DOMAIN stack[m] /\ x \in Entries /\ UNCHANGED <<settled, claims, runs>>
    BY <1>5 DEF UndoEndsDoes
  <2>2. PICK status : StackBecomes(m, e, OverEntry(x, status))
    BY <1>5 DEF UndoEndsDoes
  <2> DEFINE y == OverEntry(x, status)
  <2>3. y.receipt = x.receipt /\ y.landed = x.landed /\ StackBecomes(m, e, y)
    BY <2>1, <2>2, OverFields
  <2> HIDE DEF y
  <2> QED
    BY <1>1, <1>2, <2>1, <2>3
<1>6. ASSUME UNCHANGED <<settled, claims, runs, stack>> PROVE KeysGood'
  BY <1>1, <1>6, StackRests DEF EntriesFollow
<1>7. ASSUME NEW m \in Memories, NEW e \in 1 .. MaxPresses, UndoStep(m, e) \/ UndoFault(m, e) PROVE KeysGood'
  <2>1. e \in Nat
    OBVIOUS
  <2>2. CASE UndoServe(m, e)
    BY <2>1, <2>2, <1>3, UndoServeView DEF OutcomeInv
  <2>3. CASE UndoEnds(m, e)
    BY <2>1, <2>3, <1>5, UndoEndsView
  <2>4. CASE UndoFault(m, e)
    BY <2>1, <2>4, <1>4, UndoFaultView
  <2> QED
    BY <1>7, <2>2, <2>3, <2>4 DEF UndoStep
<1> QED
  BY <1>6, <1>7 DEF Judge, Elsewhere, Refetch, Fetched, vars

LEMMA KeysInit == Init => KeysInv
<1> SUFFICES ASSUME Init PROVE KeysGood
  BY DEF KeysInv
<1>1. settled = {} /\ claims = {} /\ runs = <<>>
  BY DEF Init
<1> QED
  BY <1>1 DEF KeysGood, OnceAtATime, GensInOrder, ClaimsTold, ClaimsNow, OneClaim, AnswersNow, Running

LEMMA KeysNext == Typed /\ Ordered /\ OutcomeInv /\ KeysInv /\ [Next]_vars => KeysInv'
<1> SUFFICES ASSUME Typed, Ordered, OutcomeInv, KeysInv, [Next]_vars, ~hurried'.twice PROVE KeysGood'
  BY DEF KeysInv
<1>1. KeysGood
  BY HurriedStays DEF HurryKept, KeysInv
<1> QED
  BY <1>1, PersonKeys, NetworkKeys, OthersKeys DEF Next

\* An edit never clashes with itself: whatever this edit wrote on the server is on
\* the undo stack of the tab when the tab is told that its words are old, for every
\* order of failures, retries and answers, as long as no command was sent twice at
\* once (intent-keys.ts, use-review.ts).
THEOREM NoEditMeetsItself == Spec => NoSelfClash
<1> DEFINE Stray == \A i \in DOMAIN runs : ~hurried.twice /\ Clashed(i) =>
                       \A c \in claims : c.key.intent = runs[i].intent
                           => \E e \in DOMAIN stack[runs[i].m] : stack[runs[i].m][e].receipt = c.answer.receipt
<1>1. Typed /\ Ordered /\ KeysInv => Stray
  <2> SUFFICES ASSUME Typed, Ordered, KeysGood, NEW i \in DOMAIN runs, Clashed(i),
                      NEW c \in claims, c.key.intent = runs[i].intent
               PROVE  \E e \in DOMAIN stack[runs[i].m] : stack[runs[i].m][e].receipt = c.answer.receipt
    BY DEF KeysInv
  <2>1. i \in Running /\ runs[i].pc = "answered" /\ runs[i].answer.kind = "clash"
    BY DEF Clashed, Handles
  <2>2. Now(runs[i].intent) = {}
    BY <2>1, NothingToTell DEF Retryable
  <2>3. c.key.gen <= Gen(c.key.intent) /\ c.key.gen # Gen(c.key.intent)
    BY <2>2 DEF Now, KeysGood, ClaimsNow
  <2>4. c.key.gen \in Nat /\ Gen(c.key.intent) \in Nat
    BY GenKnown DEF Typed, ServerTyped, Keys
  <2>5. Told(c)
    BY <2>3, <2>4 DEF KeysGood, ClaimsTold
  <2>6. c.key.intent.m = runs[i].m
    BY <2>1 DEF Ordered, OfIntent
  <2> QED
    BY <2>5, <2>6 DEF Told
<1>2. Typed /\ Ordered /\ OutcomeInv /\ KeysInv /\ [Next]_vars => [Stray]_vars
  BY <1>1
<1>3. Init => KeysInv
  BY KeysInit
<1>4. (Typed /\ Ordered /\ OutcomeInv) /\ KeysInv /\ [Next]_vars => KeysInv'
  BY KeysNext
<1>5. NoSelfClash <=> [][Stray]_vars
  BY DEF NoSelfClash
<1> HIDE DEF Stray
<1> QED
  BY <1>2, <1>3, <1>4, <1>5, ReviewHolds, PTL DEF Spec
=============================================================================

------------------------- MODULE RecordUndoProofs --------------------------
(***************************************************************************)
(* What Undo takes back, and what a Forget leaves behind, for every set of *)
(* memories and every history in which no conflict is resolved: a command  *)
(* is undone exactly, no step breaks the lifecycle the database guards,    *)
(* and nothing is left hanging off a forgotten memory.  With resolutions   *)
(* the three are false (record_undo_twice, RecordTrigger, RecordRevived):  *)
(* a resolution touches memories it leaves without a receipt.              *)
(***************************************************************************)
EXTENDS RecordProofs

----------------------------------------------------------------------------
\* The inductive invariant

By == {"person", "agent", "memax"}

\* The acts that changedSince counts as a change, and those it passes over.
Deeds == {"proposed", "kept", "edited", "rejected", "merged", "linked", "flagged", "returned", "superseded",
          "forgot", "resolved"}
Notes == {"judged", "undid"}

AnyReceipt == [cmd : Nat, by : By, act : Deeds \cup Notes, of : Nat]

\* A memory has receipts as soon as it is there, of commands there were.
Streams ==
    /\ hist \in [Memories -> Seq(AnyReceipt)]
    /\ \A m \in Memories : mem[m].life = "none" <=> hist[m] = <<>>
    /\ \A m \in Memories : \A r \in Receipts(m) :
          /\ r.cmd <= Len(journal)
          /\ r.act = "undid" => r.of \in 1..Len(journal) /\ journal[r.of].undone

Undoing(c) == c \in 1..Len(journal) /\ journal[c].kind # "none"

Stood(c) == Undoing(c) /\ ~journal[c].undone

\* A command that may be undone has a receipt on each memory its Undo would
\* write to and on no other; what it would write is back in Review, kept, or
\* withdraws the memory the command created.
Touched ==
    \A c \in 1..Len(journal) : Undoing(c) =>
        /\ journal[c].ended = {}
        /\ \A m \in Memories :
              /\ m \in journal[c].touch <=> \E r \in Receipts(m) : r.cmd = c
              /\ \A r \in Receipts(m) : r.cmd = c => r.act \in Deeds
        /\ \A m \in journal[c].touch :
              \/ journal[c].before[m].life \in {"proposed", "kept"}
              \/ journal[c].before[m].life = "rejected" /\ hist[m][1].cmd = c

\* The receipts that count as a change: of a deed, by a command that stands.
Counts(r) == r.act \in Deeds /\ ~journal[r.cmd].undone

\* What nothing changed since is as the command left it; and a command wrote
\* down as `before' what the last one that counts had left.
AsLeft ==
    \A c \in 1..Len(journal) : Stood(c) => \A m \in journal[c].touch :
        (\A r \in Receipts(m) : r.cmd > c => ~Counts(r)) => mem[m] = journal[c].after[m]

Chained ==
    \A c, e \in 1..Len(journal) : c < e /\ Stood(c) /\ Stood(e) =>
        \A m \in journal[c].touch \cap journal[e].touch :
            (\A r \in Receipts(m) : c < r.cmd /\ r.cmd < e => ~Counts(r)) =>
                journal[e].before[m] = journal[c].after[m]

\* What is folded stays folded, and is not left with a forgotten memory.
Hanging ==
    /\ \A l \in links : l.kind = "conflicts_with" => mem[l.to].life # "forgotten"
    /\ \A l \in links : l.kind = "merged_into" =>
          /\ mem[l.from].life \in {"merged", "forgotten"}
          /\ Stood(l.cmd) /\ l.from \in journal[l.cmd].touch
          /\ mem[l.to].life = "forgotten" => mem[l.from].life = "forgotten"
          /\ \A c \in 1..Len(journal) : l.cmd < c /\ Undoing(c) => l.from \notin journal[c].touch

Exact == Streams /\ Touched /\ AsLeft /\ Chained /\ Hanging

----------------------------------------------------------------------------
\* What a command's receipts are

\* The acts a change has for a memory.
ActsOn(ch, m) == {ch.acts[m][i] : i \in 1..Len(ch.acts[m])}

\* A change other than an Undo's: what is written has receipts of deeds, and
\* a verdict that found nothing leaves a note.
Plain(ch, ms) ==
    /\ ch.by \in By /\ ch.of = 0 /\ ms \subseteq Memories
    /\ \A m \in ms : ch.acts[m] \in Seq(Deeds) /\ ch.acts[m] # <<>> /\ ch.mem[m].life # "none"
    /\ \A m \in Memories \ ms :
          /\ ch.mem[m] = mem[m]
          /\ \/ ch.acts[m] = <<>>
             \/ ch.acts[m] = <<"judged">> /\ ch.undo = "none" /\ mem[m].life \in {"proposed", "kept"}
    /\ ch.undo # "none" =>
          /\ ch.touch = ms /\ ch.end = {}
          /\ \A m \in ms :
                \/ mem[m].life \in {"proposed", "kept"} /\ ch.before[m] = mem[m]
                \/ mem[m].life = "none" /\ ch.before[m].life = "rejected"

\* What a command adds to a memory's stream.
LEMMA Streamed ==
    ASSUME Recorded, Streams, NEW ch, Commit(ch), ch.by \in By, ch.of \in 0..Len(journal),
           NEW m \in Memories, ch.acts[m] \in Seq(Deeds \cup Notes)
    PROVE  /\ hist'[m] \in Seq(AnyReceipt)
           /\ Len(hist'[m]) = Len(hist[m]) + Len(ch.acts[m])
           /\ \A i \in 1..Len(hist[m]) : hist'[m][i] = hist[m][i]
           /\ \A i \in 1..Len(ch.acts[m]) :
                 hist'[m][Len(hist[m]) + i] = Receipt(Len(journal) + 1, ch.by, ch.acts[m][i], ch.of)
           /\ ch.acts[m] = <<>> => hist'[m] = hist[m]
           /\ ch.acts[m] # <<>> => Len(ch.acts[m]) # 0
           /\ DOMAIN hist' = Memories
<1>1. hist' = [k \in Memories |-> hist[k] \o
                   [i \in 1..Len(ch.acts[k]) |-> Receipt(Now, ch.by, ch.acts[k][i], ch.of)]]
  BY DEF Commit
<1>2. Now = Len(journal) + 1 /\ Now \in Nat /\ ch.of \in Nat
  BY DEF Now, Recorded
<1> DEFINE s == hist[m]
           as == ch.acts[m]
           t == hist'[m]
           u == [i \in 1..Len(ch.acts[m]) |-> Receipt(Now, ch.by, ch.acts[m][i], ch.of)]
           c == Now
           by == ch.by
           of == ch.of
<1>3. s \in Seq(AnyReceipt) /\ as \in Seq(Deeds \cup Notes) /\ c \in Nat /\ by \in By /\ of \in Nat
  BY <1>2 DEF Streams
<1>4. t = s \o u /\ u = [i \in 1..Len(as) |-> Receipt(c, by, as[i], of)]
  BY <1>1
<1> HIDE DEF s, as, t, u, c, by, of
<1>5. /\ t \in Seq(AnyReceipt)
      /\ Len(t) = Len(s) + Len(as)
      /\ \A i \in 1..Len(s) : t[i] = s[i]
      /\ \A i \in 1..Len(as) : t[Len(s) + i] = Receipt(c, by, as[i], of)
      /\ as = <<>> => t = s
      /\ as # <<>> => Len(as) # 0
  <2> DEFINE n == Len(as)
  <2>1. n \in Nat /\ \A i \in 1..n : as[i] \in Deeds \cup Notes
    BY <1>3, LenProperties
  <2>2. \A i \in 1..n : Receipt(c, by, as[i], of) \in AnyReceipt
    BY <1>3, <2>1 DEF Receipt, AnyReceipt
  <2>3. as = <<>> <=> n = 0
    BY <1>3, EmptySeq, <2>1
  <2>4. t = s \o u /\ \A i \in 1..n : u[i] = Receipt(c, by, as[i], of)
    BY <1>4
  <2>5. u \in [1..n -> AnyReceipt]
    BY <1>4, <2>2
  <2> HIDE DEF n
  <2>6. u \in Seq(AnyReceipt) /\ Len(u) = n
    BY <2>1, <2>5
  <2>7. Len(s) \in Nat
    BY <1>3, LenProperties
  <2>8. /\ t \in Seq(AnyReceipt) /\ Len(t) = Len(s) + n
        /\ \A i \in 1..Len(s) + n : t[i] = IF i <= Len(s) THEN s[i] ELSE u[i - Len(s)]
    <3> DEFINE S == AnyReceipt
    <3> HIDE DEF S
    <3>1. s \in Seq(S) /\ u \in Seq(S)
      BY <1>3, <2>6 DEF S
    <3>2. /\ s \o u \in Seq(S) /\ Len(s \o u) = Len(s) + Len(u)
          /\ \A i \in 1..Len(s) + Len(u) : (s \o u)[i] = IF i <= Len(s) THEN s[i] ELSE u[i - Len(s)]
      BY <3>1, ConcatProperties, Zenon
    <3> QED
      BY <2>4, <2>6, <3>2 DEF S
  <2>9. \A i \in 1..n : t[Len(s) + i] = u[i]
    <3> TAKE i \in 1..n
    <3>1. Len(s) + i \in 1..Len(s) + n /\ ~(Len(s) + i <= Len(s)) /\ (Len(s) + i) - Len(s) = i
      BY <2>1, <2>7
    <3> QED
      BY <2>8, <3>1
  <2>10. n = 0 => t = s
    <3> SUFFICES ASSUME n = 0 PROVE t = s
      OBVIOUS
    <3>1. Len(s) = Len(t) /\ \A i \in 1..Len(s) : s[i] = t[i]
      <4>1. Len(s) + n = Len(s)
        BY <2>7
      <4>2. \A i \in 1..Len(s) : i <= Len(s)
        BY <2>7
      <4> QED
        BY <2>8, <4>1, <4>2
    <3>2. s \in Seq(AnyReceipt) /\ t \in Seq(AnyReceipt)
      BY <1>3, <2>8
    <3>3. s = t
      BY <3>1, <3>2, SeqEqual, Zenon
    <3> QED
      BY <3>3
  <2>11. \A i \in 1..Len(s) : t[i] = s[i]
    BY <2>1, <2>7, <2>8
  <2> QED
    BY <2>3, <2>4, <2>8, <2>9, <2>10, <2>11 DEF n
<1>6. DOMAIN hist' = Memories
  BY <1>1
<1> QED
  BY <1>2, <1>5, <1>6 DEF s, as, t, c, by, of

LEMMA NewReceipts ==
    ASSUME Recorded, Streams, NEW ch, Commit(ch), ch.by \in By, ch.of \in 0..Len(journal),
           NEW m \in Memories, ch.acts[m] \in Seq(Deeds \cup Notes)
    PROVE  /\ \A r \in Receipts(m) : r \in Receipts(m)' /\ r \in AnyReceipt
           /\ \A r \in Receipts(m)' :
                 \/ r \in Receipts(m)
                 \/ r.cmd = Len(journal) + 1 /\ r.of = ch.of /\ r.act \in ActsOn(ch, m)
           /\ ch.acts[m] # <<>> => \E r \in Receipts(m)' : r.cmd = Len(journal) + 1 /\ r.act \in ActsOn(ch, m)
<1> DEFINE a == Len(hist[m])
           b == Len(ch.acts[m])
           new(i) == Receipt(Len(journal) + 1, ch.by, ch.acts[m][i], ch.of)
<1>1. /\ Len(hist'[m]) = a + b
      /\ \A i \in 1..a : hist'[m][i] = hist[m][i]
      /\ \A i \in 1..b : hist'[m][a + i] = new(i)
      /\ ch.acts[m] # <<>> => b # 0
  BY Streamed
<1>2. a \in Nat /\ b \in Nat /\ \A i \in 1..a : hist[m][i] \in AnyReceipt
  <2>1. hist[m] \in Seq(AnyReceipt)
    BY DEF Streams
  <2> QED
    BY <2>1, LenProperties
<1>3. \A i \in 1..b : new(i).cmd = Len(journal) + 1 /\ new(i).of = ch.of /\ new(i).act \in ActsOn(ch, m)
  BY DEF Receipt, ActsOn
<1> HIDE DEF a, b, new
<1>4. Receipts(m)' = {hist'[m][i] : i \in 1..Len(hist'[m])} /\ Receipts(m) = {hist[m][i] : i \in 1..a}
  BY DEF Receipts, a
<1>5. \A r \in Receipts(m) : r \in Receipts(m)' /\ r \in AnyReceipt
  <2> TAKE r \in Receipts(m)
  <2>1. PICK i \in 1..a : r = hist[m][i]
    BY <1>4
  <2>2. i \in 1..Len(hist'[m]) /\ r = hist'[m][i]
    BY <1>1, <1>2, <2>1
  <2> QED
    BY <1>2, <1>4, <2>1, <2>2
<1>6. ASSUME NEW r \in Receipts(m)', r \notin Receipts(m)
      PROVE  r.cmd = Len(journal) + 1 /\ r.of = ch.of /\ r.act \in ActsOn(ch, m)
  <2>1. PICK i \in 1..Len(hist'[m]) : r = hist'[m][i]
    BY <1>4
  <2>2. CASE i \in 1..a
    BY <1>1, <1>4, <1>6, <2>1, <2>2
  <2>3. CASE i \notin 1..a
    <3>1. i - a \in 1..b /\ a + (i - a) = i
      BY <1>1, <1>2, <2>1, <2>3
    <3>2. r = new(i - a)
      BY <1>1, <2>1, <3>1
    <3> QED
      BY <1>3, <3>1, <3>2
  <2> QED
    BY <2>2, <2>3
<1>7. ASSUME b # 0 PROVE \E r \in Receipts(m)' : r.cmd = Len(journal) + 1 /\ r.act \in ActsOn(ch, m)
  <2>1. 1 \in 1..b /\ a + 1 \in 1..Len(hist'[m])
    BY <1>1, <1>2, <1>7
  <2>2. hist'[m][a + 1] \in Receipts(m)' /\ hist'[m][a + 1] = new(1)
    BY <1>1, <1>4, <2>1
  <2> QED
    BY <1>3, <2>1, <2>2
<1> QED
  BY <1>1, <1>5, <1>6, <1>7

----------------------------------------------------------------------------
\* A command other than an Undo

\* The entry it adds, and the receipts it adds to each stream.
Added(ch, ms) ==
    LET n == Len(journal) + 1 IN
    /\ Len(journal) \in Nat /\ Len(journal') = n
    /\ \A c \in 1..Len(journal) : journal'[c] = journal[c]
    /\ journal'[n].kind = ch.undo /\ journal'[n].touch = ch.touch /\ ~journal'[n].undone /\ journal'[n].ended = ch.end
    /\ \A m \in ch.touch : journal'[n].before[m] = ch.before[m] /\ journal'[n].after[m] = mem'[m]
    /\ mem' = ch.mem
    /\ \A m \in Memories :
          /\ \A r \in Receipts(m) : r \in Receipts(m)' /\ r.cmd \in Nat /\ r.cmd <= Len(journal)
          /\ \A r \in Receipts(m)' :
                \/ r \in Receipts(m)
                \/ /\ r.cmd = n /\ r.act # "undid"
                   /\ m \in ms => r.act \in Deeds
                   /\ m \notin ms => ch.undo = "none" /\ r.act = "judged"
          /\ m \in ms => \E r \in Receipts(m)' : r.cmd = n /\ r.act \in Deeds

LEMMA PlainActs ==
    ASSUME NEW ch, NEW ms, Plain(ch, ms), NEW m \in Memories
    PROVE  /\ ch.acts[m] \in Seq(Deeds \cup Notes)
           /\ m \in ms => ActsOn(ch, m) \subseteq Deeds
           /\ m \notin ms => \A a \in ActsOn(ch, m) : ch.undo = "none" /\ a = "judged" /\ mem[m].life # "none"
<1>1. CASE m \in ms
  <2>1. ch.acts[m] \in Seq(Deeds)
    BY <1>1 DEF Plain
  <2>2. Len(ch.acts[m]) \in Nat /\ ch.acts[m] \in [1..Len(ch.acts[m]) -> Deeds]
    BY <2>1, LenProperties
  <2>3. ActsOn(ch, m) \subseteq Deeds
    BY <2>2 DEF ActsOn
  <2> DEFINE D == Deeds
             N == D \cup Notes
             s == ch.acts[m]
  <2> HIDE DEF D, s
  <2>4. s \in Seq(N)
    <3>1. s \in Seq(D) /\ \A x \in D : x \in N
      BY <2>1 DEF s, D
    <3> QED
      BY <3>1
  <2> QED
    BY <1>1, <2>3, <2>4 DEF s, D
<1>2. CASE m \notin ms
  <2>1. ch.acts[m] = <<>> \/ (ch.acts[m] = <<"judged">> /\ ch.undo = "none" /\ mem[m].life \in {"proposed", "kept"})
    BY <1>2 DEF Plain
  <2>2. CASE ch.acts[m] = <<>>
    BY <1>2, <2>2 DEF ActsOn
  <2>3. CASE ch.acts[m] = <<"judged">>
    <3>1. "judged" \in Deeds \cup Notes
      BY DEF Notes
    <3> DEFINE N == Deeds \cup Notes
    <3> HIDE DEF N
    <3>2. <<"judged">> \in Seq(N)
      BY <3>1 DEF N
    <3>3. ActsOn(ch, m) = {"judged"}
      BY <2>3 DEF ActsOn
    <3> QED
      BY <1>2, <2>1, <2>3, <3>2, <3>3 DEF N
  <2> QED
    BY <2>1, <2>2, <2>3
<1> QED
  BY <1>1, <1>2

LEMMA PlainAdds ==
    ASSUME Recorded, Streams, NEW ch, NEW ms, Plain(ch, ms), Commit(ch)
    PROVE  Added(ch, ms)
<1>1. ch.of = 0 /\ ch.of \in 0..Len(journal) /\ ch.by \in By /\ Len(journal) \in Nat
  BY DEF Plain, Recorded
<1>2. /\ Len(journal') = Len(journal) + 1
      /\ \A c \in 1..Len(journal) : journal'[c] = IF c = ch.of THEN [journal[c] EXCEPT !.undone = TRUE] ELSE journal[c]
      /\ journal'[Len(journal) + 1] =
                 [kind |-> ch.undo, touch |-> ch.touch, undone |-> FALSE, made |-> ch.make \ Active, ended |-> ch.end,
                  before |-> [m \in ch.touch |-> ch.before[m]], after |-> [m \in ch.touch |-> ch.mem[m]]]
  BY <1>1, Journalled
<1>3. \A c \in 1..Len(journal) : journal'[c] = journal[c]
  <2> TAKE c \in 1..Len(journal)
  <2>1. c # ch.of
    BY <1>1
  <2>2. journal'[c] = IF c = ch.of THEN [journal[c] EXCEPT !.undone = TRUE] ELSE journal[c]
    BY <1>1, Journalled
  <2> QED
    BY <2>1, <2>2
<1>4. mem' = ch.mem
  BY DEF Commit
<1>5. ASSUME NEW m \in Memories
      PROVE  /\ \A r \in Receipts(m) : r \in Receipts(m)' /\ r.cmd \in Nat /\ r.cmd <= Len(journal)
             /\ \A r \in Receipts(m)' :
                   \/ r \in Receipts(m)
                   \/ /\ r.cmd = Len(journal) + 1 /\ r.act # "undid"
                      /\ m \in ms => r.act \in Deeds
                      /\ m \notin ms => ch.undo = "none" /\ r.act = "judged"
             /\ m \in ms => \E r \in Receipts(m)' : r.cmd = Len(journal) + 1 /\ r.act \in Deeds
  <2>1. /\ ch.acts[m] \in Seq(Deeds \cup Notes)
        /\ m \in ms => ActsOn(ch, m) \subseteq Deeds
        /\ m \notin ms => \A a \in ActsOn(ch, m) : ch.undo = "none" /\ a = "judged"
    BY PlainActs
  <2>2. m \in ms => ch.acts[m] # <<>>
    BY DEF Plain
  <2>3. /\ \A r \in Receipts(m) : r \in Receipts(m)' /\ r \in AnyReceipt
        /\ \A r \in Receipts(m)' :
              \/ r \in Receipts(m)
              \/ r.cmd = Len(journal) + 1 /\ r.of = ch.of /\ r.act \in ActsOn(ch, m)
        /\ ch.acts[m] # <<>> => \E r \in Receipts(m)' : r.cmd = Len(journal) + 1 /\ r.act \in ActsOn(ch, m)
    BY <1>1, <2>1, NewReceipts
  <2>4. \A r \in Receipts(m) : r.cmd <= Len(journal)
    BY DEF Streams
  <2>5. \A r \in AnyReceipt : r.cmd \in Nat
    BY DEF AnyReceipt
  <2>6. "undid" \notin Deeds
    BY DEF Deeds
  <2> HIDE DEF ActsOn
  <2> QED
    BY <2>1, <2>2, <2>3, <2>4, <2>5, <2>6
<1>6. /\ journal'[Len(journal) + 1].kind = ch.undo /\ journal'[Len(journal) + 1].touch = ch.touch
      /\ ~journal'[Len(journal) + 1].undone /\ journal'[Len(journal) + 1].ended = ch.end
      /\ \A m \in ch.touch : /\ journal'[Len(journal) + 1].before[m] = ch.before[m]
                             /\ journal'[Len(journal) + 1].after[m] = mem'[m]
  BY <1>2, <1>4
<1> QED
  BY <1>1, <1>2, <1>3, <1>4, <1>5, <1>6 DEF Added

LEMMA PlainStreams ==
    ASSUME Recorded, Streams, NEW ch, NEW ms, Plain(ch, ms), Commit(ch)
    PROVE  /\ Streams'
           /\ \A m \in Memories : hist[m] # <<>> => hist'[m] # <<>> /\ hist'[m][1] = hist[m][1]
           /\ \A m \in ms : hist[m] = <<>> => hist'[m][1].cmd = Len(journal) + 1
<1>1. ch.of = 0 /\ ch.of \in 0..Len(journal) /\ ch.by \in By /\ Len(journal) \in Nat
  BY DEF Plain, Recorded
<1>2. Added(ch, ms)
  BY PlainAdds
<1>3. DOMAIN hist' = Memories /\ hist' = [m \in Memories |-> hist'[m]]
  BY DEF Commit
<1>4. ASSUME NEW m \in Memories
      PROVE  /\ hist'[m] \in Seq(AnyReceipt)
             /\ mem'[m].life = "none" <=> hist'[m] = <<>>
             /\ hist[m] # <<>> => hist'[m] # <<>> /\ hist'[m][1] = hist[m][1]
             /\ m \in ms /\ hist[m] = <<>> => hist'[m][1].cmd = Len(journal) + 1
  <2> DEFINE s == hist[m]
             as == ch.acts[m]
             t == hist'[m]
  <2>1. as \in Seq(Deeds \cup Notes)
    BY PlainActs
  <2>2. /\ t \in Seq(AnyReceipt) /\ Len(t) = Len(s) + Len(as)
        /\ \A i \in 1..Len(s) : t[i] = s[i]
        /\ \A i \in 1..Len(as) : t[Len(s) + i] = Receipt(Len(journal) + 1, ch.by, as[i], ch.of)
        /\ as = <<>> => t = s
        /\ as # <<>> => Len(as) # 0
    BY <1>1, <2>1, Streamed
  <2>3. s \in Seq(AnyReceipt) /\ (mem[m].life = "none" <=> s = <<>>)
    BY DEF Streams
  <2>4. \/ m \in ms /\ as # <<>> /\ mem'[m].life # "none"
        \/ m \notin ms /\ mem'[m] = mem[m] /\ (as = <<>> \/ mem[m].life # "none")
    BY <1>2 DEF Plain, Added
  <2> HIDE DEF s, as, t
  <2>5. Len(s) \in Nat /\ Len(as) \in Nat /\ Len(t) \in Nat
    BY <2>1, <2>2, <2>3, LenProperties
  <2>6. (s = <<>> <=> Len(s) = 0) /\ (t = <<>> <=> Len(t) = 0) /\ (as = <<>> <=> Len(as) = 0)
    BY <2>1, <2>2, <2>3, EmptySeq
  <2> DEFINE a == Len(s)
             b == Len(as)
             z == Len(t)
  <2>10. z = a + b /\ a \in Nat /\ b \in Nat /\ \A i \in 1..a : t[i] = s[i]
    BY <2>2, <2>5
  <2>11. (s = <<>> <=> a = 0) /\ (t = <<>> <=> z = 0) /\ (as = <<>> <=> b = 0)
    BY <2>6
  <2> HIDE DEF a, b, z
  <2>12. z = 0 <=> a = 0 /\ b = 0
    BY <2>10
  <2>13. t = <<>> <=> s = <<>> /\ as = <<>>
    BY <2>11, <2>12, Zenon
  <2>7. mem'[m].life = "none" <=> t = <<>>
    BY <2>3, <2>4, <2>13, Zenon
  <2>8. s # <<>> => t # <<>> /\ t[1] = s[1]
    <3> SUFFICES ASSUME s # <<>> PROVE t[1] = s[1]
      BY <2>13
    <3>1. a # 0
      BY <2>11, Zenon
    <3>2. 1 \in 1..a
      BY <2>10, <3>1
    <3> QED
      BY <2>10, <3>2
  <2>14. m \in ms => b # 0
    BY <2>4, <2>11, Zenon
  <2>15. s = <<>> => a = 0
    BY <2>11, Zenon
  <2>16. a = 0 /\ b # 0 => 1 \in 1..b /\ a + 1 = 1
    BY <2>10
  <2>17. \A i \in 1..b : t[a + i] = Receipt(Len(journal) + 1, ch.by, as[i], ch.of)
    BY <2>2 DEF a, b
  <2>9. m \in ms /\ s = <<>> => t[1].cmd = Len(journal) + 1
    <3>1. a = 0 /\ b # 0 => t[1] = Receipt(Len(journal) + 1, ch.by, as[1], ch.of)
      BY <2>16, <2>17
    <3>2. Receipt(Len(journal) + 1, ch.by, as[1], ch.of).cmd = Len(journal) + 1
      BY DEF Receipt
    <3>3. m \in ms /\ s = <<>> => t[1] = Receipt(Len(journal) + 1, ch.by, as[1], ch.of)
      BY <2>14, <2>15, <3>1, Zenon
    <3> QED
      BY <3>2, <3>3
  <2> QED
    BY <2>2, <2>7, <2>8, <2>9 DEF s, as, t
<1>5. hist' \in [Memories -> Seq(AnyReceipt)]
  BY <1>3, <1>4
<1>6. ASSUME NEW m \in Memories, NEW r \in Receipts(m)'
      PROVE  /\ r.cmd <= Len(journal')
             /\ r.act = "undid" => r.of \in 1..Len(journal') /\ journal'[r.of].undone
  <2>1. CASE r \in Receipts(m)
    <3>1. /\ r.cmd \in Nat /\ r.cmd <= Len(journal)
          /\ r.act = "undid" => r.of \in 1..Len(journal) /\ journal[r.of].undone
      BY <1>2, <2>1 DEF Streams, Added
    <3> QED
      BY <1>2, <3>1 DEF Added
  <2>2. CASE r \notin Receipts(m)
    BY <1>2, <2>2 DEF Added
  <2> QED
    BY <2>1, <2>2
<1>7. Streams'
  BY <1>4, <1>5, <1>6 DEF Streams
<1> QED
  BY <1>4, <1>7 DEF Plain

LEMMA PlainTouched ==
    ASSUME Recorded, Streams, Touched, NEW ch, NEW ms, Plain(ch, ms), Commit(ch)
    PROVE  Touched'
<1> DEFINE n == Len(journal) + 1
<1>1. Added(ch, ms)
  BY PlainAdds
<1>2. /\ \A m \in Memories : hist[m] # <<>> => hist'[m] # <<>> /\ hist'[m][1] = hist[m][1]
      /\ \A m \in ms : hist[m] = <<>> => hist'[m][1].cmd = n
  BY PlainStreams
<1>3. Len(journal') = n /\ Len(journal) \in Nat
  BY <1>1 DEF Added
<1>4. ASSUME NEW c \in 1..Len(journal), journal'[c].kind # "none"
      PROVE  /\ journal'[c].ended = {}
             /\ \A m \in Memories :
                   /\ m \in journal'[c].touch <=> \E r \in Receipts(m)' : r.cmd = c
                   /\ \A r \in Receipts(m)' : r.cmd = c => r.act \in Deeds
             /\ \A m \in journal'[c].touch :
                   \/ journal'[c].before[m].life \in {"proposed", "kept"}
                   \/ journal'[c].before[m].life = "rejected" /\ hist'[m][1].cmd = c
  <2>1. journal'[c] = journal[c] /\ Undoing(c)
    BY <1>1, <1>4 DEF Added, Undoing
  <2>2. c # n
    BY <1>3
  <2>3. /\ journal[c].ended = {}
        /\ \A m \in Memories :
              /\ m \in journal[c].touch <=> \E r \in Receipts(m) : r.cmd = c
              /\ \A r \in Receipts(m) : r.cmd = c => r.act \in Deeds
        /\ \A m \in journal[c].touch :
              \/ journal[c].before[m].life \in {"proposed", "kept"}
              \/ journal[c].before[m].life = "rejected" /\ hist[m][1].cmd = c
    BY <2>1 DEF Touched
  <2>4. \A m \in Memories : \A r : r.cmd = c => (r \in Receipts(m)' <=> r \in Receipts(m))
    BY <1>1, <2>2 DEF Added
  <2>5. \A m \in journal[c].touch : m \in Memories /\ hist[m] # <<>>
    <3> TAKE m \in journal[c].touch
    <3>1. m \in Memories
      BY DEF Recorded, Entry
    <3>2. \E r \in Receipts(m) : r.cmd = c
      BY <2>3, <3>1
    <3>3. hist[m] # <<>>
      BY <3>2, EmptySeq DEF Receipts
    <3> QED
      BY <3>1, <3>3
  <2> QED
    BY <1>2, <2>1, <2>3, <2>4, <2>5
<1>5. ASSUME journal'[n].kind # "none"
      PROVE  /\ journal'[n].ended = {}
             /\ \A m \in Memories :
                   /\ m \in journal'[n].touch <=> \E r \in Receipts(m)' : r.cmd = n
                   /\ \A r \in Receipts(m)' : r.cmd = n => r.act \in Deeds
             /\ \A m \in journal'[n].touch :
                   \/ journal'[n].before[m].life \in {"proposed", "kept"}
                   \/ journal'[n].before[m].life = "rejected" /\ hist'[m][1].cmd = n
  <2>1. /\ ch.undo # "none" /\ journal'[n].touch = ms /\ journal'[n].ended = {} /\ ch.touch = ms
        /\ ms \subseteq Memories
    BY <1>1, <1>5 DEF Added, Plain
  <2>2. ASSUME NEW m \in Memories
        PROVE  /\ m \in ms <=> \E r \in Receipts(m)' : r.cmd = n
               /\ \A r \in Receipts(m)' : r.cmd = n => r.act \in Deeds
    <3>1. \A r \in Receipts(m) : r.cmd # n
      BY <1>1, <1>3 DEF Added
    <3>2. \A r \in Receipts(m)' : r.cmd = n => m \in ms /\ r.act \in Deeds
      BY <1>1, <2>1, <3>1 DEF Added
    <3>3. m \in ms => \E r \in Receipts(m)' : r.cmd = n
      BY <1>1 DEF Added
    <3> QED
      BY <3>2, <3>3
  <2>3. ASSUME NEW m \in ms
        PROVE  \/ journal'[n].before[m].life \in {"proposed", "kept"}
               \/ journal'[n].before[m].life = "rejected" /\ hist'[m][1].cmd = n
    <3>1. journal'[n].before[m] = ch.before[m]
      BY <1>1, <2>1 DEF Added
    <3>2. \/ mem[m].life \in {"proposed", "kept"} /\ ch.before[m] = mem[m]
          \/ mem[m].life = "none" /\ ch.before[m].life = "rejected"
      BY <2>1 DEF Plain
    <3>3. mem[m].life = "none" => hist[m] = <<>>
      BY <2>1 DEF Streams
    <3> QED
      BY <1>2, <3>1, <3>2, <3>3
  <2> QED
    BY <2>1, <2>2, <2>3
<1>6. \A c \in 1..Len(journal') : c \in 1..Len(journal) \/ c = n
  BY <1>3
<1> HIDE DEF n
<1> QED
  BY <1>4, <1>5, <1>6 DEF Touched, Undoing

\* A command that stands counts as a change of what it wrote to.
LEMMA PlainAsLeft ==
    ASSUME Recorded, Streams, Touched, AsLeft, NEW ch, NEW ms, Plain(ch, ms), Commit(ch)
    PROVE  AsLeft'
<1> DEFINE n == Len(journal) + 1
<1>1. Added(ch, ms)
  BY PlainAdds
<1>2. Len(journal') = n /\ Len(journal) \in Nat
  BY <1>1 DEF Added
<1> SUFFICES ASSUME NEW c \in 1..Len(journal'), Stood(c)', NEW m \in journal'[c].touch,
                    \A r \in Receipts(m)' : r.cmd > c => ~Counts(r)'
             PROVE  mem'[m] = journal'[c].after[m]
  BY DEF AsLeft
<1>3. CASE c = n
  BY <1>1, <1>3 DEF Added
<1>4. CASE c # n
  <2>1. c \in 1..Len(journal) /\ journal'[c] = journal[c] /\ Stood(c)
    BY <1>1, <1>2, <1>4 DEF Added, Stood, Undoing
  <2>2. m \in journal[c].touch /\ m \in Memories
    <3>1. Entry(top, journal[c])
      BY <2>1 DEF Recorded
    <3> QED
      BY <2>1, <3>1 DEF Entry
  <2>3. m \notin ms
    <3> SUFFICES ASSUME m \in ms PROVE FALSE
      OBVIOUS
    <3>1. PICK r \in Receipts(m)' : r.cmd = n /\ r.act \in Deeds
      BY <1>1, <2>2 DEF Added
    <3>2. ~journal'[n].undone
      BY <1>1 DEF Added
    <3>3. Counts(r)'
      BY <3>1, <3>2 DEF Counts
    <3>4. n > c
      BY <1>2, <2>1
    <3> QED
      BY <3>1, <3>3, <3>4
  <2>4. mem'[m] = mem[m]
    BY <1>1, <2>2, <2>3 DEF Plain, Added
  <2>5. ASSUME NEW r \in Receipts(m), r.cmd > c PROVE ~Counts(r)
    <3>1. r \in Receipts(m)' /\ r.cmd \in Nat /\ r.cmd <= Len(journal)
      BY <1>1, <2>2 DEF Added
    <3>2. r.cmd \in 1..Len(journal)
      BY <1>2, <2>1, <2>5, <3>1
    <3>3. journal'[r.cmd] = journal[r.cmd]
      BY <1>1, <3>2 DEF Added
    <3>4. ~Counts(r)'
      BY <2>5, <3>1
    <3> QED
      BY <3>3, <3>4 DEF Counts
  <2>6. mem[m] = journal[c].after[m]
    BY <2>1, <2>2, <2>5 DEF AsLeft
  <2> QED
    BY <2>1, <2>4, <2>6
<1> QED
  BY <1>3, <1>4

LEMMA PlainChained ==
    ASSUME Recorded, Streams, Touched, AsLeft, Chained, NEW ch, NEW ms, Plain(ch, ms), Commit(ch)
    PROVE  Chained'
<1> DEFINE n == Len(journal) + 1
<1>1. Added(ch, ms)
  BY PlainAdds
<1>2. Len(journal') = n /\ Len(journal) \in Nat
  BY <1>1 DEF Added
<1> SUFFICES ASSUME NEW c \in 1..Len(journal'), NEW e \in 1..Len(journal'), c < e, Stood(c)', Stood(e)',
                    NEW m \in journal'[c].touch \cap journal'[e].touch,
                    \A r \in Receipts(m)' : c < r.cmd /\ r.cmd < e => ~Counts(r)'
             PROVE  journal'[e].before[m] = journal'[c].after[m]
  BY DEF Chained
<1>3. c \in 1..Len(journal) /\ journal'[c] = journal[c] /\ Stood(c)
  <2>1. c \in 1..Len(journal)
    BY <1>2
  <2> QED
    BY <1>1, <2>1 DEF Added, Stood, Undoing
<1>4. m \in journal[c].touch /\ m \in Memories
  <2>1. Entry(top, journal[c])
    BY <1>3 DEF Recorded
  <2> QED
    BY <1>3, <2>1 DEF Entry
<1>5. ASSUME NEW r \in Receipts(m), c < r.cmd, r.cmd < e PROVE ~Counts(r)
  <2>1. r \in Receipts(m)' /\ r.cmd \in Nat /\ r.cmd <= Len(journal)
    BY <1>1, <1>4 DEF Added
  <2>2. r.cmd \in 1..Len(journal)
    BY <1>2, <1>3, <1>5, <2>1
  <2>3. journal'[r.cmd] = journal[r.cmd]
    BY <1>1, <2>2 DEF Added
  <2>4. ~Counts(r)'
    BY <1>5, <2>1
  <2> QED
    BY <2>3, <2>4 DEF Counts
<1>6. CASE e = n
  <2>1. ASSUME NEW r \in Receipts(m), r.cmd > c PROVE ~Counts(r)
    <3>1. r.cmd \in Nat /\ r.cmd <= Len(journal)
      BY <1>1, <1>4 DEF Added
    <3>2. c < r.cmd /\ r.cmd < e
      BY <1>2, <1>3, <1>6, <2>1, <3>1
    <3> QED
      BY <1>5, <3>2
  <2>2. mem[m] = journal[c].after[m]
    BY <1>3, <1>4, <2>1 DEF AsLeft
  <2>3. ch.undo # "none" /\ m \in ms /\ journal'[n].before[m] = ch.before[m]
    BY <1>1, <1>6 DEF Added, Plain, Stood, Undoing
  <2>4. mem[m].life # "none"
    <3>1. \E r \in Receipts(m) : r.cmd = c
      BY <1>3, <1>4 DEF Touched, Stood
    <3>2. hist[m] # <<>>
      BY <3>1, EmptySeq DEF Receipts
    <3> QED
      BY <1>4, <3>2 DEF Streams
  <2>5. ch.before[m] = mem[m]
    BY <2>3, <2>4 DEF Plain
  <2> QED
    BY <1>3, <1>6, <2>2, <2>3, <2>5
<1>7. CASE e # n
  <2>1. e \in 1..Len(journal) /\ journal'[e] = journal[e] /\ Stood(e)
    <3>1. e \in 1..Len(journal)
      BY <1>2, <1>7
    <3> QED
      BY <1>1, <3>1 DEF Added, Stood, Undoing
  <2> QED
    BY <1>3, <1>4, <1>5, <2>1 DEF Chained
<1> QED
  BY <1>6, <1>7

\* A change's moves are ones the database lets through.
Moved(ch, m) ==
    \/ ch.mem[m].life = mem[m].life /\ mem[m].life # "forgotten"
    \/ mem[m].life = "none" /\ ch.mem[m].life \in {"proposed", "kept"}
    \/ mem[m].life = "proposed" /\ ch.mem[m].life \in {"kept", "rejected", "merged"}
    \/ mem[m].life \notin {"none", "forgotten"} /\ ch.mem[m].life = "forgotten"
    \/ /\ mem[m].life = "kept" /\ ch.mem[m].life = "proposed"
       /\ ch.mem[m].conflict /\ ch.mem[m].version = mem[m].version
       /\ ch.by = "memax" /\ ch.acts[m] = <<"returned">>
       /\ Last(m).by = "agent" /\ Last(m).act \in {"kept", "edited"}

\* ... and it neither touches what is folded nor hangs anything off what is
\* forgotten; what it folds, it may give back.
Rightful(ch, ms) ==
    /\ \A m \in ms : mem[m].life \notin {"merged", "forgotten"} /\ ch.mem[m].life # "forgotten"
    /\ \A t \in ch.make :
          /\ ch.mem[t.to].life # "forgotten"
          /\ t.kind = "merged_into" => ch.undo # "none" /\ t.from \in ms /\ ch.mem[t.from].life = "merged"

LEMMA NewLinks ==
    ASSUME NEW ch, Commit(ch), NEW l \in links'
    PROVE  \/ l \in links /\ Of(l) \notin ch.end
           \/ /\ l.cmd = Len(journal) + 1
              /\ \E t \in ch.make : l.kind = t.kind /\ l.from = t.from /\ l.to = t.to
<1>1. links' = {k \in links : Of(k) \notin ch.end} \cup
                   {[kind |-> t.kind, from |-> t.from, to |-> t.to, cmd |-> Now] : t \in ch.make \ Active}
  BY DEF Commit
<1>2. CASE l \in links /\ Of(l) \notin ch.end
  BY <1>2
<1>3. CASE ~(l \in links /\ Of(l) \notin ch.end)
  <2>1. PICK t \in ch.make \ Active : l = [kind |-> t.kind, from |-> t.from, to |-> t.to, cmd |-> Now]
    BY <1>1, <1>3
  <2>2. l.cmd = Now /\ l.kind = t.kind /\ l.from = t.from /\ l.to = t.to
    BY <2>1
  <2> QED
    BY <2>1, <2>2 DEF Now
<1> QED
  BY <1>2, <1>3

\* Links are between memories, and were made by a command there was.
LEMMA LinkThere ==
    ASSUME Recorded, NEW l \in links
    PROVE  l.from \in Memories /\ l.to \in Memories /\ l.cmd \in 1..Len(journal)
  BY DEF Recorded, Linkable, Triples, Of, Triple

LEMMA PlainHanging ==
    ASSUME Recorded, Streams, Hanging, NEW ch, NEW ms, Plain(ch, ms), Rightful(ch, ms), Commit(ch)
    PROVE  Hanging'
<1> DEFINE n == Len(journal) + 1
<1>1. Added(ch, ms)
  BY PlainAdds
<1>2. Len(journal') = n /\ Len(journal) \in Nat /\ mem' = ch.mem
  BY <1>1 DEF Added
<1>8. journal'[n].kind = ch.undo /\ journal'[n].touch = ch.touch /\ ~journal'[n].undone /\ n \in 1..Len(journal')
  BY <1>1, <1>2 DEF Added
<1>3. \A m \in Memories : m \notin ms => mem'[m] = mem[m]
  BY <1>2 DEF Plain
<1>4. \A m \in ms : mem[m].life \notin {"merged", "forgotten"} /\ mem'[m].life # "forgotten"
  BY <1>2 DEF Rightful
<1>5. ASSUME NEW l \in links
      PROVE  /\ l.kind = "conflicts_with" => mem'[l.to].life # "forgotten"
             /\ l.kind = "merged_into" =>
                   /\ mem'[l.from].life \in {"merged", "forgotten"}
                   /\ Stood(l.cmd)' /\ l.from \in journal'[l.cmd].touch
                   /\ mem'[l.to].life = "forgotten" => mem'[l.from].life = "forgotten"
                   /\ \A c \in 1..Len(journal') : l.cmd < c /\ Undoing(c)' => l.from \notin journal'[c].touch
  <2>1. l.from \in Memories /\ l.to \in Memories /\ l.cmd \in 1..Len(journal)
    BY LinkThere
  <2>2. ASSUME l.kind = "conflicts_with" PROVE mem'[l.to].life # "forgotten"
    <3>1. mem[l.to].life # "forgotten"
      BY <2>2 DEF Hanging
    <3> QED
      BY <1>3, <1>4, <2>1, <3>1
  <2>3. ASSUME l.kind = "merged_into"
        PROVE  /\ mem'[l.from].life \in {"merged", "forgotten"}
               /\ Stood(l.cmd)' /\ l.from \in journal'[l.cmd].touch
               /\ mem'[l.to].life = "forgotten" => mem'[l.from].life = "forgotten"
               /\ \A c \in 1..Len(journal') : l.cmd < c /\ Undoing(c)' => l.from \notin journal'[c].touch
    <3>1. /\ mem[l.from].life \in {"merged", "forgotten"}
          /\ Stood(l.cmd) /\ l.from \in journal[l.cmd].touch
          /\ mem[l.to].life = "forgotten" => mem[l.from].life = "forgotten"
          /\ \A c \in 1..Len(journal) : l.cmd < c /\ Undoing(c) => l.from \notin journal[c].touch
      BY <2>3 DEF Hanging
    <3>2. l.from \notin ms /\ mem'[l.from] = mem[l.from]
      BY <1>3, <1>4, <2>1, <3>1
    <3>3. mem'[l.to].life = "forgotten" => mem[l.to].life = "forgotten"
      BY <1>3, <1>4, <2>1
    <3>4. journal'[l.cmd] = journal[l.cmd]
      BY <1>1, <2>1 DEF Added
    <3>5. Stood(l.cmd)'
      BY <1>2, <2>1, <3>1, <3>4 DEF Stood, Undoing
    <3>6. ASSUME NEW c \in 1..Len(journal'), l.cmd < c, Undoing(c)' PROVE l.from \notin journal'[c].touch
      <4>1. CASE c \in 1..Len(journal)
        <5>1. journal'[c] = journal[c]
          BY <1>1, <4>1 DEF Added
        <5> QED
          BY <3>1, <3>6, <4>1, <5>1 DEF Undoing
      <4>2. CASE c = n
        <5>1. ch.undo # "none" /\ journal'[c].touch = ms
          BY <1>1, <3>6, <4>2 DEF Added, Plain, Undoing
        <5> QED
          BY <3>2, <5>1
      <4> QED
        BY <1>2, <4>1, <4>2
    <3> QED
      BY <3>1, <3>2, <3>3, <3>4, <3>5, <3>6
  <2> QED
    BY <2>2, <2>3
<1>6. ASSUME NEW l, l.cmd = n, NEW t \in ch.make, l.kind = t.kind, l.from = t.from, l.to = t.to
      PROVE  /\ mem'[l.to].life # "forgotten"
             /\ l.kind = "merged_into" =>
                   /\ mem'[l.from].life \in {"merged", "forgotten"}
                   /\ Stood(l.cmd)' /\ l.from \in journal'[l.cmd].touch
                   /\ \A c \in 1..Len(journal') : l.cmd < c /\ Undoing(c)' => l.from \notin journal'[c].touch
  <2>1. mem'[l.to].life # "forgotten"
    BY <1>2, <1>6 DEF Rightful
  <2>2. ASSUME l.kind = "merged_into"
        PROVE  /\ mem'[l.from].life = "merged"
               /\ Stood(l.cmd)' /\ l.from \in journal'[l.cmd].touch
    <3>1. ch.undo # "none" /\ l.from \in ms /\ mem'[l.from].life = "merged"
      BY <1>2, <1>6, <2>2 DEF Rightful
    <3>2. ch.touch = ms
      BY <3>1 DEF Plain
    <3>3. Stood(l.cmd)'
      BY <1>6, <1>8, <3>1 DEF Stood, Undoing
    <3> QED
      BY <1>6, <1>8, <3>1, <3>2, <3>3
  <2>3. \A c \in 1..Len(journal') : ~(l.cmd < c)
    BY <1>2, <1>6
  <2> QED
    BY <2>1, <2>2, <2>3
<1>7. \A l \in links' : l \in links \/ (l.cmd = n /\ \E t \in ch.make : l.kind = t.kind /\ l.from = t.from /\ l.to = t.to)
  BY NewLinks
<1> HIDE DEF n
<1> QED
  BY <1>5, <1>6, <1>7 DEF Hanging

\* What the trigger looks at, in the record's own terms.
Passes(m) ==
    /\ IF mem[m].life # mem'[m].life
       THEN /\ mem[m].life # "forgotten"
            /\ L!Verb(mem[m].life, mem'[m].life) \/ L!Undone(m) \/ L!Returned(m)
       ELSE mem[m].life = "forgotten" => hist'[m] = hist[m]
    /\ mem'[m].conflict => mem'[m].life \in {"proposed", "kept"}
    /\ hist[m] = SubSeq(hist'[m], 1, Len(hist[m]))
    /\ hist'[m] = hist[m] => mem'[m] = mem[m]

LEMMA PassesGuarded ==
    ASSUME NEW m \in Memories, Passes(m)
    PROVE  L!Guarded(m)
BY DEF Passes, L!Guarded

LEMMA Prefixed ==
    ASSUME Recorded, Streams, NEW ch, Commit(ch), ch.by \in By, ch.of \in 0..Len(journal),
           NEW m \in Memories, ch.acts[m] \in Seq(Deeds \cup Notes)
    PROVE  hist[m] = SubSeq(hist'[m], 1, Len(hist[m]))
<1> DEFINE s == hist[m]
           t == hist'[m]
           b == Len(ch.acts[m])
<1>1. t \in Seq(AnyReceipt) /\ Len(t) = Len(s) + b /\ \A i \in 1..Len(s) : t[i] = s[i]
  BY Streamed
<1>2. s \in Seq(AnyReceipt) /\ Len(s) \in Nat /\ b \in Nat
  BY LenProperties DEF Streams
<1> DEFINE a == Len(s)
           S == AnyReceipt
<1>3. s \in Seq(S) /\ t \in Seq(S) /\ a \in Nat /\ b \in Nat /\ Len(t) = a + b /\ Len(s) = a
      /\ \A i \in 1..a : t[i] = s[i]
  BY <1>1, <1>2
<1> HIDE DEF a, b, s, t, S
<1>4. \A i \in 1..a : i \in 1..Len(t)
  BY <1>3
<1>5. /\ SubSeq(t, 1, a) \in Seq(S) /\ Len(SubSeq(t, 1, a)) = a
      /\ \A i \in 1..a : SubSeq(t, 1, a)[i] = t[i]
  BY <1>3, SubSeqProperties
<1>6. s = SubSeq(t, 1, a)
  BY <1>3, <1>5, SeqEqual
<1> QED
  BY <1>6 DEF s, t, a

LEMMA PlainPasses ==
    ASSUME Recorded, Recorded', Streams, NEW ch, NEW ms, Plain(ch, ms), Commit(ch), NEW m \in Memories,
           m \in ms => Moved(ch, m)
    PROVE  L!Guarded(m)
<1>1. ch.of = 0 /\ ch.of \in 0..Len(journal) /\ ch.by \in By /\ Len(journal) \in Nat /\ mem' = ch.mem
  BY DEF Plain, Recorded, Commit
<1>2. ch.acts[m] \in Seq(Deeds \cup Notes)
  BY PlainActs
<1>3. hist[m] = SubSeq(hist'[m], 1, Len(hist[m]))
  BY <1>1, <1>2, Prefixed
<1>4. mem'[m].conflict => mem'[m].life \in {"proposed", "kept"}
  BY DEF Recorded, Rowed, Fits
<1>5. /\ hist'[m] \in Seq(AnyReceipt) /\ Len(hist'[m]) = Len(hist[m]) + Len(ch.acts[m])
      /\ \A i \in 1..Len(ch.acts[m]) :
            hist'[m][Len(hist[m]) + i] = Receipt(Len(journal) + 1, ch.by, ch.acts[m][i], ch.of)
      /\ ch.acts[m] = <<>> => hist'[m] = hist[m]
      /\ ch.acts[m] # <<>> => Len(ch.acts[m]) # 0
  BY <1>1, <1>2, Streamed
<1>6. Len(hist[m]) \in Nat /\ Len(ch.acts[m]) \in Nat
  BY <1>2, LenProperties DEF Streams
<1>7. CASE m \notin ms
  <2>1. mem'[m] = mem[m] /\ (ch.acts[m] = <<>> \/ mem[m].life \in {"proposed", "kept"})
    BY <1>1, <1>7 DEF Plain
  <2>2. mem[m].life = "forgotten" => hist'[m] = hist[m]
    BY <1>5, <2>1
  <2> QED
    BY <1>3, <1>4, <2>1, <2>2, PassesGuarded DEF Passes
<1>8. CASE m \in ms
  <2>1. ch.acts[m] # <<>>
    BY <1>8 DEF Plain
  <2>2. hist'[m] # hist[m]
    <3> DEFINE a == Len(hist[m])
               b == Len(ch.acts[m])
               z == Len(hist'[m])
    <3>1. z = a + b /\ a \in Nat /\ b \in Nat /\ b # 0
      BY <1>5, <1>6, <2>1
    <3> HIDE DEF a, b, z
    <3>2. z # a
      BY <3>1
    <3> QED
      BY <3>2 DEF z, a
  <2>3. Moved(ch, m)
    BY <1>8
  <2>4. CASE mem'[m].life = mem[m].life
    <3>1. mem[m].life # "forgotten"
      BY <1>1, <2>3, <2>4 DEF Moved
    <3> QED
      BY <1>3, <1>4, <2>2, <2>4, <3>1, PassesGuarded DEF Passes
  <2>5. CASE mem'[m].life # mem[m].life
    <3>1. mem[m].life # "forgotten"
      BY <1>1, <2>3, <2>5 DEF Moved
    <3>2. L!Verb(mem[m].life, mem'[m].life) \/ L!Returned(m)
      <4>1. CASE L!Verb(mem[m].life, mem'[m].life)
        BY <4>1
      <4>2. CASE ~L!Verb(mem[m].life, mem'[m].life)
        <5>1. /\ mem[m].life = "kept" /\ ch.mem[m].life = "proposed"
              /\ ch.mem[m].conflict /\ ch.mem[m].version = mem[m].version
              /\ ch.by = "memax" /\ ch.acts[m] = <<"returned">>
              /\ Last(m).by = "agent" /\ Last(m).act \in {"kept", "edited"}
          BY <1>1, <2>3, <2>5, <4>2 DEF Moved, L!Verb
        <5>2. Len(hist'[m]) = Len(hist[m]) + 1
          BY <1>5, <5>1
        <5>3. hist'[m][Len(hist'[m])] = Receipt(Len(journal) + 1, "memax", "returned", ch.of)
          BY <1>5, <5>1, <5>2
        <5>4. L!Newest(hist'[m]).act = "returned" /\ L!Newest(hist'[m]).by = "memax"
          BY <5>3 DEF Receipt, L!Newest
        <5>5. L!Newest(hist[m]) = Last(m)
          BY DEF L!Newest, Last
        <5> QED
          BY <1>1, <5>1, <5>2, <5>4, <5>5 DEF L!Returned
      <4> QED
        BY <4>1, <4>2
    <3> QED
      BY <1>3, <1>4, <2>2, <2>5, <3>1, <3>2, PassesGuarded DEF Passes
  <2> QED
    BY <2>4, <2>5
<1> QED
  BY <1>7, <1>8

----------------------------------------------------------------------------
\* The fields and the acts of a change, as the helpers build it

\* The memories ms have receipts of deeds, the others have none.
Told(ch, ms) ==
    /\ ms \subseteq Memories
    /\ \A m \in ms : ch.acts[m] \in Seq(Deeds) /\ ch.acts[m] # <<>>
    /\ \A m \in Memories \ ms : ch.acts[m] = <<>>

LEMMA Joined ==
    ASSUME NEW D, NEW a \in Seq(D), NEW b \in Seq(D), b # <<>>
    PROVE  a \o b \in Seq(D) /\ a \o b # <<>> /\ (a = <<>> => a \o b = b)
<1>1. a \o b \in Seq(D) /\ Len(a \o b) = Len(a) + Len(b)
      /\ \A i \in 1..Len(a) + Len(b) : (a \o b)[i] = IF i <= Len(a) THEN a[i] ELSE b[i - Len(a)]
  BY ConcatProperties, Zenon
<1> DEFINE x == Len(a)
           y == Len(b)
           c == a \o b
<1>2. x \in Nat /\ y \in Nat /\ y # 0 /\ (a = <<>> => x = 0)
  BY LenProperties, EmptySeq
<1>3. c \in Seq(D) /\ Len(c) = x + y
      /\ \A i \in 1..x + y : c[i] = IF i <= x THEN a[i] ELSE b[i - x]
  BY <1>1
<1>4. y = Len(b)
  OBVIOUS
<1> HIDE DEF x, y, c
<1>5. Len(c) # 0
  BY <1>2, <1>3
<1>6. c # <<>>
  BY <1>3, <1>5, EmptySeq
<1>7. ASSUME x = 0 PROVE c = b
  <2>1. Len(c) = y /\ \A i \in 1..y : i \in 1..x + y /\ ~(i <= x) /\ i - x = i
    BY <1>2, <1>3, <1>7
  <2>2. \A i \in 1..y : c[i] = b[i]
    BY <1>3, <2>1
  <2> QED
    BY <1>3, <1>4, <2>1, <2>2, SeqEqual
<1> QED
  BY <1>2, <1>3, <1>6, <1>7 DEF c

LEMMA OneAct == ASSUME NEW D, NEW a \in D PROVE <<a>> \in Seq(D) /\ <<a>> # <<>>
  OBVIOUS

LEMMA ChangeTold ==
    ASSUME NEW by
    PROVE  /\ Shape(Change(by)) /\ Told(Change(by), {}) /\ Change(by).by = by
           /\ Change(by).mem = mem /\ Change(by).before = mem
           /\ Change(by).of = 0 /\ Change(by).make = {} /\ Change(by).end = {}
           /\ Change(by).undo = "none" /\ Change(by).touch = {}
           /\ Change(by).acts = [m \in Memories |-> <<>>]
<1>1. Change(by).by = by /\ Change(by).acts = [m \in Memories |-> <<>>]
  BY DEF Change
<1> QED
  BY <1>1, ChangeShape DEF Told

\* n is ch and the writing of m's row with the acts as.
Wrote(n, ch, m, row, as) ==
    /\ SameAll(n, ch, {"mem", "acts"})
    /\ n.mem = [ch.mem EXCEPT ![m] = row]
    /\ \A ms : Told(ch, ms) => Told(n, ms \cup {m}) /\ (m \notin ms => n.acts[m] = as)

LEMMA WriteTold ==
    ASSUME NEW ch, Shape(ch), NEW m \in Memories, NEW row, NEW as, as \in Seq(Deeds), as # <<>>
    PROVE  Wrote(Write(ch, m, row, as), ch, m, row, as)
<1> DEFINE n == Write(ch, m, row, as)
           rs == [ch.mem EXCEPT ![m] = row]
           ac == With(ch.acts, {m}, as)
<1>1. n = [[ch EXCEPT !["mem"] = rs] EXCEPT !["acts"] = ac]
  BY DEF Write, Shape
<1>2. \A k \in Memories : ac[k] = IF k = m THEN ch.acts[k] \o as ELSE ch.acts[k]
  BY DEF With
<1> HIDE DEF n, rs, ac
<1>3. SameAll(n, ch, {"mem", "acts"}) /\ n.mem = rs /\ n.acts = ac
  BY <1>1, FieldNames DEF SameAll, Shape
<1>4. ASSUME NEW ms, Told(ch, ms), NEW k \in Memories
      PROVE  /\ k \in ms \cup {m} => ac[k] \in Seq(Deeds) /\ ac[k] # <<>>
             /\ k \notin ms \cup {m} => ac[k] = <<>>
  <2> DEFINE D == Deeds
             b == ch.acts[k]
  <2>1. ac[k] = IF k = m THEN b \o as ELSE b
    BY <1>2
  <2>2. (k \in ms => b \in Seq(D) /\ b # <<>>) /\ (k \notin ms => b = <<>>) /\ as \in Seq(D)
    BY <1>4 DEF Told
  <2> HIDE DEF D, b
  <2>5. <<>> \in Seq(D)
    OBVIOUS
  <2>3. b \in Seq(D)
    BY <2>2, <2>5, Zenon
  <2>4. b \o as \in Seq(D) /\ b \o as # <<>>
    BY <2>2, <2>3, Joined
  <2> QED
    BY <2>1, <2>2, <2>4 DEF D
<1>5. ASSUME NEW ms, Told(ch, ms), m \notin ms PROVE ac[m] = as
  <2>1. ch.acts[m] = <<>> /\ ac[m] = ch.acts[m] \o as
    BY <1>2, <1>5 DEF Told
  <2> DEFINE D == Deeds
             e == ch.acts[m]
  <2>2. e = <<>> /\ as \in Seq(D)
    BY <2>1
  <2> HIDE DEF D, e
  <2>3. e \in Seq(D)
    BY <2>2
  <2>4. e \o as = as
    BY <2>2, <2>3, Joined
  <2> QED
    BY <2>1, <2>4 DEF e
<1>6. ASSUME NEW ms, Told(ch, ms) PROVE Told(n, ms \cup {m})
  BY <1>3, <1>4, <1>6 DEF Told
<1>7. ASSUME NEW ms, Told(ch, ms), m \notin ms PROVE n.acts[m] = as
  BY <1>3, <1>5, <1>7
<1>8. Wrote(n, ch, m, row, as)
  BY <1>3, <1>6, <1>7 DEF Wrote, rs
<1> QED
  BY <1>8 DEF n

\* n is ch and the superseding of the decisions ds.
Superseded(n, ch, ds) ==
    /\ SameAll(n, ch, {"mem", "acts", "touch"})
    /\ n.mem = [d \in Memories |-> IF d \in ds THEN [ch.mem[d] EXCEPT !.status = "superseded"] ELSE ch.mem[d]]
    /\ n.touch = ch.touch \cup ds
    /\ \A k \in Memories \ ds : n.acts[k] = ch.acts[k]
    /\ \A ms : Told(ch, ms) => Told(n, ms \cup ds)

LEMMA SupersedeTold ==
    ASSUME NEW ch, Shape(ch), NEW ds, ds \subseteq Memories
    PROVE  Superseded(SupersedeAll(ch, ds), ch, ds)
<1> DEFINE n == SupersedeAll(ch, ds)
           rs == [d \in Memories |-> IF d \in ds THEN [ch.mem[d] EXCEPT !.status = "superseded"] ELSE ch.mem[d]]
           as == <<"superseded">>
           ac == With(ch.acts, ds, as)
           ts == ch.touch \cup ds
<1>1. n = [[[ch EXCEPT !["mem"] = rs] EXCEPT !["acts"] = ac] EXCEPT !["touch"] = ts]
  BY DEF SupersedeAll, Shape
<1>2. \A k \in Memories : ac[k] = IF k \in ds THEN ch.acts[k] \o as ELSE ch.acts[k]
  BY DEF With
<1>3. as \in Seq(Deeds) /\ as # <<>>
  <2>1. "superseded" \in Deeds
    BY DEF Deeds
  <2> QED
    BY <2>1, OneAct
<1> HIDE DEF n, rs, ac, ts, as
<1>4. SameAll(n, ch, {"mem", "acts", "touch"}) /\ n.mem = rs /\ n.acts = ac /\ n.touch = ts
  BY <1>1, FieldNames DEF SameAll, Shape
<1>5. ASSUME NEW ms, Told(ch, ms), NEW k \in Memories
      PROVE  /\ k \in ms \cup ds => ac[k] \in Seq(Deeds) /\ ac[k] # <<>>
             /\ k \notin ms \cup ds => ac[k] = <<>>
  <2> DEFINE D == Deeds
             b == ch.acts[k]
  <2>1. ac[k] = IF k \in ds THEN b \o as ELSE b
    BY <1>2
  <2>2. (k \in ms => b \in Seq(D) /\ b # <<>>) /\ (k \notin ms => b = <<>>) /\ as \in Seq(D)
    BY <1>3, <1>5 DEF Told
  <2> HIDE DEF D, b
  <2>5. <<>> \in Seq(D)
    OBVIOUS
  <2>3. b \in Seq(D)
    BY <2>2, <2>5, Zenon
  <2>4. b \o as \in Seq(D) /\ b \o as # <<>>
    BY <1>3, <2>2, <2>3, Joined
  <2> QED
    BY <2>1, <2>2, <2>4 DEF D
<1>6. ASSUME NEW ms, Told(ch, ms) PROVE Told(n, ms \cup ds)
  BY <1>4, <1>5, <1>6 DEF Told
<1>7. Superseded(n, ch, ds)
  BY <1>2, <1>4, <1>6 DEF Superseded, rs, ts
<1> QED
  BY <1>7 DEF n

----------------------------------------------------------------------------
\* What each command but Undo and Forget does is such a change

Ready(ch, ms) == Plain(ch, ms) /\ Rightful(ch, ms) /\ \A m \in ms : Moved(ch, m)

\* ... and what it says of the marks of a memory is meant.  A flag comes
\* with a conflict;
FlagMeant(ch, m) ==
    \/ ch.mem[m].conflict = mem[m].conflict
    \/ ch.mem[m].life \notin {"proposed", "kept"}
    \/ \E t \in ch.make : t.kind = "conflicts_with" /\ t.from = m

\* a decision is superseded by a memory a person keeps;
Keeping(ch, m) == ch.by = "person" /\ ch.undo # "none" /\ "kept" \in ActsOn(ch, m)

StatusMeant(ch, ms, m) ==
    /\ ch.undo # "none" => ch.before[m].status \in {mem[m].status, "in_force"}
    /\ \/ ch.mem[m].status \in {mem[m].status, "in_force"}
       \/ \E k \in ms : Triple("supersedes", k, m) \in Active /\ Keeping(ch, k)

\* what a person kept is kept, and stays so;
KeptStays(ch, m) ==
    /\ Keeping(ch, m) => ch.mem[m].life = "kept"
    /\ mem[m].life = "kept" => ch.mem[m].life = "kept" \/ \A r \in Receipts(m) : r.by # "person"

\* and new words in Review come with a job, or with the verdict on them.
Watching(ch, m) ==
    ch.mem[m].life = "proposed" =>
        \/ mem[m].life = "proposed" /\ ch.mem[m].version = mem[m].version
        \/ \E j \in ch.queue : j.mem = m /\ j.version = ch.mem[m].version /\ j.mode = "proposal"
        \/ \E w \in verdicts' : w.mem = m /\ w.version = ch.mem[m].version

Marking(ch, ms) ==
    /\ ch.end = {}
    /\ \A t \in ch.make : ch.undo # "none" => t.kind = "merged_into"
    /\ \A t \in ch.make : t.kind = "conflicts_with" => ch.mem[t.from].conflict
    /\ "edit" \notin Commands => \A m \in Memories : ch.top[m] \in {top[m], 1}
    /\ \A m \in ms : FlagMeant(ch, m) /\ StatusMeant(ch, ms, m) /\ KeptStays(ch, m) /\ Watching(ch, m)

LEMMA OneDeed == ASSUME NEW ch, NEW m, NEW a, ch.acts[m] = <<a>> PROVE ActsOn(ch, m) = {a}
<1> DEFINE s == <<a>>
<1>1. Len(s) = 1 /\ s[1] = a
  OBVIOUS
<1> HIDE DEF s
<1>2. {s[i] : i \in 1..1} = {s[1]}
  OBVIOUS
<1> QED
  BY <1>1, <1>2 DEF ActsOn, s

\* The change of one memory's row says what it means.
OneMeant(ch, m, row, act) ==
    /\ ch.mem = [mem EXCEPT ![m] = row] /\ ch.end = {} /\ ch.acts[m] = <<act>>
    /\ act = "kept" => row.life = "kept"
    /\ "edit" \notin Commands => \A k \in Memories : ch.top[k] \in {top[k], 1}
    /\ ch.undo # "none" => ch.before[m].status \in {mem[m].status, "in_force"}
    /\ \A t \in ch.make : ch.undo # "none" => t.kind = "merged_into"
    /\ \A t \in ch.make : t.kind = "conflicts_with" => t.from = m /\ row.conflict
    /\ \/ row.conflict = mem[m].conflict
       \/ row.life \notin {"proposed", "kept"}
       \/ \E t \in ch.make : t.kind = "conflicts_with" /\ t.from = m
    /\ row.status \in {mem[m].status, "in_force"}
    /\ mem[m].life = "kept" => row.life = "kept" \/ \A r \in Receipts(m) : r.by # "person"
    /\ row.life = "proposed" =>
          \/ mem[m].life = "proposed" /\ row.version = mem[m].version
          \/ \E j \in ch.queue : j.mem = m /\ j.version = row.version /\ j.mode = "proposal"
          \/ \E w \in verdicts' : w.mem = m /\ w.version = row.version

LEMMA OneMarked ==
    ASSUME Recorded, NEW m \in Memories, NEW ch, NEW row, NEW act, OneMeant(ch, m, row, act)
    PROVE  Marking(ch, {m})
<1>1. ch.mem[m] = row
  BY DEF OneMeant, Recorded, Rowed
<1>2. \A t \in ch.make : t.kind = "conflicts_with" => ch.mem[t.from].conflict
  BY <1>1 DEF OneMeant
<1>3. FlagMeant(ch, m) /\ StatusMeant(ch, {m}, m)
  BY <1>1 DEF OneMeant, FlagMeant, StatusMeant
<1>4. KeptStays(ch, m)
  <2>1. ActsOn(ch, m) = {act}
    BY OneDeed DEF OneMeant
  <2> QED
    BY <1>1, <2>1 DEF OneMeant, KeptStays, Keeping
<1>5. Watching(ch, m)
  BY <1>1 DEF OneMeant, Watching
<1> QED
  BY <1>2, <1>3, <1>4, <1>5 DEF OneMeant, Marking

LEMMA ReadyStep ==
    ASSUME Inv, Inv', Exact, NEW ch, NEW ms, Ready(ch, ms), Commit(ch)
    PROVE  Exact' /\ \A m \in Memories : L!Guarded(m)
<1>1. Recorded /\ Recorded' /\ Streams /\ Touched /\ AsLeft /\ Chained /\ Hanging
  BY DEF Inv, Typed, Exact
<1>2. Plain(ch, ms) /\ Rightful(ch, ms) /\ \A m \in ms : Moved(ch, m)
  BY DEF Ready
<1>3. Streams'
  BY <1>1, <1>2, PlainStreams
<1>4. Touched' /\ AsLeft' /\ Chained'
  BY <1>1, <1>2, PlainTouched, PlainAsLeft, PlainChained
<1>5. Hanging'
  BY <1>1, <1>2, PlainHanging
<1>6. \A m \in Memories : L!Guarded(m)
  BY <1>1, <1>2, PlainPasses
<1> QED
  BY <1>3, <1>4, <1>5, <1>6 DEF Exact

LEMMA OneReady ==
    ASSUME Recorded, NEW ch, NEW m \in Memories, NEW row, Told(ch, {m}), ch.by \in By, ch.of = 0,
           ch.mem = [mem EXCEPT ![m] = row], Moved(ch, m),
           row.life \notin {"none", "forgotten"}, mem[m].life \notin {"merged", "forgotten"},
           ch.undo # "none" =>
              /\ ch.touch = {m} /\ ch.end = {}
              /\ \/ mem[m].life \in {"proposed", "kept"} /\ ch.before[m] = mem[m]
                 \/ mem[m].life = "none" /\ ch.before[m].life = "rejected",
           \A t \in ch.make :
              /\ t.to = m \/ (t.to \in Memories /\ mem[t.to].life # "forgotten")
              /\ t.kind = "merged_into" => ch.undo # "none" /\ t.from = m /\ row.life = "merged"
    PROVE  Ready(ch, {m})
<1>1. DOMAIN mem = Memories
  BY DEF Recorded, Rowed
<1>2. ch.mem[m] = row /\ \A k \in Memories \ {m} : ch.mem[k] = mem[k]
  BY <1>1
<1>3. \A k \in Memories \ {m} : ch.acts[k] = <<>>
  BY DEF Told
<1>4. ch.acts[m] \in Seq(Deeds) /\ ch.acts[m] # <<>>
  BY DEF Told
<1>5. Plain(ch, {m})
  BY <1>2, <1>3, <1>4 DEF Plain
<1>6. Rightful(ch, {m})
  BY <1>2 DEF Rightful
<1> QED
  BY <1>5, <1>6 DEF Ready

\* A new memory's change.
Inserted(n, m, by, life) ==
    /\ SameAll(n, Change(by), {"mem", "top", "queue", "acts"})
    /\ n.mem = [mem EXCEPT ![m] = Row(life)]
    /\ Told(n, {m}) /\ n.acts[m] = <<life>>

LEMMA InsertDone ==
    ASSUME NEW m \in Memories, NEW by, NEW life \in {"kept", "proposed"}
    PROVE  Inserted(Insert(m, by, life), m, by, life)
<1> DEFINE c0 == Change(by)
           as == <<life>>
           row == Row(life)
           w == Write(c0, m, row, as)
           q == JudgeAfterWrite(m, 1, by, life)
           ts == [w.top EXCEPT ![m] = 1]
           n1 == [w EXCEPT !["top"] = ts]
           n2 == [n1 EXCEPT !["queue"] = q]
<1>1. Shape(c0) /\ Told(c0, {}) /\ c0.mem = mem
  BY ChangeTold
<1>2. as \in Seq(Deeds) /\ as # <<>>
  <2>1. life \in Deeds
    BY DEF Deeds
  <2> QED
    BY <2>1, OneAct
<1>3. Insert(m, by, life) = n2
  BY DEF Insert
<1> HIDE DEF c0, as, row
<1>4. SameAll(w, c0, {"mem", "acts"}) /\ w.mem = [c0.mem EXCEPT ![m] = row] /\ Told(w, {m}) /\ w.acts[m] = as
  <2>1. Wrote(w, c0, m, row, as)
    BY <1>1, <1>2, WriteTold
  <2> DEFINE none == {}
  <2>3. m \notin none /\ none \cup {m} = {m} /\ Told(c0, none)
    BY <1>1
  <2> HIDE DEF w, none
  <2>2. Told(w, none \cup {m}) /\ w.acts[m] = as
    BY <2>1, <2>3 DEF Wrote
  <2> QED
    BY <2>1, <2>2, <2>3 DEF Wrote
<1>5. Shape(w)
  BY <1>4 DEF SameAll
<1> HIDE DEF w, q, ts
<1>6. SameAll(n1, w, {"top"})
  BY <1>5, FieldNames DEF SameAll, Shape
<1> HIDE DEF n1
<1>7. Shape(n1)
  BY <1>6 DEF SameAll
<1>8. SameAll(n2, n1, {"queue"})
  BY <1>7, FieldNames DEF SameAll, Shape
<1> HIDE DEF n2
<1>9. SameAll(n2, c0, {"mem", "top", "queue", "acts"}) /\ n2.mem = [mem EXCEPT ![m] = row] /\ n2.acts = w.acts
  BY <1>1, <1>4, <1>6, <1>8, FieldNames DEF SameAll, ChangeFields
<1>10. Told(n2, {m})
  BY <1>4, <1>9 DEF Told
<1> QED
  BY <1>3, <1>4, <1>9, <1>10 DEF Inserted, c0, row, as

LEMMA InsertTold ==
    ASSUME NEW m \in Memories, NEW by, NEW life \in {"kept", "proposed"}
    PROVE  /\ SameAll(Insert(m, by, life), Change(by), {"mem", "top", "queue", "acts"})
           /\ Insert(m, by, life).mem = [mem EXCEPT ![m] = Row(life)]
           /\ Told(Insert(m, by, life), {m})
  BY InsertDone DEF Inserted

\* ... and its marks.
LEMMA InsertMarked ==
    ASSUME Recorded, NEW m \in Memories, mem[m].life = "none", NEW by, NEW life \in {"kept", "proposed"}, NEW ch,
           ch.mem = [mem EXCEPT ![m] = Row(life)], ch.acts = Insert(m, by, life).acts, ch.end = {},
           ch.top = Insert(m, by, life).top, ch.queue = Insert(m, by, life).queue,
           ch.undo # "none" => ch.before[m].status = "in_force",
           \A t \in ch.make : ch.undo = "none" /\ t.kind # "conflicts_with"
    PROVE  Marking(ch, {m})
<1>1. Row(life).life = life /\ ~Row(life).conflict /\ Row(life).version = 1 /\ Row(life).status = "in_force"
  BY DEF Row
<1>2. ~mem[m].conflict /\ mem[m].conflict \in BOOLEAN
  BY Existing DEF AnyRow
<1>3. ch.acts[m] = <<life>>
  <2> DEFINE n == Insert(m, by, life)
             as == <<life>>
  <2>1. Inserted(n, m, by, life)
    BY InsertDone
  <2>3. n.acts[m] = as
    BY <2>1 DEF Inserted
  <2> HIDE DEF n, as
  <2>2. ch.acts = n.acts
    BY DEF n
  <2> QED
    BY <2>2, <2>3 DEF as
<1>4. ch.top = [top EXCEPT ![m] = 1] /\ ch.queue = JudgeAfterWrite(m, 1, by, life)
  BY InsertShape
<1>5. \A k \in Memories : ch.top[k] \in {top[k], 1}
  BY <1>4, Tops
<1>6. ASSUME life = "proposed" PROVE \E j \in ch.queue : j.mem = m /\ j.version = 1 /\ j.mode = "proposal"
  <2> DEFINE j == Job(m, 1, "proposal")
  <2>1. ch.queue = {j}
    BY <1>4, <1>6 DEF JudgeAfterWrite
  <2>2. j.mem = m /\ j.version = 1 /\ j.mode = "proposal"
    BY DEF Job
  <2> HIDE DEF j
  <2> QED
    BY <2>1, <2>2
<1>7. Row(life).conflict = mem[m].conflict
  BY <1>1, <1>2 DEF Row
<1> DEFINE row == Row(life)
<1> HIDE DEF row
<1>8. row.life = life /\ row.version = 1 /\ row.status = "in_force" /\ row.conflict = mem[m].conflict
      /\ ch.mem = [mem EXCEPT ![m] = row]
  BY <1>1, <1>7 DEF row
<1>9. row.life = "proposed" => \E j \in ch.queue : j.mem = m /\ j.version = row.version /\ j.mode = "proposal"
  BY <1>6, <1>8
<1>10. OneMeant(ch, m, row, life)
  BY <1>3, <1>5, <1>8, <1>9 DEF OneMeant
<1> QED
  BY <1>10, OneMarked

\* What a change of Insert's says beside its rows and receipts.
LEMMA InsertPlain ==
    ASSUME NEW ch, NEW by, SameAll(ch, Change(by), {"mem", "top", "queue", "acts"})
    PROVE  /\ Shape(ch) /\ ch.by = by /\ ch.of = 0 /\ ch.undo = "none" /\ ch.make = {} /\ ch.end = {}
           /\ ch.touch = {} /\ ch.before = mem
<1>1. /\ ch.by = Change(by).by /\ ch.of = Change(by).of /\ ch.undo = Change(by).undo
      /\ ch.make = Change(by).make /\ ch.end = Change(by).end /\ ch.touch = Change(by).touch
      /\ ch.before = Change(by).before /\ Shape(ch)
  BY FieldNames DEF SameAll
<1> QED
  BY <1>1, ChangeTold

LEMMA ProposeReady ==
    ASSUME Recorded, NEW m \in Memories, NEW by \in Actors, Propose(m, by)
    PROVE  \E ch, ms : Ready(ch, ms) /\ Marking(ch, ms) /\ Commit(ch)
<1> DEFINE ch == Insert(m, by, "proposed")
           row == Row("proposed")
<1>1. mem[m].life = "none" /\ Commit(ch)
  BY DEF Propose
<1>2. /\ SameAll(ch, Change(by), {"mem", "top", "queue", "acts"})
      /\ ch.mem = [mem EXCEPT ![m] = row] /\ Told(ch, {m})
  BY InsertTold
<1>3. row.life = "proposed"
  BY DEF Row
<1> HIDE DEF ch, row
<1>4. ch.by = by /\ ch.of = 0 /\ ch.undo = "none" /\ ch.make = {} /\ ch.end = {}
  BY <1>2, InsertPlain
<1>5. by \in By
  BY DEF Actors, By
<1>6. ch.mem[m] = row
  BY <1>2 DEF Recorded, Rowed
<1>7. Moved(ch, m)
  BY <1>1, <1>3, <1>6 DEF Moved
<1>8. Ready(ch, {m})
  BY <1>1, <1>2, <1>3, <1>4, <1>5, <1>7, OneReady
<1>9. Marking(ch, {m})
  BY <1>1, <1>2, <1>4, InsertMarked DEF ch, row
<1> QED
  BY <1>1, <1>8, <1>9

LEMMA UpdateReady ==
    ASSUME Recorded, NEW m \in Memories, NEW n \in Memories, NEW by \in Actors, Update(m, n, by)
    PROVE  \E ch, ms : Ready(ch, ms) /\ Marking(ch, ms) /\ Commit(ch)
<1> DEFINE c0 == Insert(n, by, "proposed")
           row == Row("proposed")
           made == {Triple("supersedes", n, m)}
           ch == [c0 EXCEPT !["make"] = made]
<1>1. mem[m].life = "kept" /\ mem[n].life = "none" /\ Commit(ch)
  BY DEF Update
<1>2. /\ SameAll(c0, Change(by), {"mem", "top", "queue", "acts"})
      /\ c0.mem = [mem EXCEPT ![n] = row] /\ Told(c0, {n})
  BY InsertTold
<1>3. row.life = "proposed"
  BY DEF Row
<1>4. \A t \in made : t.to = m /\ t.kind # "merged_into" /\ t.kind # "conflicts_with"
  BY DEF Triple
<1> HIDE DEF c0, row, made
<1>5. Shape(c0) /\ c0.by = by /\ c0.of = 0 /\ c0.undo = "none" /\ c0.end = {}
  BY <1>2, InsertPlain
<1>6. SameAll(ch, c0, {"make"}) /\ ch.make = made
  BY <1>5, FieldNames DEF SameAll, Shape
<1> HIDE DEF ch
<1>7. /\ ch.by = by /\ ch.of = 0 /\ ch.undo = "none" /\ ch.end = {} /\ ch.mem = [mem EXCEPT ![n] = row]
      /\ ch.acts = c0.acts /\ ch.top = c0.top /\ ch.queue = c0.queue
  BY <1>2, <1>5, <1>6, FieldNames DEF SameAll
<1>8. Told(ch, {n})
  BY <1>2, <1>7 DEF Told
<1>9. by \in By
  BY DEF Actors, By
<1>10. ch.mem[n] = row
  BY <1>7 DEF Recorded, Rowed
<1>11. Moved(ch, n)
  BY <1>1, <1>3, <1>10 DEF Moved
<1>12. \A t \in ch.make : t.kind # "merged_into" /\ t.to \in Memories /\ mem[t.to].life # "forgotten"
  BY <1>1, <1>4, <1>6
<1>13. Ready(ch, {n})
  BY <1>1, <1>3, <1>7, <1>8, <1>9, <1>11, <1>12, OneReady
<1>14. Marking(ch, {n})
  BY <1>1, <1>4, <1>6, <1>7, InsertMarked DEF c0, row
<1> QED
  BY <1>1, <1>13, <1>14

LEMMA RememberReady ==
    ASSUME Recorded, NEW m \in Memories, NEW by \in Actors, NEW life, Remember(m, by, life)
    PROVE  \E ch, ms : Ready(ch, ms) /\ Marking(ch, ms) /\ Commit(ch)
<1> DEFINE c0 == Insert(m, by, life)
           k == "remember"
           ms == {m}
           row == Row(life)
           bs == [mem EXCEPT ![m] = Row("rejected")]
           c1 == [c0 EXCEPT !["undo"] = k]
           c2 == [c1 EXCEPT !["touch"] = ms]
           c3 == [c2 EXCEPT !["before"] = bs]
           ch == IF by = "person" THEN c3 ELSE c0
<1>1. mem[m].life = "none" /\ life \in {"proposed", "kept"}
  BY DEF Remember
<1>2. /\ SameAll(c0, Change(by), {"mem", "top", "queue", "acts"})
      /\ c0.mem = [mem EXCEPT ![m] = row] /\ Told(c0, {m})
  BY <1>1, InsertTold
<1>3. row.life \in {"proposed", "kept"} /\ Row("rejected").life = "rejected"
  BY <1>1 DEF Row
<1>4. /\ Shape(c0) /\ c0.by = by /\ c0.of = 0 /\ c0.undo = "none" /\ c0.end = {} /\ c0.make = {}
      /\ c0.before = mem
  BY <1>2, InsertPlain
<1>5. Commit(ch)
  <2>1. Commit(IF by = "person" THEN [c0 EXCEPT !.undo = "remember", !.touch = {m}, !.before[m] = Row("rejected")] ELSE c0)
    BY DEF Remember
  <2> HIDE DEF c0
  <2>2. c2.before = c0.before
    BY <1>4, FieldNames DEF Shape
  <2>3. [c0 EXCEPT !.undo = "remember", !.touch = {m}, !.before[m] = Row("rejected")] = c3
    BY <1>4, <2>2
  <2> QED
    BY <2>1, <2>3
<1>6. DOMAIN mem = Memories
  BY DEF Recorded, Rowed
<1>7. bs[m].life = "rejected" /\ bs[m].status = "in_force"
  BY <1>3, <1>6 DEF Row
<1> HIDE DEF c0, row, ms, bs, k
<1>8. SameAll(c1, c0, {"undo"}) /\ c1.undo = k
  BY <1>4, FieldNames DEF SameAll, Shape
<1> HIDE DEF c1
<1>9. SameAll(c2, c1, {"touch"}) /\ c2.touch = ms
  BY <1>8, FieldNames DEF SameAll, Shape
<1> HIDE DEF c2
<1>10. SameAll(c3, c2, {"before"}) /\ c3.before = bs
  BY <1>9, FieldNames DEF SameAll, Shape
<1> HIDE DEF c3
<1>11. /\ c3.by = by /\ c3.of = 0 /\ c3.touch = ms /\ c3.end = {} /\ c3.make = {} /\ c3.before = bs
       /\ c3.mem = [mem EXCEPT ![m] = row] /\ c3.acts = c0.acts /\ c3.top = c0.top /\ c3.queue = c0.queue
  BY <1>2, <1>4, <1>8, <1>9, <1>10, FieldNames DEF SameAll
<1>12. Told(c3, {m})
  BY <1>2, <1>11 DEF Told
<1>13. by \in By
  BY DEF Actors, By
<1>14. c0.mem[m] = row /\ c3.mem[m] = row
  BY <1>2, <1>6, <1>11
<1>15. Moved(c0, m) /\ Moved(c3, m)
  BY <1>1, <1>3, <1>14 DEF Moved
<1>16. Ready(c0, {m})
  BY <1>1, <1>2, <1>3, <1>4, <1>13, <1>15, OneReady
<1>17. c3.touch = {m} /\ c3.before[m].life = "rejected"
  BY <1>7, <1>11 DEF ms
<1>18. Ready(c3, {m})
  BY <1>1, <1>3, <1>11, <1>12, <1>13, <1>15, <1>17, OneReady
<1>19. Marking(c0, {m}) /\ Marking(c3, {m})
  <2>1. ASSUME NEW x, x.mem = [mem EXCEPT ![m] = row], x.acts = c0.acts, x.end = {}, x.top = c0.top,
               x.queue = c0.queue, x.make = {}, x.undo # "none" => x.before[m].status = "in_force"
        PROVE  Marking(x, {m})
    BY <1>1, <2>1, InsertMarked DEF c0, row
  <2> QED
    BY <1>2, <1>4, <1>7, <1>11, <2>1
<1> QED
  BY <1>5, <1>16, <1>18, <1>19

LEMMA EditReady ==
    ASSUME Recorded, NEW m \in Memories, NEW by \in Actors, Edit(m, by)
    PROVE  \E ch, ms : Ready(ch, ms) /\ Marking(ch, ms) /\ Commit(ch)
<1> DEFINE b0 == Change(by)
           row == Reworded(m)
           as == <<"edited">>
           w == Write(b0, m, row, as)
           ts == [w.top EXCEPT ![m] = w.top[m] + 1]
           q == JudgeAfterWrite(m, top[m] + 1, by, mem[m].life)
           k == "edit"
           ms == {m}
           c0 == [w EXCEPT !["top"] = ts]
           c1 == [c0 EXCEPT !["queue"] = q]
           c2 == [c1 EXCEPT !["undo"] = k]
           c3 == [c2 EXCEPT !["touch"] = ms]
           ch == IF by = "person" THEN c3 ELSE c1
<1>1. mem[m].life \in {"proposed", "kept"}
  BY DEF Edit
<1>2. Commit(ch)
  <2>1. NewWords(b0, m) = c0
    BY DEF NewWords
  <2>2. Commit(IF by = "person" THEN [[NewWords(b0, m) EXCEPT !.queue = q] EXCEPT !.undo = "edit", !.touch = {m}]
               ELSE [NewWords(b0, m) EXCEPT !.queue = q])
    BY DEF Edit
  <2> HIDE DEF c0, q
  <2> QED
    BY <2>1, <2>2
<1>3. Told(b0, {}) /\ Shape(b0) /\ b0.mem = mem /\ b0.by = by /\ b0.of = 0 /\ b0.make = {} /\ b0.end = {}
      /\ b0.undo = "none" /\ b0.before = mem
  BY ChangeTold
<1>4. as \in Seq(Deeds) /\ as # <<>>
  <2>1. "edited" \in Deeds
    BY DEF Deeds
  <2> QED
    BY <2>1, OneAct
<1>5. /\ row.life = mem[m].life /\ row.conflict = mem[m].conflict /\ row.status = mem[m].status
      /\ row.version = top[m] + 1
  BY RowSet DEF Recorded, Rowed, Fits, Reworded, AnyRow
<1>20. "edit" \in Commands
  BY DEF Edit
<1>21. row.life = "proposed" => \E j \in q : j.mem = m /\ j.version = row.version /\ j.mode = "proposal"
  <2> DEFINE v == top[m] + 1
             j == Job(m, v, "proposal")
  <2>1. mem[m].life = "proposed" => q = {j}
    BY DEF JudgeAfterWrite
  <2>2. j.mem = m /\ j.version = v /\ j.mode = "proposal"
    BY DEF Job
  <2> HIDE DEF j, q
  <2> QED
    BY <1>5, <2>1, <2>2
<1>22. as = <<"edited">>
  OBVIOUS
<1> HIDE DEF b0, row, as, q
<1>6. Wrote(w, b0, m, row, as)
  BY <1>3, <1>4, WriteTold
<1> HIDE DEF w
<1>7. /\ SameAll(w, b0, {"mem", "acts"}) /\ Shape(w) /\ w.mem = [mem EXCEPT ![m] = row] /\ Told(w, {m})
      /\ w.acts[m] = as
  <2>1. Told(w, {} \cup {m}) /\ w.acts[m] = as
    BY <1>3, <1>6 DEF Wrote
  <2> QED
    BY <1>3, <1>6, <2>1 DEF Wrote, SameAll
<1> HIDE DEF ts, k, ms
<1>8. SameAll(c0, w, {"top"})
  BY <1>7, FieldNames DEF SameAll, Shape
<1> HIDE DEF c0
<1>9. SameAll(c1, c0, {"queue"}) /\ c1.queue = q
  BY <1>8, FieldNames DEF SameAll, Shape
<1> HIDE DEF c1
<1>10. SameAll(c2, c1, {"undo"})
  BY <1>9, FieldNames DEF SameAll, Shape
<1> HIDE DEF c2
<1>11. SameAll(c3, c2, {"touch"}) /\ c3.touch = ms
  BY <1>10, FieldNames DEF SameAll, Shape
<1> HIDE DEF c3
<1>12. /\ c1.by = by /\ c1.of = 0 /\ c1.make = {} /\ c1.end = {} /\ c1.undo = "none" /\ c1.before = mem
       /\ c1.mem = [mem EXCEPT ![m] = row] /\ c1.acts = w.acts
       /\ c3.by = by /\ c3.of = 0 /\ c3.make = {} /\ c3.end = {} /\ c3.before = mem
       /\ c3.mem = [mem EXCEPT ![m] = row] /\ c3.acts = w.acts /\ c1.queue = q /\ c3.queue = q
  BY <1>3, <1>7, <1>8, <1>9, <1>10, <1>11, FieldNames DEF SameAll
<1>13. Told(c1, {m}) /\ Told(c3, {m})
  BY <1>7, <1>12 DEF Told
<1>14. by \in By
  BY DEF Actors, By
<1>15. c1.mem[m] = row /\ c3.mem[m] = row
  BY <1>12 DEF Recorded, Rowed
<1>16. Moved(c1, m) /\ Moved(c3, m)
  BY <1>1, <1>5, <1>15 DEF Moved
<1>17. Ready(c1, {m})
  BY <1>1, <1>5, <1>12, <1>13, <1>14, <1>16, OneReady
<1>18. c3.touch = {m} /\ c3.before[m] = mem[m]
  BY <1>11, <1>12 DEF ms
<1>19. Ready(c3, {m})
  BY <1>1, <1>5, <1>12, <1>13, <1>14, <1>16, <1>18, OneReady
<1>23. Marking(c1, {m}) /\ Marking(c3, {m})
  <2>1. ASSUME NEW x, x.mem = [mem EXCEPT ![m] = row], x.acts = w.acts, x.end = {}, x.queue = q, x.make = {},
               x.before = mem
        PROVE  Marking(x, {m})
    <3>1. x.acts[m] = <<"edited">>
      BY <1>7, <1>22, <2>1
    <3>2. x.before[m] = mem[m]
      BY <2>1
    <3>3. OneMeant(x, m, row, "edited")
      BY <1>1, <1>5, <1>20, <1>21, <2>1, <3>1, <3>2 DEF OneMeant
    <3> QED
      BY <3>3, OneMarked
  <2> QED
    BY <1>12, <2>1
<1> QED
  BY <1>2, <1>17, <1>19, <1>23

LEMMA RejectReady ==
    ASSUME Recorded, NEW m \in Memories, Reject(m)
    PROVE  \E ch, ms : Ready(ch, ms) /\ Marking(ch, ms) /\ Commit(ch)
<1> DEFINE b0 == Change("person")
           row == Away(mem[m], "rejected")
           as == <<"rejected">>
           w == Write(b0, m, row, as)
           k == "reject"
           ms == {m}
           c1 == [w EXCEPT !["undo"] = k]
           c2 == [c1 EXCEPT !["touch"] = ms]
<1>1. mem[m].life = "proposed" /\ Commit(c2)
  BY DEF Reject
<1>2. Told(b0, {}) /\ Shape(b0) /\ b0.mem = mem /\ b0.by = "person" /\ b0.of = 0 /\ b0.make = {} /\ b0.end = {}
      /\ b0.before = mem
  BY ChangeTold
<1>3. as \in Seq(Deeds) /\ as # <<>>
  <2>1. "rejected" \in Deeds
    BY DEF Deeds
  <2> QED
    BY <2>1, OneAct
<1>4. row.life = "rejected" /\ row.status = mem[m].status
  <2>1. mem[m] \in AnyRow
    BY DEF Recorded, Rowed, Fits
  <2> DEFINE r == mem[m]
  <2> HIDE DEF r
  <2>2. r \in AnyRow
    BY <2>1 DEF r
  <2>3. Away(r, "rejected").life = "rejected" /\ Away(r, "rejected").status = r.status
    BY <2>2 DEF Away, AnyRow
  <2> QED
    BY <2>3 DEF r
<1>15. as = <<"rejected">>
  OBVIOUS
<1>16. b0.top = top
  BY ChangeShape
<1> HIDE DEF b0, row, as
<1>5. Wrote(w, b0, m, row, as)
  BY <1>2, <1>3, WriteTold
<1> HIDE DEF w
<1>6. /\ SameAll(w, b0, {"mem", "acts"}) /\ Shape(w) /\ w.mem = [mem EXCEPT ![m] = row] /\ Told(w, {m})
      /\ w.acts[m] = as
  <2>1. Told(w, {} \cup {m}) /\ w.acts[m] = as
    BY <1>2, <1>5 DEF Wrote
  <2> QED
    BY <1>2, <1>5, <2>1 DEF Wrote, SameAll
<1> HIDE DEF k, ms
<1>7. SameAll(c1, w, {"undo"})
  BY <1>6, FieldNames DEF SameAll, Shape
<1> HIDE DEF c1
<1>8. SameAll(c2, c1, {"touch"}) /\ c2.touch = ms
  BY <1>7, FieldNames DEF SameAll, Shape
<1> HIDE DEF c2
<1>9. /\ c2.by = "person" /\ c2.of = 0 /\ c2.make = {} /\ c2.end = {} /\ c2.before = mem
      /\ c2.mem = [mem EXCEPT ![m] = row] /\ c2.acts = w.acts /\ c2.top = top
  BY <1>2, <1>6, <1>7, <1>8, <1>16, FieldNames DEF SameAll
<1>10. Told(c2, {m})
  BY <1>6, <1>9 DEF Told
<1>11. c2.mem[m] = row
  BY <1>9 DEF Recorded, Rowed
<1>12. Moved(c2, m)
  BY <1>1, <1>4, <1>11 DEF Moved
<1>13. c2.touch = {m} /\ c2.before[m] = mem[m] /\ "person" \in By
  BY <1>8, <1>9 DEF ms, By
<1>14. Ready(c2, {m})
  BY <1>1, <1>4, <1>9, <1>10, <1>12, <1>13, OneReady
<1>17. Marking(c2, {m})
  <2>1. c2.acts[m] = <<"rejected">>
    BY <1>6, <1>9, <1>15
  <2>2. OneMeant(c2, m, row, "rejected")
    BY <1>1, <1>4, <1>9, <1>13, <2>1 DEF OneMeant
  <2> QED
    BY <2>2, OneMarked
<1> QED
  BY <1>1, <1>14, <1>17

\* A proposal is kept, and what it supersedes with it.
LEMMA KeptReady ==
    ASSUME Recorded, NEW m \in Memories, mem[m].life = "proposed", NEW c, NEW row, row.life = "kept",
           Told(c, {m}), c.by = "person", c.of = 0, c.make = {}, c.end = {}, c.before = mem, c.touch = {m},
           c.mem = [mem EXCEPT ![m] = row], row.conflict = mem[m].conflict, row.status = mem[m].status,
           "kept" \in ActsOn(c, m), c.undo # "none",
           "edit" \notin Commands => \A k \in Memories : c.top[k] \in {top[k], 1},
           NEW ch, Superseded(ch, c, Supersedes(m))
    PROVE  Ready(ch, {m} \cup Supersedes(m)) /\ Marking(ch, {m} \cup Supersedes(m))
<1> DEFINE ds == Supersedes(m)
           ms == {m} \cup ds
<1>1. /\ ds \subseteq Memories /\ \A d \in ds : mem[d].life = "kept" /\ d # m
      /\ \A d \in ds : Triple("supersedes", m, d) \in Active
  BY DEF Supersedes, InForce
<1>2. DOMAIN mem = Memories /\ \A d \in Memories : mem[d] \in AnyRow
  BY DEF Recorded, Rowed, Fits
<1> HIDE DEF ds
<1>3. /\ ch.by = "person" /\ ch.of = 0 /\ ch.make = {} /\ ch.end = {} /\ ch.before = mem
      /\ ch.touch = ms /\ Told(ch, ms) /\ ch.undo # "none" /\ ch.top = c.top /\ ch.acts[m] = c.acts[m]
      /\ ch.mem = [d \in Memories |-> IF d \in ds THEN [c.mem[d] EXCEPT !.status = "superseded"] ELSE c.mem[d]]
  BY <1>1, FieldNames DEF Superseded, SameAll, ds
<1>4. ch.mem[m] = row
  BY <1>1, <1>2, <1>3
<1>5. \A k \in Memories \ ms : ch.mem[k] = mem[k]
  BY <1>2, <1>3
<1>6. ASSUME NEW d \in ds
      PROVE  ch.mem[d].life = "kept" /\ mem[d].life = "kept" /\ d # m /\ ch.mem[d].conflict = mem[d].conflict
  <2>1. mem[d] \in AnyRow /\ mem[d].life = "kept" /\ d # m /\ d \in Memories
    BY <1>1, <1>2
  <2>2. ch.mem[d] = [mem[d] EXCEPT !.status = "superseded"]
    BY <1>2, <1>3, <2>1
  <2> DEFINE r == mem[d]
  <2> HIDE DEF r
  <2>3. r \in AnyRow /\ r.life = "kept"
    BY <2>1 DEF r
  <2>4. [r EXCEPT !.status = "superseded"].life = "kept" /\ [r EXCEPT !.status = "superseded"].conflict = r.conflict
    BY <2>3 DEF AnyRow
  <2> QED
    BY <2>1, <2>2, <2>4 DEF r
<1>7. \A k \in ms : mem[k].life \in {"proposed", "kept"} /\ ch.mem[k].life = "kept"
  BY <1>4, <1>6
<1>8. Plain(ch, ms)
  <2>1. "person" \in By /\ ms \subseteq Memories
    BY <1>1 DEF By
  <2>2. /\ \A k \in ms : ch.acts[k] \in Seq(Deeds) /\ ch.acts[k] # <<>>
        /\ \A k \in Memories \ ms : ch.acts[k] = <<>>
    BY <1>3 DEF Told
  <2> HIDE DEF ms
  <2> QED
    BY <1>3, <1>5, <1>7, <2>1, <2>2 DEF Plain
<1>9. Rightful(ch, ms)
  BY <1>3, <1>7 DEF Rightful
<1>10. \A k \in ms : Moved(ch, k)
  BY <1>7 DEF Moved
<1>11. ms \subseteq Memories /\ \A k \in ms : ch.mem[k].conflict = mem[k].conflict
  BY <1>1, <1>4, <1>6
<1>12. Keeping(ch, m)
  BY <1>3 DEF Keeping, ActsOn
<1>13. \A k \in ms : StatusMeant(ch, ms, k)
  BY <1>1, <1>3, <1>4, <1>12 DEF StatusMeant
<1> HIDE DEF ms
<1>14. \A k \in ms : FlagMeant(ch, k)
  BY <1>11 DEF FlagMeant
<1>15. \A k \in ms : KeptStays(ch, k) /\ Watching(ch, k)
  BY <1>7 DEF KeptStays, Watching
<1>16. Marking(ch, ms)
  BY <1>3, <1>13, <1>14, <1>15 DEF Marking
<1> QED
  BY <1>8, <1>9, <1>10, <1>16 DEF Ready, ds, ms

LEMMA KeepReady ==
    ASSUME Recorded, NEW m \in Memories, Keep(m)
    PROVE  \E ch, ms : Ready(ch, ms) /\ Marking(ch, ms) /\ Commit(ch)
<1> DEFINE b0 == Change("person")
           row == [mem[m] EXCEPT !.life = "kept"]
           as == <<"kept">>
           w == Write(b0, m, row, as)
           k == "keep"
           ms == {m}
           c1 == [w EXCEPT !["undo"] = k]
           c2 == [c1 EXCEPT !["touch"] = ms]
           ds == Supersedes(m)
           ch == SupersedeAll(c2, ds)
<1>1. mem[m].life = "proposed" /\ Commit(ch)
  BY DEF Keep
<1>2. Told(b0, {}) /\ Shape(b0) /\ b0.mem = mem /\ b0.by = "person" /\ b0.of = 0 /\ b0.make = {} /\ b0.end = {}
      /\ b0.before = mem
  BY ChangeTold
<1>3. as \in Seq(Deeds) /\ as # <<>>
  <2>1. "kept" \in Deeds
    BY DEF Deeds
  <2> QED
    BY <2>1, OneAct
<1>4. row.life = "kept" /\ row.conflict = mem[m].conflict /\ row.status = mem[m].status
  BY RowSet DEF Recorded, Rowed, Fits, AnyRow
<1>5. ds \subseteq Memories
  BY DEF Supersedes
<1>14. b0.top = top /\ k # "none" /\ as = <<"kept">>
  BY ChangeShape
<1> HIDE DEF b0, row, as, ds
<1>6. Wrote(w, b0, m, row, as)
  BY <1>2, <1>3, WriteTold
<1> HIDE DEF w
<1>7. /\ SameAll(w, b0, {"mem", "acts"}) /\ Shape(w) /\ w.mem = [mem EXCEPT ![m] = row] /\ Told(w, {m})
      /\ w.acts[m] = as
  <2>1. Told(w, {} \cup {m}) /\ w.acts[m] = as
    BY <1>2, <1>6 DEF Wrote
  <2> QED
    BY <1>2, <1>6, <2>1 DEF Wrote, SameAll
<1> HIDE DEF k, ms
<1>8. SameAll(c1, w, {"undo"}) /\ c1.undo = k
  BY <1>7, FieldNames DEF SameAll, Shape
<1> HIDE DEF c1
<1>9. SameAll(c2, c1, {"touch"}) /\ c2.touch = ms /\ Shape(c2)
  BY <1>8, FieldNames DEF SameAll, Shape
<1> HIDE DEF c2
<1>10. /\ c2.by = "person" /\ c2.of = 0 /\ c2.make = {} /\ c2.end = {} /\ c2.before = mem
       /\ c2.mem = [mem EXCEPT ![m] = row] /\ c2.acts = w.acts /\ c2.touch = {m} /\ c2.undo = k /\ c2.top = top
  BY <1>2, <1>7, <1>8, <1>9, <1>14, FieldNames DEF SameAll, ms
<1>11. Told(c2, {m})
  BY <1>7, <1>10 DEF Told
<1>12. Superseded(ch, c2, ds)
  BY <1>5, <1>9, SupersedeTold
<1> HIDE DEF ch
<1>15. "kept" \in ActsOn(c2, m)
  BY <1>7, <1>10, <1>14, OneDeed
<1>13. Ready(ch, {m} \cup Supersedes(m)) /\ Marking(ch, {m} \cup Supersedes(m))
  BY <1>1, <1>4, <1>10, <1>11, <1>12, <1>14, <1>15, KeptReady DEF ds
<1> QED
  BY <1>1, <1>13

LEMMA EditThenKeepReady ==
    ASSUME Recorded, NEW m \in Memories, EditThenKeep(m)
    PROVE  \E ch, ms : Ready(ch, ms) /\ Marking(ch, ms) /\ Commit(ch)
<1> DEFINE b0 == Change("person")
           row == [Reworded(m) EXCEPT !.life = "kept"]
           as == <<"edited", "kept">>
           w == Write(b0, m, row, as)
           ts == [w.top EXCEPT ![m] = w.top[m] + 1]
           k == "edit"
           ms == {m}
           c0 == [w EXCEPT !["top"] = ts]
           c1 == [c0 EXCEPT !["undo"] = k]
           c2 == [c1 EXCEPT !["touch"] = ms]
           ds == Supersedes(m)
           ch == SupersedeAll(c2, ds)
<1>1. mem[m].life = "proposed" /\ Commit(ch)
  BY DEF EditThenKeep
<1>2. Told(b0, {}) /\ Shape(b0) /\ b0.mem = mem /\ b0.by = "person" /\ b0.of = 0 /\ b0.make = {} /\ b0.end = {}
      /\ b0.before = mem
  BY ChangeTold
<1>3. as \in Seq(Deeds) /\ as # <<>>
  <2>1. "edited" \in Deeds /\ "kept" \in Deeds
    BY DEF Deeds
  <2> DEFINE D == Deeds
             x == "edited"
             y == "kept"
  <2>2. x \in D /\ y \in D
    BY <2>1
  <2> HIDE DEF D, x, y
  <2>3. <<x, y>> \in Seq(D) /\ <<x, y>> # <<>>
    BY <2>2
  <2> QED
    BY <2>3 DEF D, x, y
<1>4. row.life = "kept" /\ row.conflict = mem[m].conflict /\ row.status = mem[m].status
  <2> DEFINE r == Reworded(m)
  <2>1. r = [life |-> mem[m].life, conflict |-> mem[m].conflict, version |-> top[m] + 1, status |-> mem[m].status]
    BY RowSet DEF Recorded, Rowed, Fits, Reworded
  <2> HIDE DEF r
  <2>2. /\ [r EXCEPT !.life = "kept"].life = "kept" /\ [r EXCEPT !.life = "kept"].conflict = mem[m].conflict
        /\ [r EXCEPT !.life = "kept"].status = mem[m].status
    BY <2>1
  <2> QED
    BY <2>2 DEF r
<1>5. ds \subseteq Memories
  BY DEF Supersedes
<1>15. "edit" \in Commands /\ k # "none"
  BY DEF EditThenKeep
<1>16. as[2] = "kept" /\ 2 \in 1..Len(as)
  OBVIOUS
<1> HIDE DEF b0, row, as, ds
<1>6. Wrote(w, b0, m, row, as)
  BY <1>2, <1>3, WriteTold
<1> HIDE DEF w
<1>7. /\ SameAll(w, b0, {"mem", "acts"}) /\ Shape(w) /\ w.mem = [mem EXCEPT ![m] = row] /\ Told(w, {m})
      /\ w.acts[m] = as
  <2>1. Told(w, {} \cup {m}) /\ w.acts[m] = as
    BY <1>2, <1>6 DEF Wrote
  <2> QED
    BY <1>2, <1>6, <2>1 DEF Wrote, SameAll
<1> HIDE DEF k, ms, ts
<1>14. SameAll(c0, w, {"top"})
  BY <1>7, FieldNames DEF SameAll, Shape
<1> HIDE DEF c0
<1>8. SameAll(c1, c0, {"undo"}) /\ c1.undo = k
  BY <1>14, FieldNames DEF SameAll, Shape
<1> HIDE DEF c1
<1>9. SameAll(c2, c1, {"touch"}) /\ c2.touch = ms /\ Shape(c2)
  BY <1>8, FieldNames DEF SameAll, Shape
<1> HIDE DEF c2
<1>10. /\ c2.by = "person" /\ c2.of = 0 /\ c2.make = {} /\ c2.end = {} /\ c2.before = mem
       /\ c2.mem = [mem EXCEPT ![m] = row] /\ c2.acts = w.acts /\ c2.touch = {m} /\ c2.undo = k
  BY <1>2, <1>7, <1>8, <1>9, <1>14, FieldNames DEF SameAll, ms
<1>11. Told(c2, {m})
  BY <1>7, <1>10 DEF Told
<1>12. Superseded(ch, c2, ds)
  BY <1>5, <1>9, SupersedeTold
<1> HIDE DEF ch
<1>17. "kept" \in ActsOn(c2, m)
  BY <1>7, <1>10, <1>16 DEF ActsOn
<1>13. Ready(ch, {m} \cup Supersedes(m)) /\ Marking(ch, {m} \cup Supersedes(m))
  BY <1>1, <1>4, <1>10, <1>11, <1>12, <1>15, <1>17, KeptReady DEF ds
<1> QED
  BY <1>1, <1>13

\* n is the change of a verdict on m, of the given row and act.
Found(n, m, row, act) ==
    /\ SameAll(n, Change("memax"), {"mem", "acts"})
    /\ n.mem = [mem EXCEPT ![m] = row]
    /\ \A k \in Memories : n.acts[k] = IF k = m THEN <<act>> ELSE <<>>

LEMMA VerdictFound ==
    ASSUME NEW j, NEW act, NEW row
    PROVE  Found(Verdict(j, act, row), j.mem, row, act)
<1> DEFINE c0 == Change("memax")
           m == j.mem
           as == <<act>>
           n == Verdict(j, act, row)
           rs == [mem EXCEPT ![m] = row]
           ac == With(c0.acts, {m}, as)
<1>1. Shape(c0) /\ c0.mem = mem /\ c0.acts = [k \in Memories |-> <<>>]
  BY ChangeTold
<1>2. n = [[c0 EXCEPT !["mem"] = [c0.mem EXCEPT ![m] = row]] EXCEPT !["acts"] = ac]
  BY DEF Verdict, Write
<1>3. \A k \in Memories : ac[k] = IF k = m THEN c0.acts[k] \o as ELSE c0.acts[k]
  BY DEF With
<1>4. <<>> \o as = as
  <2> DEFINE D == {act}
             e == <<>>
  <2>1. as \in Seq(D) /\ as # <<>>
    BY OneAct
  <2>2. e \in Seq(D)
    OBVIOUS
  <2> HIDE DEF D, e
  <2>3. e = <<>> => e \o as = as
    BY <2>1, <2>2, Joined
  <2> QED
    BY <2>3 DEF e
<1>5. \A k \in Memories : ac[k] = IF k = m THEN as ELSE <<>>
  BY <1>1, <1>3, <1>4
<1> HIDE DEF c0, n, rs, ac, as, m
<1>6. n = [[c0 EXCEPT !["mem"] = rs] EXCEPT !["acts"] = ac]
  BY <1>1, <1>2 DEF rs
<1>7. SameAll(n, c0, {"mem", "acts"}) /\ n.mem = rs /\ n.acts = ac
  BY <1>1, <1>6, FieldNames DEF SameAll, Shape
<1> QED
  BY <1>5, <1>7 DEF Found, c0, n, rs, as, m

\* ... and says no more than that.
Bare(n, m, row, act) ==
    /\ Shape(n) /\ n.by = "memax" /\ n.by \in By /\ n.of = 0 /\ n.undo = "none" /\ n.end = {}
    /\ n.make = {} /\ n.before = mem /\ n.top = top
    /\ n.mem[m] = row /\ (\A k \in Memories \ {m} : n.mem[k] = mem[k])
    /\ act \in Deeds => Told(n, {m})

LEMMA FoundPlain ==
    ASSUME Recorded, NEW n, NEW m \in Memories, NEW row, NEW act, Found(n, m, row, act)
    PROVE  Bare(n, m, row, act)
<1> DEFINE c0 == Change("memax")
<1>1. /\ Shape(c0) /\ c0.by = "memax" /\ c0.of = 0 /\ c0.undo = "none" /\ c0.end = {} /\ c0.make = {}
      /\ c0.before = mem /\ c0.top = top
  BY ChangeTold, ChangeShape
<1> HIDE DEF c0
<1>2. SameAll(n, c0, {"mem", "acts"})
  BY DEF Found, c0
<1>3. /\ Shape(n) /\ n.by = "memax" /\ n.of = 0 /\ n.undo = "none" /\ n.end = {} /\ n.make = {}
      /\ n.before = mem /\ n.top = top
  BY <1>1, <1>2, FieldNames DEF SameAll
<1>4. n.mem[m] = row /\ (\A k \in Memories \ {m} : n.mem[k] = mem[k])
  BY DEF Found, Recorded, Rowed
<1>5. ASSUME act \in Deeds PROVE Told(n, {m})
  <2> DEFINE as == <<act>>
  <2>1. as \in Seq(Deeds) /\ as # <<>>
    BY <1>5, OneAct
  <2>2. n.acts[m] = as /\ \A k \in Memories \ {m} : n.acts[k] = <<>>
    BY DEF Found
  <2> HIDE DEF as
  <2> QED
    BY <2>1, <2>2 DEF Told
<1>6. "memax" \in By
  BY DEF By
<1> QED
  BY <1>3, <1>4, <1>5, <1>6 DEF Bare

\* A verdict that changed nothing.
LEMMA NotedReady ==
    ASSUME Recorded, NEW m \in Memories, mem[m].life \in {"proposed", "kept"},
           NEW n, Found(n, m, mem[m], "judged"), NEW ch, SameAll(ch, n, {"make"}), ch.make = {}
    PROVE  Ready(ch, {}) /\ Marking(ch, {})
<1>1. /\ n.by \in By /\ n.of = 0 /\ n.undo = "none" /\ n.mem[m] = mem[m] /\ n.end = {} /\ n.top = top
      /\ \A k \in Memories \ {m} : n.mem[k] = mem[k]
  <2>1. Bare(n, m, mem[m], "judged")
    BY FoundPlain
  <2> QED
    BY <2>1 DEF Bare
<1>2. \A k \in Memories : n.acts[k] = IF k = m THEN <<"judged">> ELSE <<>>
  BY DEF Found
<1>3. /\ ch.by = n.by /\ ch.of = n.of /\ ch.undo = n.undo /\ ch.mem = n.mem /\ ch.acts = n.acts
      /\ ch.end = n.end /\ ch.top = n.top
  BY FieldNames DEF SameAll
<1> DEFINE as == <<"judged">>
           none == {}
<1>4. \A k \in Memories : ch.acts[k] = <<>> \/ (ch.acts[k] = as /\ k = m)
  BY <1>2, <1>3
<1>5. /\ \A k : k \notin none
      /\ none \subseteq Memories
  OBVIOUS
<1>6. as = <<"judged">>
  OBVIOUS
<1> HIDE DEF as, none
<1>7. Plain(ch, none)
  <2>1. \A k \in Memories : ch.acts[k] = <<>> \/ (ch.acts[k] = <<"judged">> /\ mem[k].life \in {"proposed", "kept"})
    BY <1>4, <1>6
  <2>2. \A k \in Memories : ch.mem[k] = mem[k]
    BY <1>1, <1>3
  <2> QED
    BY <1>1, <1>3, <1>5, <2>1, <2>2 DEF Plain
<1>8. Rightful(ch, none)
  BY <1>5 DEF Rightful
<1>9. Ready(ch, none)
  BY <1>5, <1>7, <1>8 DEF Ready
<1>10. Marking(ch, none)
  BY <1>1, <1>3, <1>5 DEF Marking
<1> QED
  BY <1>9, <1>10 DEF none

LEMMA JudgeNothingReady ==
    ASSUME Recorded, NEW j \in jobs, JudgeNothing(j)
    PROVE  \E ch, ms : Ready(ch, ms) /\ Marking(ch, ms) /\ Commit(ch)
<1> DEFINE row == mem[j.mem]
           ch == Verdict(j, "judged", row)
<1>1. Eligible(j) /\ Commit(ch)
  BY DEF JudgeNothing, RecordVerdict
<1>2. j.mem \in Memories /\ mem[j.mem].life \in {"proposed", "kept"}
  BY <1>1, EligibleThere
<1>3. Found(ch, j.mem, mem[j.mem], "judged")
  BY VerdictFound
<1> HIDE DEF ch
<1>4. Shape(ch) /\ ch.make = {}
  <2>1. Bare(ch, j.mem, mem[j.mem], "judged")
    BY <1>2, <1>3, FoundPlain
  <2> QED
    BY <2>1 DEF Bare
<1>5. SameAll(ch, ch, {"make"})
  BY <1>4 DEF SameAll
<1>6. Ready(ch, {}) /\ Marking(ch, {})
  BY <1>2, <1>3, <1>4, <1>5, NotedReady
<1> QED
  BY <1>1, <1>6

LEMMA JudgeLinkReady ==
    ASSUME Recorded, NEW j \in jobs, NEW t \in Memories, JudgeLink(j, t)
    PROVE  \E ch, ms : Ready(ch, ms) /\ Marking(ch, ms) /\ Commit(ch)
<1> DEFINE m == j.mem
           row == mem[m]
           w == Verdict(j, "linked", row)
           made == {Triple("supersedes", m, t)}
           ch == [w EXCEPT !["make"] = made]
<1>1. Eligible(j) /\ Commit(ch) /\ mem[t].life = "kept"
  BY DEF JudgeLink, RecordVerdict
<1>2. m \in Memories /\ mem[m].life \in {"proposed", "kept"}
  BY <1>1, EligibleThere
<1>3. Found(w, m, row, "linked")
  BY VerdictFound
<1>4. \A u \in made : u.to = t /\ u.kind # "merged_into" /\ u.kind # "conflicts_with"
  BY DEF Triple
<1> HIDE DEF w, made, m
<1>5. /\ Shape(w) /\ w.by \in By /\ w.of = 0 /\ w.undo = "none" /\ w.mem[m] = row /\ w.end = {} /\ w.top = top
      /\ w.mem = [mem EXCEPT ![m] = row] /\ Told(w, {m}) /\ w.acts[m] = <<"linked">>
  <2>1. "linked" \in Deeds
    BY DEF Deeds
  <2>2. Bare(w, m, row, "linked")
    BY <1>2, <1>3, FoundPlain
  <2>3. w.mem = [mem EXCEPT ![m] = row] /\ w.acts[m] = <<"linked">>
    BY <1>2, <1>3 DEF Found
  <2> QED
    BY <2>1, <2>2, <2>3 DEF Bare
<1>6. SameAll(ch, w, {"make"}) /\ ch.make = made
  BY <1>5, FieldNames DEF SameAll, Shape
<1> HIDE DEF ch
<1>7. /\ ch.by \in By /\ ch.of = 0 /\ ch.undo = "none" /\ ch.mem = w.mem /\ ch.acts = w.acts
      /\ ch.end = {} /\ ch.top = top
  BY <1>5, <1>6, FieldNames DEF SameAll
<1>8. Told(ch, {m})
  BY <1>5, <1>7 DEF Told
<1>9. Moved(ch, m)
  BY <1>2, <1>5, <1>7 DEF Moved
<1>10. \A u \in ch.make : u.kind # "merged_into" /\ u.to \in Memories /\ mem[u.to].life # "forgotten"
  BY <1>1, <1>4, <1>6
<1>11. Ready(ch, {m})
  BY <1>2, <1>5, <1>7, <1>8, <1>9, <1>10, OneReady
<1>12. Marking(ch, {m})
  <2>1. row = mem[m] /\ ch.mem = [mem EXCEPT ![m] = row] /\ ch.acts[m] = <<"linked">>
    BY <1>5, <1>7 DEF m
  <2>2. \A u \in ch.make : u.kind # "merged_into" /\ u.kind # "conflicts_with"
    BY <1>4, <1>6
  <2> HIDE DEF row
  <2>3. OneMeant(ch, m, row, "linked")
    BY <1>2, <1>7, <2>1, <2>2 DEF OneMeant
  <2> QED
    BY <1>2, <2>3, OneMarked
<1> QED
  BY <1>1, <1>11, <1>12

LEMMA JudgeFoldReady ==
    ASSUME Recorded, NEW j \in jobs, NEW t \in Memories, JudgeFold(j, t)
    PROVE  \E ch, ms : Ready(ch, ms) /\ Marking(ch, ms) /\ Commit(ch)
<1> DEFINE m == j.mem
           row == Away(mem[m], "merged")
           w == Verdict(j, "merged", row)
           made == {Triple("merged_into", m, t)}
           k == "judge_fold"
           ms == {m}
           c1 == [w EXCEPT !["make"] = made]
           c2 == [c1 EXCEPT !["undo"] = k]
           ch == [c2 EXCEPT !["touch"] = ms]
<1>1. Eligible(j) /\ Commit(ch) /\ mem[t].life \in {"kept", "rejected"} /\ t # m /\ j.mode = "proposal"
  BY DEF JudgeFold, RecordVerdict
<1>2. m \in Memories /\ mem[m].life = "proposed"
  BY <1>1, EligibleThere
<1>3. Found(w, m, row, "merged")
  BY VerdictFound
<1>4. \A u \in made : u.to = t /\ u.from = m /\ u.kind = "merged_into"
  BY DEF Triple
<1>5. row.life = "merged" /\ row.status = mem[m].status
  <2>1. mem[m] \in AnyRow
    BY <1>2 DEF Recorded, Rowed, Fits
  <2> DEFINE r == mem[m]
  <2> HIDE DEF r
  <2>2. r \in AnyRow
    BY <2>1 DEF r
  <2>3. Away(r, "merged").life = "merged" /\ Away(r, "merged").status = r.status
    BY <2>2 DEF Away, AnyRow
  <2> QED
    BY <2>3 DEF r
<1>6. k # "none"
  OBVIOUS
<1> HIDE DEF w, made, m, row, k, ms
<1>7. /\ Shape(w) /\ w.by \in By /\ w.of = 0 /\ w.end = {} /\ w.before = mem /\ w.mem[m] = row
      /\ w.mem = [mem EXCEPT ![m] = row] /\ Told(w, {m}) /\ w.acts[m] = <<"merged">> /\ w.top = top
  <2>1. "merged" \in Deeds
    BY DEF Deeds
  <2>2. Bare(w, m, row, "merged")
    BY <1>2, <1>3, FoundPlain
  <2>3. w.mem = [mem EXCEPT ![m] = row] /\ w.acts[m] = <<"merged">>
    BY <1>2, <1>3 DEF Found
  <2> QED
    BY <2>1, <2>2, <2>3 DEF Bare
<1>8. SameAll(c1, w, {"make"}) /\ c1.make = made
  BY <1>7, FieldNames DEF SameAll, Shape
<1> HIDE DEF c1
<1>9. SameAll(c2, c1, {"undo"}) /\ c2.undo = k
  BY <1>8, FieldNames DEF SameAll, Shape
<1> HIDE DEF c2
<1>10. SameAll(ch, c2, {"touch"}) /\ ch.touch = ms
  BY <1>9, FieldNames DEF SameAll, Shape
<1> HIDE DEF ch
<1>11. /\ ch.by \in By /\ ch.of = 0 /\ ch.end = {} /\ ch.before = mem /\ ch.mem = w.mem /\ ch.acts = w.acts
       /\ ch.make = made /\ ch.undo = k /\ ch.top = top
  BY <1>7, <1>8, <1>9, <1>10, FieldNames DEF SameAll
<1>12. Told(ch, {m})
  BY <1>7, <1>11 DEF Told
<1>13. Moved(ch, m)
  BY <1>2, <1>5, <1>7, <1>11 DEF Moved
<1>14. /\ ch.touch = {m} /\ ch.end = {} /\ ch.before[m] = mem[m]
  BY <1>10, <1>11 DEF ms
<1>15. \A u \in ch.make :
          u.from = m /\ u.to \in Memories /\ mem[u.to].life # "forgotten" /\ u.kind = "merged_into"
  BY <1>1, <1>4, <1>11
<1>16. ch.mem = [mem EXCEPT ![m] = row] /\ ch.undo # "none"
  BY <1>6, <1>7, <1>11
<1>17. Ready(ch, {m})
  BY <1>2, <1>5, <1>11, <1>12, <1>13, <1>14, <1>15, <1>16, OneReady
<1>18. Marking(ch, {m})
  <2>1. ch.acts[m] = <<"merged">> /\ \A u \in ch.make : u.kind # "conflicts_with"
    BY <1>7, <1>11, <1>15
  <2>2. OneMeant(ch, m, row, "merged")
    BY <1>2, <1>5, <1>11, <1>14, <1>15, <1>16, <2>1 DEF OneMeant
  <2> QED
    BY <1>2, <2>2, OneMarked
<1> QED
  BY <1>1, <1>17, <1>18

LEMMA JudgeFlagReady ==
    ASSUME Recorded, NEW j \in jobs, NEW ds \in SUBSET Memories, NEW t \in Memories, NEW back \in BOOLEAN,
           JudgeFlag(j, ds, t, back)
    PROVE  \E ch, ms : Ready(ch, ms) /\ Marking(ch, ms) /\ Commit(ch)
<1> DEFINE m == j.mem
           row == mem[m]
           draft == row.life = "kept" /\ j.mode = "settling"
           fresh == IF draft THEN {} ELSE ds \ Partners(m)
           flagged == [row EXCEPT !.conflict = TRUE]
           returned == [flagged EXCEPT !.life = "proposed"]
           made == {Triple("conflicts_with", m, d) : d \in fresh}
           w0 == Verdict(j, "judged", row)
           w1 == Verdict(j, "returned", returned)
           w2 == Verdict(j, "flagged", flagged)
           c0 == [w0 EXCEPT !["make"] = made]
           c1 == [w1 EXCEPT !["make"] = made]
           c2 == [w2 EXCEPT !["make"] = made]
           ch == IF fresh = {} THEN c0 ELSE IF back THEN c1 ELSE c2
<1>1. /\ Eligible(j) /\ Commit(ch)
      /\ \A d \in ds : InForce(d)
      /\ back => Returnable(m) /\ j.mode = "kept"
      /\ \E v \in verdicts' : v.mem = m /\ v.version = j.version
  <2> DEFINE pick == CASE fresh = {} -> w0 [] fresh # {} /\ back -> w1 [] OTHER -> w2
  <2>1. Eligible(j) /\ Commit([pick EXCEPT !.make = made])
    BY DEF JudgeFlag, RecordVerdict
  <2>2. pick = IF fresh = {} THEN w0 ELSE IF back THEN w1 ELSE w2
    <3> HIDE DEF w0, w1, w2, fresh
    <3>1. CASE fresh = {}
      BY <3>1
    <3>2. CASE fresh # {} /\ back
      BY <3>2
    <3>3. CASE fresh # {} /\ ~back
      BY <3>3
    <3> QED
      BY <3>1, <3>2, <3>3
  <2>3. [pick EXCEPT !.make = made] = ch
    <3> HIDE DEF w0, w1, w2, fresh, made
    <3> QED
      BY <2>2
  <2>4. \E v \in verdicts' : v.mem = m /\ v.version = j.version
    <3> DEFINE v == [mem |-> j.mem, version |-> j.version, round |-> j.round, outcome |-> "flagged", target |-> {t}]
    <3>1. v \in verdicts'
      BY DEF JudgeFlag, RecordVerdict
    <3>2. v.mem = m /\ v.version = j.version
      OBVIOUS
    <3> HIDE DEF v
    <3> QED
      BY <3>1, <3>2
  <2> QED
    BY <2>1, <2>3, <2>4 DEF JudgeFlag
<1>2. m \in Memories /\ row.life \in {"proposed", "kept"} /\ row \in AnyRow /\ DOMAIN mem = Memories
  BY <1>1, EligibleThere DEF Recorded, Rowed, Fits
<1>3. \A u \in made : u.kind = "conflicts_with" /\ u.from = m /\ u.to \in Memories /\ mem[u.to].life # "forgotten"
  <2> TAKE u \in made
  <2>1. PICK d \in fresh : u = Triple("conflicts_with", m, d)
    OBVIOUS
  <2>2. d \in ds /\ InForce(d)
    BY <1>1
  <2>3. u.kind = "conflicts_with" /\ u.to = d /\ u.from = m
    BY <2>1 DEF Triple
  <2> QED
    BY <2>2, <2>3 DEF InForce
<1>4. fresh = {} => made = {}
  OBVIOUS
<1>5. /\ flagged.life = row.life /\ returned.life = "proposed"
      /\ returned.version = row.version /\ returned.conflict /\ returned.status = row.status
      /\ flagged.conflict /\ flagged.version = row.version /\ flagged.status = row.status
  <2> DEFINE r == row
             f == [r EXCEPT !.conflict = TRUE]
             g == [f EXCEPT !.life = "proposed"]
  <2>1. r \in AnyRow
    BY <1>2
  <2> HIDE DEF r
  <2>2. /\ f.life = r.life /\ g.life = "proposed" /\ g.version = r.version /\ g.status = r.status
        /\ f.version = r.version /\ f.status = r.status
    BY <2>1 DEF AnyRow
  <2>3. f.conflict = TRUE
    BY <2>1 DEF AnyRow
  <2>4. DOMAIN f = {"life", "conflict", "version", "status"}
    BY <2>1 DEF AnyRow
  <2> HIDE DEF f
  <2>5. g.conflict = f.conflict
    BY <2>4
  <2> QED
    BY <2>2, <2>3, <2>5 DEF f, g, r
<1>6. /\ Found(w0, m, row, "judged") /\ Found(w1, m, returned, "returned") /\ Found(w2, m, flagged, "flagged")
  BY VerdictFound
<1>14. /\ back => row.version = j.version /\ \A r \in Receipts(m) : r.by # "person"
       /\ fresh # {} => made # {}
  BY <1>1, <1>2 DEF Returnable, Eligible
<1>7. back => row.life = "kept" /\ Last(m).by = "agent" /\ Last(m).act \in {"kept", "edited"}
  BY <1>1, <1>2 DEF Returnable, Eligible
<1> HIDE DEF fresh, flagged, returned, made, w0, w1, w2, m
<1>8. Bare(w0, m, row, "judged") /\ Bare(w1, m, returned, "returned") /\ Bare(w2, m, flagged, "flagged")
  BY <1>2, <1>6, FoundPlain
<1>9. Shape(w0) /\ Shape(w1) /\ Shape(w2)
  BY <1>8 DEF Bare
<1>10. /\ SameAll(c0, w0, {"make"}) /\ c0.make = made
       /\ SameAll(c1, w1, {"make"}) /\ c1.make = made
       /\ SameAll(c2, w2, {"make"}) /\ c2.make = made
  BY <1>9, FieldNames DEF SameAll, Shape
<1> HIDE DEF c0, c1, c2
<1>11. CASE fresh = {}
  <2>1. ch = c0 /\ c0.make = {}
    BY <1>4, <1>10, <1>11
  <2>2. Ready(c0, {}) /\ Marking(c0, {})
    BY <1>2, <1>6, <1>10, <2>1, NotedReady
  <2> QED
    BY <1>1, <2>1, <2>2
<1>12. CASE fresh # {} /\ back
  <2>1. ch = c1
    BY <1>12
  <2>2. /\ w1.by = "memax" /\ w1.by \in By /\ w1.of = 0 /\ w1.undo = "none" /\ w1.mem[m] = returned /\ Told(w1, {m})
        /\ w1.end = {} /\ w1.top = top
    <3>1. "returned" \in Deeds
      BY DEF Deeds
    <3> QED
      BY <1>8, <3>1 DEF Bare
  <2>3. /\ c1.by = w1.by /\ c1.of = w1.of /\ c1.undo = w1.undo /\ c1.mem = w1.mem /\ c1.acts = w1.acts
        /\ c1.end = w1.end /\ c1.top = w1.top
    BY <1>10, FieldNames DEF SameAll
  <2>4. Told(c1, {m})
    BY <2>2, <2>3 DEF Told
  <2>5. c1.acts[m] = <<"returned">> /\ c1.mem = [mem EXCEPT ![m] = returned]
    BY <1>2, <1>6, <2>3 DEF Found
  <2>6. Moved(c1, m)
    <3>1. /\ mem[m].life = "kept" /\ c1.mem[m].life = "proposed"
          /\ c1.mem[m].version = mem[m].version
          /\ Last(m).by = "agent" /\ Last(m).act \in {"kept", "edited"}
      BY <1>5, <1>7, <1>12, <2>2, <2>3
    <3>2. c1.mem[m].conflict
      BY <1>5, <2>2, <2>3
    <3> QED
      BY <2>2, <2>3, <2>5, <3>1, <3>2 DEF Moved
  <2>7. /\ \A u \in c1.make : u.kind # "merged_into" /\ u.to \in Memories /\ mem[u.to].life # "forgotten"
        /\ \A u \in c1.make : u.kind = "conflicts_with" /\ u.from = m
        /\ c1.make # {}
    BY <1>3, <1>10, <1>12, <1>14
  <2>8. Ready(c1, {m})
    <3>1. m \in Memories /\ returned.life \notin {"none", "forgotten"} /\ mem[m].life \notin {"merged", "forgotten"}
      BY <1>2, <1>5
    <3>2. c1.by \in By /\ c1.of = 0 /\ c1.undo = "none" /\ c1.mem = [mem EXCEPT ![m] = returned]
      BY <2>2, <2>3, <2>5
    <3>3. \A u \in c1.make : u.kind # "merged_into" /\ u.to \in Memories /\ mem[u.to].life # "forgotten"
      BY <2>7
    <3> QED
      BY <2>4, <2>6, <3>1, <3>2, <3>3, OneReady
  <2>9. \E v \in verdicts' : v.mem = m /\ v.version = returned.version
    BY <1>1, <1>5, <1>12, <1>14
  <2>10. Marking(c1, {m})
    <3>1. OneMeant(c1, m, returned, "returned")
      BY <1>2, <1>5, <1>12, <1>14, <2>2, <2>3, <2>5, <2>7, <2>9 DEF OneMeant
    <3> QED
      BY <1>2, <3>1, OneMarked
  <2> QED
    BY <1>1, <2>1, <2>8, <2>10
<1>13. CASE fresh # {} /\ ~back
  <2>1. ch = c2
    BY <1>13
  <2>2. /\ w2.by \in By /\ w2.of = 0 /\ w2.undo = "none" /\ w2.mem[m] = flagged /\ Told(w2, {m})
        /\ w2.end = {} /\ w2.top = top
    <3>1. "flagged" \in Deeds
      BY DEF Deeds
    <3> QED
      BY <1>8, <3>1 DEF Bare
  <2>3. /\ c2.by = w2.by /\ c2.of = w2.of /\ c2.undo = w2.undo /\ c2.mem = w2.mem /\ c2.acts = w2.acts
        /\ c2.end = w2.end /\ c2.top = w2.top
    BY <1>10, FieldNames DEF SameAll
  <2>4. Told(c2, {m})
    BY <2>2, <2>3 DEF Told
  <2>5. c2.mem = [mem EXCEPT ![m] = flagged] /\ c2.acts[m] = <<"flagged">>
    BY <1>2, <1>6, <2>3 DEF Found
  <2>6. Moved(c2, m)
    BY <1>2, <1>5, <2>2, <2>3 DEF Moved
  <2>7. /\ \A u \in c2.make : u.kind # "merged_into" /\ u.to \in Memories /\ mem[u.to].life # "forgotten"
        /\ \A u \in c2.make : u.kind = "conflicts_with" /\ u.from = m
        /\ c2.make # {}
    BY <1>3, <1>10, <1>13, <1>14
  <2>8. Ready(c2, {m})
    <3>1. m \in Memories /\ flagged.life \notin {"none", "forgotten"} /\ mem[m].life \notin {"merged", "forgotten"}
      BY <1>2, <1>5
    <3>2. c2.by \in By /\ c2.of = 0 /\ c2.undo = "none" /\ c2.mem = [mem EXCEPT ![m] = flagged]
      BY <2>2, <2>3, <2>5
    <3>3. \A u \in c2.make : u.kind # "merged_into" /\ u.to \in Memories /\ mem[u.to].life # "forgotten"
      BY <2>7
    <3> QED
      BY <2>4, <2>6, <3>1, <3>2, <3>3, OneReady
  <2>9. Marking(c2, {m})
    <3>1. row = mem[m]
      BY DEF m
    <3> HIDE DEF row
    <3>2. OneMeant(c2, m, flagged, "flagged")
      BY <1>2, <1>5, <2>2, <2>3, <2>5, <2>7, <3>1 DEF OneMeant
    <3> QED
      BY <1>2, <3>2, OneMarked
  <2> QED
    BY <1>1, <2>1, <2>8, <2>9
<1> QED
  BY <1>11, <1>12, <1>13

----------------------------------------------------------------------------
\* Forget

\* Told, of the acts alone.
Saying(ac, ms) ==
    \A k \in Memories : (k \in ms => ac[k] \in Seq(Deeds) /\ ac[k] # <<>>) /\ (k \notin ms => ac[k] = <<>>)

LEMMA WithSaying ==
    ASSUME NEW ac, NEW ms, Saying(ac, ms), NEW ds, NEW as, as \in Seq(Deeds), as # <<>>
    PROVE  Saying(With(ac, ds, as), ms \cup ds)
<1> DEFINE n == With(ac, ds, as)
<1>1. \A k \in Memories : n[k] = IF k \in ds THEN ac[k] \o as ELSE ac[k]
  BY DEF With
<1> HIDE DEF n
<1>2. ASSUME NEW k \in Memories
      PROVE  /\ k \in ms \cup ds => n[k] \in Seq(Deeds) /\ n[k] # <<>>
             /\ k \notin ms \cup ds => n[k] = <<>>
  <2> DEFINE D == Deeds
             b == ac[k]
  <2>1. n[k] = IF k \in ds THEN b \o as ELSE b
    BY <1>1
  <2>2. (k \in ms => b \in Seq(D) /\ b # <<>>) /\ (k \notin ms => b = <<>>) /\ as \in Seq(D)
    BY DEF Saying
  <2> HIDE DEF D, b
  <2>3. <<>> \in Seq(D)
    OBVIOUS
  <2>4. b \in Seq(D)
    BY <2>2, <2>3, Zenon
  <2>5. b \o as \in Seq(D) /\ b \o as # <<>>
    BY <2>2, <2>4, Joined
  <2> QED
    BY <2>1, <2>2, <2>5 DEF D
<1> QED
  BY <1>2 DEF Saying, n

\* What goes with a Forget is there, is not forgotten yet, and takes along
\* what hangs off it.
LEMMA CarriedAlive ==
    ASSUME Typed, NEW m \in Memories, mem[m].life \notin {"none", "forgotten"}
    PROVE  /\ \A n \in Carried(m) : n \in Memories /\ mem[n].life \notin {"none", "forgotten"}
           /\ \A p \in Carried(m), n \in Memories : Carries(n, p) => n \in Carried(m)
<1> DEFINE S == {k \in Memories : mem[k].life \notin {"none", "forgotten"}}
<1>1. \A k \in Memories : mem[k].life = "none" <=> top[k] = 0
  BY Existing DEF Typed
<1>2. \A p \in S, k \in Memories : Carries(k, p) => k \in S
  BY <1>1 DEF Carries, Typed
<1>3. m \in S /\ S \in SUBSET Memories
  OBVIOUS
<1>4. ASSUME NEW n \in Carried(m) PROVE n \in S
  <2> HIDE DEF S
  <2> QED
    BY <1>2, <1>3 DEF Carried
<1>5. ASSUME NEW p \in Carried(m), NEW n \in Memories, Carries(n, p) PROVE n \in Carried(m)
  <2> SUFFICES ASSUME NEW T \in SUBSET Memories, m \in T,
                      \A q \in T, k \in Memories : Carries(k, q) => k \in T
               PROVE  n \in T
    BY DEF Carried
  <2>1. p \in T
    BY DEF Carried
  <2> QED
    BY <1>5, <2>1
<1> QED
  BY <1>4, <1>5

\* A Forget, as the change it makes.
Forgetting(ch, gone, freed) ==
    /\ Plain(ch, gone \cup freed) /\ ch.make = {} /\ ch.undo = "none"
    /\ \A t \in Active : t.kind = "conflicts_with" /\ Touches(t, gone) => t \in ch.end
    /\ gone \subseteq Memories /\ freed \subseteq Memories \ gone
    /\ \A n \in gone : mem[n].life \notin {"none", "forgotten"} /\ ch.mem[n].life = "forgotten"
    /\ \A n \in freed : mem[n].life \in {"proposed", "kept"} /\ ch.mem[n].life = mem[n].life
    /\ \A n \in freed : Partners(n) \subseteq gone
    /\ \A p \in gone, n \in Memories : Carries(n, p) => n \in gone
    /\ ch.top = top /\ \A t \in ch.end : t.kind = "conflicts_with"
    /\ \A n \in gone \cup freed : ch.mem[n].version = mem[n].version /\ ch.mem[n].status = mem[n].status

LEMMA ForgetReady ==
    ASSUME Typed, NEW m \in Memories, Forget(m)
    PROVE  \E ch, gone, freed : Forgetting(ch, gone, freed) /\ Commit(ch)
<1> DEFINE gone  == Carried(m)
           ended == {t \in Active : t.kind = "conflicts_with" /\ Touches(t, gone)}
           freed == {n \in Memories \ gone : mem[n].conflict /\ Partners(n) # {} /\ Partners(n) \subseteq gone}
           c0 == Change("person")
           rs == [n \in Memories |-> IF n \in gone THEN Away(c0.mem[n], "forgotten")
                                     ELSE IF n \in freed THEN [c0.mem[n] EXCEPT !.conflict = FALSE] ELSE c0.mem[n]]
           a1 == With(c0.acts, gone, <<"forgot">>)
           aa == With(a1, freed, <<"resolved">>)
           n1 == [c0 EXCEPT !["mem"] = rs]
           n2 == [n1 EXCEPT !["acts"] = aa]
           n3 == [n2 EXCEPT !["end"] = ended]
<1>1. Recorded /\ mem[m].life \notin {"none", "forgotten"}
  BY DEF Typed, Forget
<1>2. /\ Shape(c0) /\ c0.mem = mem /\ c0.by = "person" /\ c0.of = 0 /\ c0.make = {}
      /\ c0.undo = "none" /\ c0.acts = [k \in Memories |-> <<>>] /\ c0.top = top
  BY ChangeTold, ChangeShape
<1>3. /\ \A n \in gone : n \in Memories /\ mem[n].life \notin {"none", "forgotten"}
      /\ \A p \in gone, n \in Memories : Carries(n, p) => n \in gone
  BY <1>1, CarriedAlive
<1>4. Commit(n3)
  <2>1. Commit([c0 EXCEPT
                  !.mem = [n \in Memories |->
                              IF n \in gone THEN Away(@[n], "forgotten")
                              ELSE IF n \in freed THEN [@[n] EXCEPT !.conflict = FALSE] ELSE @[n]],
                  !.acts = With(With(@, gone, <<"forgot">>), freed, <<"resolved">>),
                  !.end = ended])
    BY DEF Forget, Freed
  <2> HIDE DEF gone, ended, freed, c0
  <2>2. n1.acts = c0.acts
    BY <1>2, FieldNames DEF Shape
  <2>3. [c0 EXCEPT
                  !.mem = [n \in Memories |->
                              IF n \in gone THEN Away(@[n], "forgotten")
                              ELSE IF n \in freed THEN [@[n] EXCEPT !.conflict = FALSE] ELSE @[n]],
                  !.acts = With(With(@, gone, <<"forgot">>), freed, <<"resolved">>),
                  !.end = ended] = n3
    BY <2>2
  <2> QED
    BY <2>1, <2>3
<1>5. rs = [n \in Memories |-> IF n \in gone THEN Away(mem[n], "forgotten")
                               ELSE IF n \in freed THEN [mem[n] EXCEPT !.conflict = FALSE] ELSE mem[n]]
  BY <1>2
<1>6. Saying(aa, gone \cup freed)
  <2>1. "forgot" \in Deeds /\ "resolved" \in Deeds
    BY DEF Deeds
  <2> DEFINE x == <<"forgot">>
             y == <<"resolved">>
             none == {}
  <2>2. x \in Seq(Deeds) /\ x # <<>> /\ y \in Seq(Deeds) /\ y # <<>>
    BY <2>1, OneAct
  <2>3. Saying(c0.acts, none)
    BY <1>2 DEF Saying
  <2> HIDE DEF x, y, none, gone, freed, c0
  <2>4. Saying(With(c0.acts, gone, x), none \cup gone)
    BY <2>2, <2>3, WithSaying
  <2>5. none \cup gone = gone
    BY DEF none
  <2>6. Saying(With(With(c0.acts, gone, x), freed, y), gone \cup freed)
    BY <2>2, <2>4, <2>5, WithSaying
  <2> QED
    BY <2>6 DEF x, y
<1>7. /\ \A t \in Active : t.kind = "conflicts_with" /\ Touches(t, gone) => t \in ended
      /\ freed \subseteq Memories \ gone /\ \A n \in freed : mem[n].conflict /\ Partners(n) \subseteq gone
      /\ \A t \in ended : t.kind = "conflicts_with"
  OBVIOUS
<1>8. gone \subseteq Memories
  BY <1>3
<1> HIDE DEF c0, gone, ended, freed, rs, aa
<1>9. SameAll(n1, c0, {"mem"}) /\ n1.mem = rs
  BY <1>2, FieldNames DEF SameAll, Shape
<1> HIDE DEF n1
<1>10. SameAll(n2, n1, {"acts"}) /\ n2.acts = aa
  BY <1>9, FieldNames DEF SameAll, Shape
<1> HIDE DEF n2
<1>11. SameAll(n3, n2, {"end"}) /\ n3.end = ended
  BY <1>10, FieldNames DEF SameAll, Shape
<1> HIDE DEF n3
<1>12. /\ n3.by = "person" /\ n3.of = 0 /\ n3.make = {} /\ n3.undo = "none" /\ n3.end = ended
       /\ n3.mem = rs /\ n3.acts = aa /\ n3.top = top
  BY <1>2, <1>9, <1>10, <1>11, FieldNames DEF SameAll
<1>17. ASSUME NEW n \in gone \cup freed PROVE rs[n].version = mem[n].version /\ rs[n].status = mem[n].status
  <2> DEFINE r == mem[n]
  <2>1. n \in Memories /\ r \in AnyRow
    BY <1>1, <1>7, <1>8 DEF Recorded, Rowed, Fits
  <2>2. rs[n] = Away(r, "forgotten") \/ rs[n] = [r EXCEPT !.conflict = FALSE] \/ rs[n] = r
    BY <1>5, <2>1
  <2> HIDE DEF r
  <2>3. /\ Away(r, "forgotten").version = r.version /\ Away(r, "forgotten").status = r.status
        /\ [r EXCEPT !.conflict = FALSE].version = r.version /\ [r EXCEPT !.conflict = FALSE].status = r.status
    BY <2>1 DEF Away, AnyRow
  <2>4. rs[n].version = r.version /\ rs[n].status = r.status
    BY <2>2, <2>3
  <2> QED
    BY <2>4 DEF r
<1>13. ASSUME NEW n \in gone PROVE rs[n].life = "forgotten"
  <2>1. n \in Memories /\ mem[n].life # "none" /\ Fits(mem[n], top[n]) /\ top[n] \in Nat
    BY <1>1, <1>3, Existing
  <2>2. Away(mem[n], "forgotten").life = "forgotten"
    BY <2>1, AwayFits DEF Lifecycles
  <2> QED
    BY <1>5, <2>1, <2>2
<1>14. ASSUME NEW n \in freed PROVE rs[n].life = mem[n].life /\ mem[n].life \in {"proposed", "kept"}
  <2>1. n \in Memories /\ n \notin gone /\ mem[n].conflict /\ Fits(mem[n], top[n]) /\ top[n] \in Nat
    BY <1>1, <1>7, Existing
  <2>2. mem[n].life \in {"proposed", "kept"}
    BY <2>1 DEF Fits
  <2>3. [mem[n] EXCEPT !.conflict = FALSE].life = mem[n].life
    BY <2>1, RowKept
  <2> QED
    BY <1>5, <2>1, <2>2, <2>3
<1>15. Plain(n3, gone \cup freed)
  <2> DEFINE ms == gone \cup freed
  <2>1. ms \subseteq Memories /\ \A n \in ms : rs[n].life # "none"
    BY <1>7, <1>8, <1>13, <1>14
  <2>2. \A n \in Memories \ ms : rs[n] = mem[n]
    BY <1>5
  <2>3. /\ \A n \in ms : aa[n] \in Seq(Deeds) /\ aa[n] # <<>>
        /\ \A n \in Memories \ ms : aa[n] = <<>>
    BY <1>6, <2>1 DEF Saying
  <2>4. "person" \in By
    BY DEF By
  <2> HIDE DEF ms
  <2>5. Plain(n3, ms)
    BY <1>12, <2>1, <2>2, <2>3, <2>4 DEF Plain
  <2> QED
    BY <2>5 DEF ms
<1>16. Forgetting(n3, gone, freed)
  BY <1>3, <1>7, <1>8, <1>12, <1>13, <1>14, <1>15, <1>17 DEF Forgetting
<1> QED
  BY <1>4, <1>16

LEMMA ForgetHanging ==
    ASSUME Recorded, Streams, Hanging, NEW ch, NEW gone, NEW freed, Forgetting(ch, gone, freed), Commit(ch)
    PROVE  Hanging'
<1> DEFINE n == Len(journal) + 1
           ms == gone \cup freed
<1>1. Added(ch, ms)
  BY PlainAdds DEF Forgetting
<1>2. Len(journal') = n /\ Len(journal) \in Nat /\ mem' = ch.mem
  BY <1>1 DEF Added
<1>3. \A m \in Memories \ gone : mem'[m].life = mem[m].life
  <2>1. \A m \in Memories \ ms : mem'[m] = mem[m]
    BY <1>2 DEF Forgetting, Plain
  <2>2. \A m \in freed : mem'[m].life = mem[m].life
    BY <1>2 DEF Forgetting
  <2> QED
    BY <2>1, <2>2
<1>4. \A m \in gone : mem[m].life # "forgotten" /\ mem'[m].life = "forgotten"
  BY <1>2 DEF Forgetting
<1>5. \A l \in links' : l \in links /\ Of(l) \notin ch.end
  BY NewLinks DEF Forgetting
<1>6. ASSUME NEW l \in links, Of(l) \notin ch.end, l.kind = "conflicts_with" PROVE mem'[l.to].life # "forgotten"
  <2>1. l.from \in Memories /\ l.to \in Memories
    BY LinkThere
  <2>2. mem[l.to].life # "forgotten"
    BY <1>6 DEF Hanging
  <2>3. l.to \notin gone
    <3>1. Of(l) \in Active /\ Of(l).kind = "conflicts_with" /\ Of(l).to = l.to
      BY <1>6 DEF Active, Of, Triple
    <3> QED
      BY <1>6, <3>1 DEF Forgetting, Touches
  <2> QED
    BY <1>3, <2>1, <2>2, <2>3
<1>7. ASSUME NEW l \in links, l.kind = "merged_into"
      PROVE  /\ mem'[l.from].life \in {"merged", "forgotten"}
             /\ Stood(l.cmd)' /\ l.from \in journal'[l.cmd].touch
             /\ mem'[l.to].life = "forgotten" => mem'[l.from].life = "forgotten"
             /\ \A c \in 1..Len(journal') : l.cmd < c /\ Undoing(c)' => l.from \notin journal'[c].touch
  <2>1. l.from \in Memories /\ l.to \in Memories /\ l.cmd \in 1..Len(journal)
    BY LinkThere
  <2>2. /\ mem[l.from].life \in {"merged", "forgotten"}
        /\ Stood(l.cmd) /\ l.from \in journal[l.cmd].touch
        /\ mem[l.to].life = "forgotten" => mem[l.from].life = "forgotten"
        /\ \A c \in 1..Len(journal) : l.cmd < c /\ Undoing(c) => l.from \notin journal[c].touch
    BY <1>7 DEF Hanging
  <2>3. mem'[l.from].life \in {"merged", "forgotten"}
    BY <1>3, <1>4, <2>1, <2>2
  <2>4. journal'[l.cmd] = journal[l.cmd]
    BY <1>1, <2>1 DEF Added
  <2>5. Stood(l.cmd)' /\ l.from \in journal'[l.cmd].touch
    BY <1>2, <2>1, <2>2, <2>4 DEF Stood, Undoing
  <2>6. ASSUME mem'[l.to].life = "forgotten" PROVE mem'[l.from].life = "forgotten"
    <3>1. CASE l.to \notin gone
      <4>1. mem[l.from].life = "forgotten"
        BY <1>3, <2>1, <2>2, <2>6, <3>1
      <4> QED
        BY <1>3, <1>4, <2>1, <4>1
    <3>2. CASE l.to \in gone
      <4>1. CASE mem[l.from].life = "forgotten"
        BY <1>3, <1>4, <2>1, <4>1
      <4>2. CASE mem[l.from].life = "merged"
        <5>1. Triple("merged_into", l.from, l.to) \in Active
          BY <1>7 DEF Active, Of
        <5>2. Carries(l.from, l.to)
          BY <4>2, <5>1 DEF Carries
        <5>3. l.from \in gone
          BY <2>1, <3>2, <5>2 DEF Forgetting
        <5> QED
          BY <1>4, <5>3
      <4> QED
        BY <2>2, <4>1, <4>2
    <3> QED
      BY <3>1, <3>2
  <2>7. ASSUME NEW c \in 1..Len(journal'), l.cmd < c, Undoing(c)' PROVE l.from \notin journal'[c].touch
    <3>1. CASE c \in 1..Len(journal)
      <4>1. journal'[c] = journal[c]
        BY <1>1, <3>1 DEF Added
      <4> QED
        BY <2>2, <2>7, <3>1, <4>1 DEF Undoing
    <3>2. CASE c = n
      BY <1>1, <2>7, <3>2 DEF Added, Undoing, Forgetting
    <3> QED
      BY <1>2, <3>1, <3>2
  <2> QED
    BY <2>3, <2>5, <2>6, <2>7
<1> QED
  BY <1>5, <1>6, <1>7 DEF Hanging

LEMMA ForgetExact ==
    ASSUME Inv, Inv', Exact, NEW ch, NEW gone, NEW freed, Forgetting(ch, gone, freed), Commit(ch)
    PROVE  Exact' /\ \A k \in Memories : L!Guarded(k)
<1>1. Typed /\ Recorded /\ Recorded' /\ Streams /\ Touched /\ AsLeft /\ Chained /\ Hanging
  BY DEF Inv, Typed, Exact
<1> DEFINE ms == gone \cup freed
<1>3. Plain(ch, ms)
  BY DEF Forgetting
<1>4. \A k \in ms : Moved(ch, k)
  BY DEF Forgetting, Moved
<1>5. Hanging'
  BY <1>1, ForgetHanging
<1> HIDE DEF ms
<1>6. Streams'
  BY <1>1, <1>3, PlainStreams
<1>7. Touched' /\ AsLeft' /\ Chained'
  BY <1>1, <1>3, PlainTouched, PlainAsLeft, PlainChained
<1>8. \A k \in Memories : L!Guarded(k)
  BY <1>1, <1>3, <1>4, PlainPasses
<1> QED
  BY <1>5, <1>6, <1>7, <1>8 DEF Exact

----------------------------------------------------------------------------
\* Undo

\* An Undo of c, as the change it makes;
Restoring(ch, c) ==
    /\ ch.by = "person" /\ ch.of = c /\ ch.undo = "none" /\ ch.touch = {}
    /\ ch.make = journal[c].ended /\ ch.end = journal[c].made
    /\ ch.mem = [m \in Memories |-> IF m \in journal[c].touch THEN journal[c].before[m] ELSE mem[m]]
    /\ ch.acts = With([m \in Memories |-> <<>>], journal[c].touch, <<"undid">>)
    /\ ch.top = top
    /\ \A m \in journal[c].touch :
          journal[c].before[m].life = "proposed" /\ mem[m].life # "proposed" => Rejudge(c, m) \subseteq ch.queue

\* ... and where it brings no conflict back.
Reverting(ch, c) == Restoring(ch, c) /\ ch.make = {}

LEMMA UndoRestores ==
    ASSUME NEW c \in 1..Len(journal), Undo(c)
    PROVE  \E ch : Restoring(ch, c) /\ Commit(ch)
<1> DEFINE e == journal[c]
           again == {m \in e.touch : e.before[m].life = "proposed" /\ mem[m].life # "proposed"}
           c0 == Change("person")
           rs == [m \in Memories |-> IF m \in e.touch THEN e.before[m] ELSE c0.mem[m]]
           aa == With(c0.acts, e.touch, <<"undid">>)
           ends == e.made
           made == e.ended
           qq == UNION {Rejudge(c, m) : m \in again}
           n1 == [c0 EXCEPT !["mem"] = rs]
           n2 == [n1 EXCEPT !["acts"] = aa]
           n3 == [n2 EXCEPT !["of"] = c]
           n4 == [n3 EXCEPT !["end"] = ends]
           n5 == [n4 EXCEPT !["make"] = made]
           n6 == [n5 EXCEPT !["queue"] = qq]
<1>2. /\ Shape(c0) /\ c0.mem = mem /\ c0.by = "person" /\ c0.undo = "none" /\ c0.touch = {}
      /\ c0.acts = [m \in Memories |-> <<>>] /\ c0.top = top
  BY ChangeTold, ChangeShape
<1>4. Commit(n6)
  <2>1. Commit([c0 EXCEPT !.mem = rs, !.acts = With(@, e.touch, <<"undid">>), !.of = c, !.end = ends, !.make = made,
                          !.queue = qq])
    BY DEF Undo
  <2> HIDE DEF rs, ends, made, qq, c0
  <2>2. n1.acts = c0.acts
    BY <1>2, FieldNames DEF Shape
  <2>3. [c0 EXCEPT !.mem = rs, !.acts = With(@, e.touch, <<"undid">>), !.of = c, !.end = ends, !.make = made,
                   !.queue = qq] = n6
    BY <2>2
  <2> QED
    BY <2>1, <2>3
<1>5. /\ rs = [m \in Memories |-> IF m \in journal[c].touch THEN journal[c].before[m] ELSE mem[m]]
      /\ aa = With([m \in Memories |-> <<>>], journal[c].touch, <<"undid">>)
      /\ ends = journal[c].made /\ made = journal[c].ended
  BY <1>2
<1>13. \A m \in e.touch : e.before[m].life = "proposed" /\ mem[m].life # "proposed" => Rejudge(c, m) \subseteq qq
  OBVIOUS
<1> HIDE DEF c0, rs, aa
<1>6. SameAll(n1, c0, {"mem"}) /\ n1.mem = rs
  BY <1>2, FieldNames DEF SameAll, Shape
<1> HIDE DEF n1
<1>7. SameAll(n2, n1, {"acts"}) /\ n2.acts = aa
  BY <1>6, FieldNames DEF SameAll, Shape
<1> HIDE DEF n2
<1>8. SameAll(n3, n2, {"of"}) /\ n3.of = c
  BY <1>7, FieldNames DEF SameAll, Shape
<1> HIDE DEF n3, ends, made, qq
<1>9. SameAll(n4, n3, {"end"}) /\ n4.end = ends
  BY <1>8, FieldNames DEF SameAll, Shape
<1> HIDE DEF n4
<1>10. SameAll(n5, n4, {"make"}) /\ n5.make = made
  BY <1>9, FieldNames DEF SameAll, Shape
<1> HIDE DEF n5
<1>11. SameAll(n6, n5, {"queue"}) /\ n6.queue = qq
  BY <1>10, FieldNames DEF SameAll, Shape
<1> HIDE DEF n6
<1>12. /\ n6.by = "person" /\ n6.undo = "none" /\ n6.touch = {} /\ n6.of = c /\ n6.make = made /\ n6.end = ends
       /\ n6.mem = rs /\ n6.acts = aa /\ n6.top = top
  BY <1>2, <1>6, <1>7, <1>8, <1>9, <1>10, <1>11, FieldNames DEF SameAll
<1> QED
  BY <1>4, <1>5, <1>11, <1>12, <1>13 DEF Restoring

LEMMA UndoReverts ==
    ASSUME Touched, NEW c \in 1..Len(journal), Undo(c)
    PROVE  \E ch : Reverting(ch, c) /\ Commit(ch)
<1>1. PICK ch : Restoring(ch, c) /\ Commit(ch)
  BY UndoRestores
<1>2. Undoing(c)
  BY DEF Undo, Undoable, Undoing
<1>3. ch.make = {}
  BY <1>1, <1>2 DEF Restoring, Touched
<1> QED
  BY <1>1, <1>3 DEF Reverting

\* What is there after it: the entry c is marked, an entry no Undo can name
\* is added, the links c made are gone, and the memories it wrote are as they
\* were, with a receipt that says so.
Alike(a, b) == a.kind = b.kind /\ a.touch = b.touch /\ a.made = b.made /\ a.ended = b.ended
               /\ a.before = b.before /\ a.after = b.after

Reverted(c) ==
    /\ Len(journal) \in Nat /\ Len(journal') = Len(journal) + 1
    /\ \A d \in 1..Len(journal) : Alike(journal'[d], journal[d])
    /\ \A d \in 1..Len(journal) : journal'[d].undone <=> journal[d].undone \/ d = c
    /\ journal'[Len(journal) + 1].kind = "none"
    /\ \A l \in links' : l \in links /\ Of(l) \notin journal[c].made
    /\ hist' = [m \in Memories |-> hist'[m]]
    /\ \A m \in Memories : IF m \in journal[c].touch THEN mem'[m] = journal[c].before[m] ELSE mem'[m] = mem[m]

Marks(c, m) ==
    /\ hist'[m] \in Seq(AnyReceipt) /\ hist[m] \in Seq(AnyReceipt)
    /\ hist[m] = SubSeq(hist'[m], 1, Len(hist[m]))
    /\ \A i \in 1..Len(hist[m]) : hist'[m][i] = hist[m][i]
    /\ \A r \in Receipts(m) : r \in Receipts(m)' /\ r \in AnyReceipt
    /\ m \notin journal[c].touch => hist'[m] = hist[m]
    /\ m \in journal[c].touch =>
          /\ Len(hist'[m]) = Len(hist[m]) + 1
          /\ hist'[m][Len(hist[m]) + 1] = Receipt(Len(journal) + 1, "person", "undid", c)
          /\ \A r \in Receipts(m)' : r \in Receipts(m) \/ (r.cmd = Len(journal) + 1 /\ r.of = c /\ r.act = "undid")

LEMMA RevertReverts ==
    ASSUME Recorded, NEW c \in 1..Len(journal), NEW ch, Reverting(ch, c), Commit(ch)
    PROVE  Reverted(c)
<1>1. ch.of = c /\ c \in 0..Len(journal) /\ Len(journal) \in Nat
  BY DEF Reverting, Restoring, Recorded
<1>2. Len(journal') = Len(journal) + 1
  BY <1>1, Journalled
<1>3. ASSUME NEW d \in 1..Len(journal)
      PROVE  Alike(journal'[d], journal[d]) /\ (journal'[d].undone <=> journal[d].undone \/ d = c)
  <2> DEFINE e == journal[d]
             n == [e EXCEPT !.undone = TRUE]
  <2>1. DOMAIN e = EntryFields
    BY DEF Recorded, Entry
  <2>2. journal'[d] = IF d = c THEN n ELSE e
    BY <1>1, Journalled
  <2> HIDE DEF e
  <2>3. Alike(n, e) /\ n.undone
    BY <2>1 DEF EntryFields, Alike
  <2>4. Alike(e, e)
    BY DEF Alike
  <2> HIDE DEF n
  <2>5. CASE d = c
    BY <2>2, <2>3, <2>5 DEF e
  <2>6. CASE d # c
    BY <2>2, <2>4, <2>6 DEF e
  <2> QED
    BY <2>5, <2>6
<1>4. journal'[Len(journal) + 1].kind = "none"
  <2> DEFINE x == journal'[Len(journal) + 1]
             b == [m \in ch.touch |-> ch.before[m]]
             a == [m \in ch.touch |-> ch.mem[m]]
             made == ch.make \ Active
  <2>2. x = [kind |-> ch.undo, touch |-> ch.touch, undone |-> FALSE, made |-> made, ended |-> ch.end,
             before |-> b, after |-> a]
    BY <1>1, Journalled
  <2> HIDE DEF x, a, b, made
  <2>3. x.kind = ch.undo
    BY <2>2
  <2>1. journal'[Len(journal) + 1].kind = ch.undo
    BY <2>3 DEF x
  <2> QED
    BY <2>1 DEF Reverting, Restoring
<1>5. \A l \in links' : l \in links /\ Of(l) \notin journal[c].made
  BY NewLinks DEF Reverting, Restoring
<1>6. mem' = [m \in Memories |-> IF m \in journal[c].touch THEN journal[c].before[m] ELSE mem[m]]
  BY DEF Reverting, Restoring, Commit
<1>7. \A m \in Memories : IF m \in journal[c].touch THEN mem'[m] = journal[c].before[m] ELSE mem'[m] = mem[m]
  BY <1>6
<1>8. hist' = [m \in Memories |-> hist'[m]]
  BY DEF Commit
<1> QED
  BY <1>1, <1>2, <1>3, <1>4, <1>5, <1>7, <1>8 DEF Reverted

LEMMA RevertMarks ==
    ASSUME Recorded, Streams, NEW c \in 1..Len(journal), NEW ch, Reverting(ch, c), Commit(ch), NEW m \in Memories
    PROVE  Marks(c, m)
<1>1. ch.of = c /\ ch.of \in 0..Len(journal) /\ ch.by = "person" /\ ch.by \in By
  BY DEF Reverting, Restoring, By, Recorded
<1>2. ch.acts[m] = IF m \in journal[c].touch THEN <<>> \o <<"undid">> ELSE <<>>
  BY DEF Reverting, Restoring, With
<1> DEFINE u == <<"undid">>
           none == <<>>
           D == Deeds \cup Notes
<1>3. u \in Seq(D) /\ u # none /\ none \in Seq(D) /\ Len(u) = 1 /\ u[1] = "undid"
  BY DEF Notes
<1>4. ch.acts[m] = IF m \in journal[c].touch THEN u ELSE none
  <2>1. none \o u = u
    OBVIOUS
  <2> QED
    BY <1>2, <2>1
<1>5. ch.acts[m] \in Seq(D)
  BY <1>3, <1>4
<1>6. ActsOn(ch, m) = {} \/ ActsOn(ch, m) = {"undid"}
  BY <1>3, <1>4 DEF ActsOn
<1>7. /\ hist'[m] \in Seq(AnyReceipt)
      /\ Len(hist'[m]) = Len(hist[m]) + Len(ch.acts[m])
      /\ \A i \in 1..Len(hist[m]) : hist'[m][i] = hist[m][i]
      /\ \A i \in 1..Len(ch.acts[m]) :
            hist'[m][Len(hist[m]) + i] = Receipt(Len(journal) + 1, ch.by, ch.acts[m][i], ch.of)
      /\ ch.acts[m] = <<>> => hist'[m] = hist[m]
  BY <1>1, <1>5, Streamed
<1>8. /\ \A r \in Receipts(m) : r \in Receipts(m)' /\ r \in AnyReceipt
      /\ \A r \in Receipts(m)' :
            \/ r \in Receipts(m)
            \/ r.cmd = Len(journal) + 1 /\ r.of = ch.of /\ r.act \in ActsOn(ch, m)
  BY <1>1, <1>5, NewReceipts
<1>9. hist[m] = SubSeq(hist'[m], 1, Len(hist[m]))
  BY <1>1, <1>5, Prefixed
<1>10. hist[m] \in Seq(AnyReceipt)
  BY DEF Streams
<1>11. CASE m \notin journal[c].touch
  BY <1>4, <1>7, <1>8, <1>9, <1>10, <1>11 DEF Marks
<1>12. CASE m \in journal[c].touch
  <2>1. ch.acts[m] = u
    BY <1>4, <1>12
  <2> HIDE DEF u
  <2>2. Len(ch.acts[m]) = 1 /\ ch.acts[m][1] = "undid"
    BY <1>3, <2>1
  <2>3. Len(hist'[m]) = Len(hist[m]) + 1
    BY <1>7, <2>2
  <2>4. hist'[m][Len(hist[m]) + 1] = Receipt(Len(journal) + 1, "person", "undid", c)
    BY <1>1, <1>7, <2>2
  <2>5. \A r \in Receipts(m)' : r \in Receipts(m) \/ (r.cmd = Len(journal) + 1 /\ r.of = c /\ r.act = "undid")
    BY <1>1, <1>6, <1>8
  <2> QED
    BY <1>7, <1>8, <1>9, <1>10, <1>12, <2>3, <2>4, <2>5 DEF Marks
<1> QED
  BY <1>11, <1>12

\* What an Undo looks at first: what it would write to was left alone.
LEMMA UndoableFacts ==
    ASSUME Recorded, NEW c \in 1..Len(journal), Undoable(c)
    PROVE  /\ Undoing(c) /\ Stood(c) /\ journal[c].touch \subseteq Memories
           /\ \A m \in journal[c].touch :
                 /\ mem[m].life # "forgotten" /\ ~LaterChange(c, m)
                 /\ CanRestore(mem[m].life, journal[c].before[m].life)
                 /\ journal[c].before[m].life # "none"
<1>1. Entry(top, journal[c])
  BY DEF Recorded
<1>2. journal[c].touch \subseteq Memories /\ \A m \in journal[c].touch : journal[c].before[m].life # "none"
  BY <1>1 DEF Entry
<1>3. /\ Undoing(c) /\ Stood(c)
      /\ \A m \in journal[c].touch :
            /\ mem[m].life # "forgotten" /\ ~LaterChange(c, m)
            /\ CanRestore(mem[m].life, journal[c].before[m].life)
  BY DEF Undoable, Undoing, Stood
<1> QED
  BY <1>2, <1>3

\* No command that stands wrote to them since.
LEMMA NoLaterDeed ==
    ASSUME Recorded, Touched, NEW c \in 1..Len(journal), Undoable(c), NEW m \in journal[c].touch,
           NEW d \in 1..Len(journal), Stood(d), m \in journal[d].touch
    PROVE  ~(d > c)
<1>1. m \in Memories /\ ~LaterChange(c, m)
  BY UndoableFacts
<1>2. Undoing(d) /\ ~journal[d].undone
  BY DEF Stood
<1>3. PICK r \in Receipts(m) : r.cmd = d
  BY <1>1, <1>2 DEF Touched
<1>4. r.act \in Deeds
  BY <1>1, <1>2, <1>3 DEF Touched
<1>5. r.act \notin {"judged", "drafted"} /\ r.act # "undid"
  BY <1>4 DEF Deeds
<1> QED
  BY <1>1, <1>2, <1>3, <1>5 DEF LaterChange

LEMMA UndoStreams ==
    ASSUME Recorded, Streams, NEW c \in 1..Len(journal), Undoable(c), Reverted(c), \A m \in Memories : Marks(c, m)
    PROVE  Streams'
<1> DEFINE n == Len(journal) + 1
<1>1. Len(journal) \in Nat /\ Len(journal') = n /\ hist' = [m \in Memories |-> hist'[m]]
  BY DEF Reverted
<1>2. hist' \in [Memories -> Seq(AnyReceipt)]
  <2>1. \A m \in Memories : hist'[m] \in Seq(AnyReceipt)
    BY DEF Marks
  <2> DEFINE S == Seq(AnyReceipt)
             h == hist'
  <2>2. h = [m \in Memories |-> h[m]] /\ \A m \in Memories : h[m] \in S
    BY <1>1, <2>1
  <2> HIDE DEF S, h
  <2>3. h \in [Memories -> S]
    BY <2>2
  <2> QED
    BY <2>3 DEF S, h
<1>3. journal'[c].undone /\ \A d \in 1..Len(journal) : journal[d].undone => journal'[d].undone
  BY DEF Reverted
<1>4. ASSUME NEW m \in Memories
      PROVE  /\ mem'[m].life = "none" <=> hist'[m] = <<>>
             /\ \A r \in Receipts(m)' :
                   /\ r.cmd <= Len(journal')
                   /\ r.act = "undid" => r.of \in 1..Len(journal') /\ journal'[r.of].undone
  <2>1. /\ mem[m].life = "none" <=> hist[m] = <<>>
        /\ \A r \in Receipts(m) :
              r.cmd <= Len(journal) /\ (r.act = "undid" => r.of \in 1..Len(journal) /\ journal[r.of].undone)
    BY DEF Streams
  <2>2. Marks(c, m)
    OBVIOUS
  <2>3. \A r \in Receipts(m) : r.cmd \in Nat
    BY <2>2 DEF Marks, AnyReceipt
  <2>4. \A r \in Receipts(m) :
           r.cmd <= n /\ (r.act = "undid" => r.of \in 1..n /\ journal'[r.of].undone)
    BY <1>1, <1>3, <2>1, <2>3
  <2>5. \A r \in Receipts(m)' : r \in Receipts(m) \/ (r.cmd = n /\ r.of = c)
    <3>1. CASE m \in journal[c].touch
      BY <2>2, <3>1 DEF Marks
    <3>2. CASE m \notin journal[c].touch
      <4>1. hist'[m] = hist[m]
        BY <2>2, <3>2 DEF Marks
      <4> QED
        BY <4>1 DEF Receipts
    <3> QED
      BY <3>1, <3>2
  <2>6. c \in 1..n /\ n <= n
    BY <1>1
  <2>7. \A r \in Receipts(m)' :
           r.cmd <= n /\ (r.act = "undid" => r.of \in 1..n /\ journal'[r.of].undone)
    BY <1>3, <2>4, <2>5, <2>6
  <2>8. mem'[m].life = "none" <=> hist'[m] = <<>>
    <3>1. CASE m \notin journal[c].touch
      BY <2>1, <2>2, <3>1 DEF Marks, Reverted
    <3>2. CASE m \in journal[c].touch
      <4>1. mem'[m].life # "none"
        BY <3>2, UndoableFacts DEF Reverted
      <4>2. Len(hist'[m]) = Len(hist[m]) + 1 /\ hist[m] \in Seq(AnyReceipt)
        BY <2>2, <3>2 DEF Marks
      <4>3. Len(hist[m]) \in Nat
        BY <4>2, LenProperties
      <4>4. Len(hist'[m]) # 0
        BY <4>2, <4>3
      <4>5. hist'[m] # <<>>
        BY <4>4
      <4> QED
        BY <4>1, <4>5
    <3> QED
      BY <3>1, <3>2
  <2> QED
    BY <1>1, <2>7, <2>8
<1> QED
  BY <1>2, <1>4 DEF Streams

\* What may be undone after it could be undone before it, and is not c.
LEMMA StillThere ==
    ASSUME NEW c \in 1..Len(journal), Reverted(c), NEW d \in 1..Len(journal')
    PROVE  /\ Undoing(d)' => d \in 1..Len(journal) /\ Undoing(d) /\ Alike(journal'[d], journal[d])
           /\ Stood(d)' => d # c /\ Stood(d)
<1>1. Len(journal) \in Nat /\ Len(journal') = Len(journal) + 1 /\ journal'[Len(journal) + 1].kind = "none"
  BY DEF Reverted
<1>2. CASE d = Len(journal) + 1
  BY <1>1, <1>2 DEF Undoing, Stood
<1>3. CASE d # Len(journal) + 1
  <2>1. d \in 1..Len(journal)
    BY <1>1, <1>3
  <2>2. Alike(journal'[d], journal[d]) /\ (journal'[d].undone <=> journal[d].undone \/ d = c)
    BY <2>1 DEF Reverted
  <2>3. journal'[d].kind = journal[d].kind
    BY <2>2 DEF Alike
  <2> QED
    BY <1>1, <2>1, <2>2, <2>3 DEF Undoing, Stood
<1> QED
  BY <1>2, <1>3

LEMMA UndoTouched ==
    ASSUME Recorded, Streams, Touched, NEW c \in 1..Len(journal), Undoable(c), Reverted(c),
           \A m \in Memories : Marks(c, m)
    PROVE  Touched'
<1> SUFFICES ASSUME NEW d \in 1..Len(journal'), Undoing(d)'
             PROVE  /\ journal'[d].ended = {}
                    /\ \A m \in Memories :
                          /\ m \in journal'[d].touch <=> \E r \in Receipts(m)' : r.cmd = d
                          /\ \A r \in Receipts(m)' : r.cmd = d => r.act \in Deeds
                    /\ \A m \in journal'[d].touch :
                          \/ journal'[d].before[m].life \in {"proposed", "kept"}
                          \/ journal'[d].before[m].life = "rejected" /\ hist'[m][1].cmd = d
  BY DEF Touched
<1>1. d \in 1..Len(journal) /\ Undoing(d) /\ Alike(journal'[d], journal[d])
  BY StillThere
<1>2. /\ journal[d].ended = {}
      /\ \A m \in Memories :
            /\ m \in journal[d].touch <=> \E r \in Receipts(m) : r.cmd = d
            /\ \A r \in Receipts(m) : r.cmd = d => r.act \in Deeds
      /\ \A m \in journal[d].touch :
            \/ journal[d].before[m].life \in {"proposed", "kept"}
            \/ journal[d].before[m].life = "rejected" /\ hist[m][1].cmd = d
  BY <1>1 DEF Touched
<1>3. /\ journal'[d].ended = journal[d].ended /\ journal'[d].touch = journal[d].touch
      /\ journal'[d].before = journal[d].before
  BY <1>1 DEF Alike
<1>4. d # Len(journal) + 1
  BY <1>1 DEF Reverted
<1>5. ASSUME NEW m \in Memories
      PROVE  \A r : r.cmd = d => (r \in Receipts(m)' <=> r \in Receipts(m))
  <2>1. Marks(c, m)
    OBVIOUS
  <2>2. CASE m \in journal[c].touch
    BY <1>4, <2>1, <2>2 DEF Marks
  <2>3. CASE m \notin journal[c].touch
    <3>1. hist'[m] = hist[m]
      BY <2>1, <2>3 DEF Marks
    <3> QED
      BY <3>1 DEF Receipts
  <2> QED
    BY <2>2, <2>3
<1>6. ASSUME NEW m \in journal[d].touch PROVE hist'[m][1] = hist[m][1]
  <2>1. m \in Memories
    BY <1>1 DEF Recorded, Entry
  <2>2. \E r \in Receipts(m) : r.cmd = d
    BY <1>2, <1>6, <2>1
  <2>3. hist[m] \in Seq(AnyReceipt) /\ \A i \in 1..Len(hist[m]) : hist'[m][i] = hist[m][i]
    BY <2>1 DEF Marks
  <2>4. Len(hist[m]) \in Nat
    BY <2>3, LenProperties
  <2>5. 1 \in 1..Len(hist[m])
    BY <2>2, <2>4 DEF Receipts
  <2> QED
    BY <2>3, <2>5
<1>7. \A m \in Memories :
         /\ m \in journal'[d].touch <=> \E r \in Receipts(m)' : r.cmd = d
         /\ \A r \in Receipts(m)' : r.cmd = d => r.act \in Deeds
  BY <1>2, <1>3, <1>5
<1>8. \A m \in journal'[d].touch :
         \/ journal'[d].before[m].life \in {"proposed", "kept"}
         \/ journal'[d].before[m].life = "rejected" /\ hist'[m][1].cmd = d
  BY <1>2, <1>3, <1>6
<1> QED
  BY <1>2, <1>3, <1>7, <1>8

\* A receipt that counted before c was undone still does, unless it is c's.
LEMMA StillCounts ==
    ASSUME Recorded, Streams, Touched, NEW c \in 1..Len(journal), Undoable(c), Reverted(c),
           NEW m \in Memories, Marks(c, m), NEW r \in Receipts(m), Counts(r), 0 < r.cmd
    PROVE  /\ r \in Receipts(m)'
           /\ r.cmd # c => Counts(r)'
           /\ r.cmd = c => m \in journal[c].touch
<1>1. r \in Receipts(m)' /\ r.cmd \in Nat
  BY DEF Marks, AnyReceipt
<1>2. r.cmd \in 1..Len(journal)
  BY <1>1 DEF Streams, Reverted
<1>3. journal'[r.cmd].undone <=> journal[r.cmd].undone \/ r.cmd = c
  BY <1>2 DEF Reverted
<1>4. r.act \in Deeds /\ ~journal[r.cmd].undone
  BY DEF Counts
<1>5. r.cmd # c => Counts(r)'
  BY <1>3, <1>4 DEF Counts
<1>6. r.cmd = c => m \in journal[c].touch
  <2>1. Undoing(c)
    BY UndoableFacts
  <2> QED
    BY <2>1 DEF Touched
<1> QED
  BY <1>1, <1>5, <1>6

LEMMA UndoAsLeft ==
    ASSUME Recorded, Streams, Touched, AsLeft, Chained, NEW c \in 1..Len(journal), Undoable(c), Reverted(c),
           \A m \in Memories : Marks(c, m)
    PROVE  AsLeft'
<1> SUFFICES ASSUME NEW d \in 1..Len(journal'), Stood(d)', NEW m \in journal'[d].touch,
                    \A r \in Receipts(m)' : r.cmd > d => ~Counts(r)'
             PROVE  mem'[m] = journal'[d].after[m]
  BY DEF AsLeft
<1>1. d \in 1..Len(journal) /\ d # c /\ Stood(d) /\ Alike(journal'[d], journal[d])
  BY StillThere DEF Stood
<1>2. m \in journal[d].touch /\ journal'[d].after = journal[d].after
  BY <1>1 DEF Alike
<1>3. m \in Memories
  BY <1>1, <1>2 DEF Recorded, Entry
<1>4. Len(journal) \in Nat
  BY DEF Recorded
<1>5. ASSUME NEW r \in Receipts(m), r.cmd > d, Counts(r) PROVE r.cmd = c /\ m \in journal[c].touch
  <2>1. r.cmd \in Nat
    BY <1>3 DEF Marks, AnyReceipt
  <2>2. 0 < r.cmd
    BY <1>1, <1>5, <2>1
  <2>3. /\ r \in Receipts(m)'
        /\ r.cmd # c => Counts(r)'
        /\ r.cmd = c => m \in journal[c].touch
    BY <1>3, <1>5, <2>2, StillCounts
  <2> QED
    BY <1>5, <2>3
<1>6. CASE m \notin journal[c].touch
  <2>1. mem[m] = journal[d].after[m]
    BY <1>1, <1>2, <1>5, <1>6 DEF AsLeft
  <2> QED
    BY <1>2, <1>3, <1>6, <2>1 DEF Reverted
<1>7. CASE m \in journal[c].touch
  <2>1. d < c
    <3>1. ~(d > c)
      BY <1>1, <1>2, <1>7, NoLaterDeed
    <3> QED
      BY <1>1, <1>4, <3>1
  <2>2. Stood(c)
    BY UndoableFacts
  <2>3. \A r \in Receipts(m) : d < r.cmd /\ r.cmd < c => ~Counts(r)
    <3> SUFFICES ASSUME NEW r \in Receipts(m), d < r.cmd, r.cmd < c, Counts(r) PROVE FALSE
      OBVIOUS
    <3>1. r.cmd \in Nat
      BY <1>3 DEF Marks, AnyReceipt
    <3>2. r.cmd = c
      BY <1>1, <1>5, <3>1
    <3> QED
      BY <1>4, <3>1, <3>2
  <2>4. journal[c].before[m] = journal[d].after[m]
    BY <1>1, <1>2, <1>7, <2>1, <2>2, <2>3 DEF Chained
  <2> QED
    BY <1>2, <1>3, <1>7, <2>4 DEF Reverted
<1> QED
  BY <1>6, <1>7

LEMMA UndoChained ==
    ASSUME Recorded, Streams, Touched, Chained, NEW c \in 1..Len(journal), Undoable(c), Reverted(c),
           \A m \in Memories : Marks(c, m)
    PROVE  Chained'
<1> SUFFICES ASSUME NEW d \in 1..Len(journal'), NEW e \in 1..Len(journal'), d < e, Stood(d)', Stood(e)',
                    NEW m \in journal'[d].touch \cap journal'[e].touch,
                    \A r \in Receipts(m)' : d < r.cmd /\ r.cmd < e => ~Counts(r)'
             PROVE  journal'[e].before[m] = journal'[d].after[m]
  BY DEF Chained
<1>1. d \in 1..Len(journal) /\ d # c /\ Stood(d) /\ Alike(journal'[d], journal[d])
  BY StillThere DEF Stood
<1>2. e \in 1..Len(journal) /\ e # c /\ Stood(e) /\ Alike(journal'[e], journal[e])
  BY StillThere DEF Stood
<1>3. /\ m \in journal[d].touch /\ journal'[d].after = journal[d].after
      /\ m \in journal[e].touch /\ journal'[e].before = journal[e].before
  BY <1>1, <1>2 DEF Alike
<1>4. m \in Memories
  BY <1>1, <1>3 DEF Recorded, Entry
<1>5. ASSUME NEW r \in Receipts(m), d < r.cmd, r.cmd < e PROVE ~Counts(r)
  <2> SUFFICES ASSUME Counts(r) PROVE FALSE
    OBVIOUS
  <2>1. r.cmd \in Nat
    BY <1>4 DEF Marks, AnyReceipt
  <2>2. 0 < r.cmd
    BY <1>1, <1>5, <2>1
  <2>3. /\ r \in Receipts(m)'
        /\ r.cmd # c => Counts(r)'
        /\ r.cmd = c => m \in journal[c].touch
    BY <1>4, <2>2, StillCounts
  <2>4. r.cmd = c /\ m \in journal[c].touch
    BY <1>5, <2>3
  <2>5. ~(e > c)
    BY <1>2, <1>3, <2>4, NoLaterDeed
  <2> QED
    BY <1>2, <1>5, <2>1, <2>4, <2>5
<1>6. journal[e].before[m] = journal[d].after[m]
  BY <1>1, <1>2, <1>3, <1>5 DEF Chained
<1> QED
  BY <1>3, <1>6

LEMMA UndoHanging ==
    ASSUME Recorded, FoldInv, Touched, Hanging, NEW c \in 1..Len(journal), Undoable(c), Reverted(c)
    PROVE  Hanging'
<1>1. Len(journal) \in Nat /\ Len(journal') = Len(journal) + 1
  BY DEF Reverted
<1>2. \A l \in links' : l \in links /\ Of(l) \notin journal[c].made
  BY DEF Reverted
<1>3. Undoing(c) /\ journal[c].touch \subseteq Memories
  BY UndoableFacts
<1>4. \A m \in journal[c].touch : mem'[m].life # "forgotten"
  <2>1. \A m \in journal[c].touch : mem'[m] = journal[c].before[m]
    BY <1>3 DEF Reverted
  <2>2. \A m \in journal[c].touch : journal[c].before[m].life \in {"proposed", "kept", "rejected"}
    BY <1>3 DEF Touched
  <2> QED
    BY <2>1, <2>2
<1>5. \A m \in Memories : mem'[m].life = "forgotten" => mem[m].life = "forgotten"
  BY <1>4 DEF Reverted
<1>6. ASSUME NEW l \in links, Of(l) \notin journal[c].made, l.kind = "merged_into"
      PROVE  /\ mem'[l.from].life \in {"merged", "forgotten"}
             /\ Stood(l.cmd)' /\ l.from \in journal'[l.cmd].touch
             /\ mem'[l.to].life = "forgotten" => mem'[l.from].life = "forgotten"
             /\ \A d \in 1..Len(journal') : l.cmd < d /\ Undoing(d)' => l.from \notin journal'[d].touch
  <2>1. l.from \in Memories /\ l.to \in Memories /\ l.cmd \in 1..Len(journal)
    BY LinkThere
  <2>2. /\ mem[l.from].life \in {"merged", "forgotten"}
        /\ Stood(l.cmd) /\ l.from \in journal[l.cmd].touch
        /\ mem[l.to].life = "forgotten" => mem[l.from].life = "forgotten"
        /\ \A d \in 1..Len(journal) : l.cmd < d /\ Undoing(d) => l.from \notin journal[d].touch
    BY <1>6 DEF Hanging
  <2>3. l.cmd # c
    BY <1>6 DEF FoldInv
  <2>4. l.from \notin journal[c].touch
    <3> SUFFICES ASSUME l.from \in journal[c].touch PROVE FALSE
      OBVIOUS
    <3>1. ~(l.cmd > c)
      BY <2>1, <2>2, NoLaterDeed
    <3>2. ~(l.cmd < c)
      BY <1>3, <2>2
    <3> QED
      BY <1>1, <2>1, <2>3, <3>1, <3>2
  <2>5. mem'[l.from] = mem[l.from]
    BY <2>1, <2>4 DEF Reverted
  <2>6. Alike(journal'[l.cmd], journal[l.cmd]) /\ (journal'[l.cmd].undone <=> journal[l.cmd].undone \/ l.cmd = c)
    BY <2>1 DEF Reverted
  <2>7. journal'[l.cmd].kind = journal[l.cmd].kind /\ journal'[l.cmd].touch = journal[l.cmd].touch
    BY <2>6 DEF Alike
  <2>8. Stood(l.cmd)'
    BY <1>1, <2>1, <2>2, <2>3, <2>6, <2>7 DEF Stood, Undoing
  <2>9. ASSUME NEW d \in 1..Len(journal'), l.cmd < d, Undoing(d)' PROVE l.from \notin journal'[d].touch
    <3>1. d \in 1..Len(journal) /\ Undoing(d) /\ Alike(journal'[d], journal[d])
      BY <2>9, StillThere
    <3>2. journal'[d].touch = journal[d].touch
      BY <3>1 DEF Alike
    <3> QED
      BY <2>2, <2>9, <3>1, <3>2
  <2> QED
    BY <1>5, <2>1, <2>2, <2>5, <2>7, <2>8, <2>9
<1>7. ASSUME NEW l \in links, l.kind = "conflicts_with" PROVE mem'[l.to].life # "forgotten"
  <2>1. l.to \in Memories
    BY LinkThere
  <2>2. mem[l.to].life # "forgotten"
    BY <1>7 DEF Hanging
  <2> QED
    BY <1>5, <2>1, <2>2
<1> QED
  BY <1>2, <1>6, <1>7 DEF Hanging

\* The database lets every Undo through: one that withdraws a kept memory
\* is of the command that created it.
LEMMA UndoPasses ==
    ASSUME Recorded, Recorded', Touched, NEW c \in 1..Len(journal), Undoable(c), Reverted(c),
           NEW m \in Memories, Marks(c, m)
    PROVE  L!Guarded(m)
<1>1. mem'[m].conflict => mem'[m].life \in {"proposed", "kept"}
  BY DEF Recorded, Rowed, Fits
<1>2. hist[m] = SubSeq(hist'[m], 1, Len(hist[m]))
  BY DEF Marks
<1>3. CASE m \notin journal[c].touch
  <2>1. mem'[m] = mem[m] /\ hist'[m] = hist[m]
    BY <1>3 DEF Reverted, Marks
  <2> QED
    BY <1>1, <1>2, <2>1, PassesGuarded DEF Passes
<1>4. CASE m \in journal[c].touch
  <2>1. mem'[m] = journal[c].before[m]
    BY <1>4 DEF Reverted
  <2>2. mem[m].life # "forgotten" /\ CanRestore(mem[m].life, mem'[m].life)
    BY <1>4, <2>1, UndoableFacts
  <2>3. hist'[m] # hist[m] /\ L!Newest(hist'[m]).act = "undid" /\ L!Newest(hist'[m]).of = c
    <3>1. /\ Len(hist'[m]) = Len(hist[m]) + 1 /\ hist[m] \in Seq(AnyReceipt)
          /\ hist'[m][Len(hist[m]) + 1] = Receipt(Len(journal) + 1, "person", "undid", c)
      BY <1>4 DEF Marks
    <3>2. Len(hist[m]) \in Nat
      BY <3>1, LenProperties
    <3>3. Len(hist'[m]) # Len(hist[m])
      BY <3>1, <3>2
    <3>4. L!Newest(hist'[m]) = Receipt(Len(journal) + 1, "person", "undid", c)
      BY <3>1 DEF L!Newest
    <3> QED
      BY <3>3, <3>4 DEF Receipt
  <2>4. mem'[m].life = "rejected" => hist[m][1].cmd = c
    <3>1. Undoing(c)
      BY UndoableFacts
    <3> QED
      BY <1>4, <2>1, <3>1 DEF Touched
  <2>5. mem[m].life # mem'[m].life => L!Verb(mem[m].life, mem'[m].life) \/ L!Undone(m)
    <3> SUFFICES ASSUME mem[m].life # mem'[m].life PROVE L!Verb(mem[m].life, mem'[m].life) \/ L!Undone(m)
      OBVIOUS
    <3> DEFINE x == mem[m].life
               y == mem'[m].life
    <3>1. <<x, y>> \in VerbMoves \cup UndoMoves
      BY <2>2 DEF CanRestore
    <3>2. <<x, y>> \in VerbMoves => L!Verb(x, y)
      <4> HIDE DEF x, y
      <4> QED
        BY DEF VerbMoves, L!Verb, Lifecycles
    <3>3. <<x, y>> \in UndoMoves => L!Undone(m)
      BY <2>3, <2>4 DEF UndoMoves, L!Undone
    <3> QED
      BY <3>1, <3>2, <3>3
  <2> QED
    BY <1>1, <1>2, <2>2, <2>3, <2>5, PassesGuarded DEF Passes
<1> QED
  BY <1>3, <1>4

LEMMA UndoExact ==
    ASSUME Inv, Inv', Exact, NEW c \in 1..Len(journal), Undoable(c), NEW ch, Reverting(ch, c), Commit(ch)
    PROVE  Exact' /\ \A m \in Memories : L!Guarded(m)
<1>1. Recorded /\ Recorded' /\ FoldInv /\ Streams /\ Touched /\ AsLeft /\ Chained /\ Hanging
  BY DEF Inv, Typed, Exact
<1>4. Reverted(c)
  BY <1>1, RevertReverts
<1>5. \A m \in Memories : Marks(c, m)
  BY <1>1, RevertMarks
<1>6. Streams' /\ Touched'
  BY <1>1, <1>4, <1>5, UndoStreams, UndoTouched
<1>7. AsLeft' /\ Chained' /\ Hanging'
  BY <1>1, <1>4, <1>5, UndoAsLeft, UndoChained, UndoHanging
<1>8. \A m \in Memories : L!Guarded(m)
  BY <1>1, <1>4, <1>5, UndoPasses
<1> QED
  BY <1>6, <1>7, <1>8 DEF Exact

----------------------------------------------------------------------------
\* Every step

\* A step that leaves the rows, the receipts, the links and the entries.
LEMMA QuietExact ==
    ASSUME Inv, Exact, UNCHANGED <<mem, hist, links, journal>>
    PROVE  Exact' /\ \A m \in Memories : L!Guarded(m)
<1>1. Streams'
  BY DEF Exact, Streams, Receipts
<1>2. Touched'
  BY DEF Exact, Touched, Undoing, Receipts
<1>3. AsLeft' /\ Chained'
  BY DEF Exact, AsLeft, Chained, Stood, Undoing, Receipts, Counts
<1>4. Hanging'
  BY DEF Exact, Hanging, Stood, Undoing
<1>5. ASSUME NEW m \in Memories PROVE L!Guarded(m)
  <2>1. mem[m].conflict => mem[m].life \in {"proposed", "kept"}
    BY DEF Inv, Typed, Recorded, Rowed, Fits
  <2>2. hist[m] = SubSeq(hist[m], 1, Len(hist[m]))
    <3> DEFINE s == hist[m]
               S == AnyReceipt
    <3>1. s \in Seq(S)
      BY DEF Exact, Streams
    <3> HIDE DEF s, S
    <3>2. Len(s) \in Nat
      BY <3>1, LenProperties
    <3>3. s = SubSeq(s, 1, Len(s))
      <4> DEFINE a == Len(s)
      <4>1. a \in Nat /\ \A i \in 1..a : i \in 1..Len(s)
        BY <3>2
      <4>2. /\ SubSeq(s, 1, a) \in Seq(S) /\ Len(SubSeq(s, 1, a)) = a
            /\ \A i \in 1..a : SubSeq(s, 1, a)[i] = s[i]
        BY <3>1, <4>1, SubSeqProperties
      <4>3. s = SubSeq(s, 1, a)
        BY <3>1, <4>2, SeqEqual
      <4> QED
        BY <4>3
    <3> QED
      BY <3>3 DEF s
  <2>3. Passes(m)
    BY <2>1, <2>2 DEF Passes
  <2> QED
    BY <2>3, PassesGuarded
<1> QED
  BY <1>1, <1>2, <1>3, <1>4, <1>5 DEF Exact

LEMMA InitExact == Init => Exact
<1> SUFFICES ASSUME Init PROVE Exact
  OBVIOUS
<1>1. /\ mem = [m \in Memories |-> IF m \in Standing THEN Row("kept") ELSE [Row("none") EXCEPT !.version = 0]]
      /\ hist = [m \in Memories |-> IF m \in Standing THEN <<Receipt(0, "person", "kept", 0)>> ELSE <<>>]
      /\ links = {} /\ journal = <<>> /\ Len(journal) = 0
  BY DEF Init
<1> DEFINE r == Receipt(0, "person", "kept", 0)
           one == <<r>>
           none == <<>>
<1>2. r \in AnyReceipt /\ r.cmd = 0 /\ r.act # "undid"
  BY DEF Receipt, AnyReceipt, By, Deeds
<1>3. one # none /\ one \in Seq(AnyReceipt) /\ none \in Seq(AnyReceipt)
  BY <1>2
<1>4. hist = [m \in Memories |-> IF m \in Standing THEN one ELSE none]
  BY <1>1
<1>5. Len(one) = 1 /\ one[1] = r /\ Len(none) = 0
  OBVIOUS
<1> HIDE DEF one, none, r
<1>6. hist \in [Memories -> Seq(AnyReceipt)]
  BY <1>3, <1>4
<1>7. ASSUME NEW m \in Memories
      PROVE  /\ mem[m].life = "none" <=> hist[m] = <<>>
             /\ \A k \in Receipts(m) : k.cmd <= Len(journal) /\ k.act # "undid"
  <2>1. CASE m \in Standing
    <3>1. mem[m].life = "kept"
      BY <1>1, <2>1 DEF Row
    <3>2. hist[m] = one
      BY <1>4, <2>1
    <3>3. \A k \in Receipts(m) : k = r
      <4>1. Len(hist[m]) = 1 /\ hist[m][1] = r
        BY <1>5, <3>2
      <4>2. \A i \in 1..Len(hist[m]) : i = 1
        BY <4>1
      <4> QED
        BY <4>1, <4>2 DEF Receipts
    <3> QED
      BY <1>1, <1>2, <1>3, <3>1, <3>2, <3>3 DEF none
  <2>2. CASE m \notin Standing
    <3>1. mem[m].life = "none"
      BY <1>1, <2>2 DEF Row
    <3>2. hist[m] = none
      BY <1>4, <2>2
    <3>3. Receipts(m) = {}
      BY <1>5, <3>2 DEF Receipts
    <3> QED
      BY <3>1, <3>2, <3>3 DEF none
  <2> QED
    BY <2>1, <2>2
<1>8. Streams
  BY <1>6, <1>7 DEF Streams
<1>9. 1..Len(journal) = {}
  BY <1>1
<1>10. Touched /\ AsLeft /\ Chained
  BY <1>9 DEF Touched, AsLeft, Chained
<1>11. Hanging
  BY <1>1 DEF Hanging
<1> QED
  BY <1>8, <1>10, <1>11 DEF Exact

\* The rows, the receipts, the links and the entries stay, and so do the
\* jobs but for one SkipJob is done with.
Quiet ==
    /\ UNCHANGED <<mem, top, hist, links, verdicts, journal>>
    /\ jobs' = jobs \/ \E j \in jobs : ~Eligible(j) /\ jobs' = jobs \ {j}

\* What a step may be.
LEMMA StepKinds ==
    ASSUME Inv, [Next]_vars
    PROVE  /\ verdicts \subseteq verdicts'
           /\ \/ \E ch, ms : Ready(ch, ms) /\ Marking(ch, ms) /\ Commit(ch)
              \/ \E m \in Memories : Forget(m)
              \/ \E f \in Memories : \E d \in Memories : Resolve(f, d)
              \/ \E c \in 1..Len(journal) : Undo(c)
              \/ Quiet
<1> DEFINE Grown == verdicts \subseteq verdicts'
           Plainly == \E ch, ms : Ready(ch, ms) /\ Marking(ch, ms) /\ Commit(ch)
           Forgets == \E m \in Memories : Forget(m)
           Resolves == \E f \in Memories : \E d \in Memories : Resolve(f, d)
           Undoes == \E c \in 1..Len(journal) : Undo(c)
           Held == Grown /\ (Plainly \/ Forgets \/ Resolves \/ Undoes \/ Quiet)
<1>1. Typed /\ Recorded
  BY DEF Inv, Typed
<1>2. ASSUME UNCHANGED judged PROVE Grown
  BY <1>2 DEF judged
<1>3. ASSUME Grown, Plainly PROVE Held
  BY <1>3
<1>20. ASSUME Grown, Forgets \/ Resolves \/ Undoes \/ Quiet PROVE Held
  BY <1>20
<1> HIDE DEF Held, Grown
<1>4. ASSUME NEW m \in Memories, NEW by \in Actors, NEW life \in {"kept", "proposed"}, Remember(m, by, life)
      PROVE  Held
  BY <1>1, <1>2, <1>3, <1>4, RememberReady DEF Remember
<1>5. ASSUME NEW m \in Memories, NEW by \in Actors, Propose(m, by) PROVE Held
  BY <1>1, <1>2, <1>3, <1>5, ProposeReady DEF Propose
<1>6. ASSUME NEW m \in Memories, NEW n \in Memories, NEW by \in Actors, Update(m, n, by) PROVE Held
  <2>1. UNCHANGED judged
    BY <1>6 DEF Update
  <2> QED
    BY <1>1, <1>2, <1>3, <1>6, <2>1, UpdateReady
<1>7. ASSUME NEW m \in Memories, NEW by \in Actors, Edit(m, by) PROVE Held
  <2>1. UNCHANGED judged
    BY <1>7 DEF Edit
  <2> QED
    BY <1>1, <1>2, <1>3, <1>7, <2>1, EditReady
<1>8. ASSUME NEW m \in Memories, EditThenKeep(m) PROVE Held
  <2>1. UNCHANGED judged
    BY <1>8 DEF EditThenKeep
  <2> QED
    BY <1>1, <1>2, <1>3, <1>8, <2>1, EditThenKeepReady
<1>9. ASSUME NEW m \in Memories, Keep(m) PROVE Held
  <2>1. UNCHANGED judged
    BY <1>9 DEF Keep
  <2> QED
    BY <1>1, <1>2, <1>3, <1>9, <2>1, KeepReady
<1>10. ASSUME NEW m \in Memories, Reject(m) PROVE Held
  <2>1. UNCHANGED judged
    BY <1>10 DEF Reject
  <2> QED
    BY <1>1, <1>2, <1>3, <1>10, <2>1, RejectReady
<1>11. ASSUME NEW m \in Memories, Forget(m) PROVE Held
  <2>1. UNCHANGED judged
    BY <1>11 DEF Forget
  <2> QED
    BY <1>2, <1>20, <1>11, <2>1
<1>12. ASSUME NEW j \in jobs, Judge(j) PROVE Held
  <2>5. ASSUME NEW o, NEW t, NEW ch, RecordVerdict(j, o, t, ch) PROVE Grown
    BY <2>5 DEF RecordVerdict, Grown
  <2>1. CASE JudgeNothing(j)
    <3>1. Grown
      BY <2>1, <2>5 DEF JudgeNothing
    <3> QED
      BY <1>1, <1>3, <2>1, <3>1, JudgeNothingReady
  <2>2. ASSUME NEW t \in Memories, JudgeFold(j, t) PROVE Held
    <3>1. Grown
      BY <2>2, <2>5 DEF JudgeFold
    <3> QED
      BY <1>1, <1>3, <2>2, <3>1, JudgeFoldReady
  <2>3. ASSUME NEW t \in Memories, JudgeLink(j, t) PROVE Held
    <3>1. Grown
      BY <2>3, <2>5 DEF JudgeLink
    <3> QED
      BY <1>1, <1>3, <2>3, <3>1, JudgeLinkReady
  <2>4. ASSUME NEW ds \in SUBSET Memories, NEW t \in Memories, NEW back \in BOOLEAN, JudgeFlag(j, ds, t, back)
        PROVE  Held
    <3>1. Grown
      BY <2>4 DEF JudgeFlag, RecordVerdict, Grown
    <3> QED
      BY <1>1, <1>3, <2>4, <3>1, JudgeFlagReady
  <2> QED
    BY <1>12, <2>1, <2>2, <2>3, <2>4 DEF Judge
<1>13. ASSUME NEW f \in Memories, NEW d \in Memories, Resolve(f, d) PROVE Held
  <2>1. verdicts' = verdicts
    <3>1. CASE ResolveForFlagged(f, d)
      BY <3>1 DEF ResolveForFlagged, judged
    <3>2. CASE ResolveForDecision(f, d)
      BY <3>2 DEF ResolveForDecision, judged
    <3>3. CASE ResolveOpen(f, d)
      BY <3>3 DEF ResolveOpen, judged
    <3>4. CASE ResolveBoth(f, d)
      BY <3>4 DEF ResolveBoth, judged
    <3>5. CASE HoldBoth(f, d)
      BY <3>5 DEF HoldBoth
    <3> QED
      BY <1>13, <3>1, <3>2, <3>3, <3>4, <3>5 DEF Resolve
  <2> QED
    BY <1>13, <1>20, <2>1 DEF Grown
<1>14. ASSUME NEW c \in 1..Len(journal), Undo(c) PROVE Held
  <2>1. UNCHANGED judged
    BY <1>14 DEF Undo
  <2> QED
    BY <1>2, <1>14, <1>20, <2>1
<1>15. ASSUME Command PROVE Held
  BY <1>4, <1>5, <1>6, <1>7, <1>8, <1>9, <1>10, <1>11, <1>12, <1>13, <1>14, <1>15 DEF Command
<1>16. ASSUME Quiet PROVE Held
  BY <1>16, <1>20 DEF Quiet, Grown
<1>17. ASSUME NEW m \in Memories, ReadSource(m) PROVE Held
  BY <1>16, <1>17 DEF ReadSource, Quiet
<1>18. ASSUME NEW j \in jobs, SkipJob(j) PROVE Held
  BY <1>16, <1>18 DEF SkipJob, Quiet
<1>19. ASSUME UNCHANGED vars PROVE Held
  BY <1>16, <1>19 DEF vars, Quiet
<1>21. Held
  BY <1>15, <1>17, <1>18, <1>19 DEF Next
<1> QED
  BY <1>21 DEF Held, Grown

LEMMA NextKinds ==
    ASSUME "resolve" \notin Commands, Inv, Exact, [Next]_vars
    PROVE  /\ verdicts \subseteq verdicts'
           /\ \/ \E ch, ms : Ready(ch, ms) /\ Marking(ch, ms) /\ Commit(ch)
              \/ \E ch, gone, freed : Forgetting(ch, gone, freed) /\ Commit(ch)
              \/ /\ "undo" \in Commands
                 /\ \E c \in 1..Len(journal) : \E ch : Undoable(c) /\ Reverting(ch, c) /\ Commit(ch)
              \/ Quiet
<1>1. Typed /\ Touched
  BY DEF Inv, Exact
<1>2. ASSUME NEW m \in Memories, Forget(m) PROVE \E ch, gone, freed : Forgetting(ch, gone, freed) /\ Commit(ch)
  BY <1>1, <1>2, ForgetReady
<1>3. ASSUME NEW f, NEW d, Resolve(f, d) PROVE FALSE
  <2>1. Settling(f, d)
    BY <1>3 DEF Resolve, ResolveForFlagged, ResolveForDecision, ResolveOpen, ResolveBoth, HoldBoth
  <2> QED
    BY <2>1 DEF Settling
<1>4. ASSUME NEW c \in 1..Len(journal), Undo(c)
      PROVE  "undo" \in Commands /\ Undoable(c) /\ \E ch : Reverting(ch, c) /\ Commit(ch)
  <2>1. "undo" \in Commands /\ Undoable(c)
    BY <1>4 DEF Undo
  <2> QED
    BY <1>1, <1>4, <2>1, UndoReverts
<1> QED
  BY <1>2, <1>3, <1>4, StepKinds

LEMMA NextExact ==
    ASSUME "resolve" \notin Commands, Inv, Inv', Exact, [Next]_vars
    PROVE  Exact' /\ \A m \in Memories : L!Guarded(m)
<1>1. ASSUME NEW ch, NEW ms, Ready(ch, ms), Commit(ch) PROVE Exact' /\ \A m \in Memories : L!Guarded(m)
  BY <1>1, ReadyStep
<1>2. ASSUME NEW ch, NEW gone, NEW freed, Forgetting(ch, gone, freed), Commit(ch)
      PROVE  Exact' /\ \A m \in Memories : L!Guarded(m)
  BY <1>2, ForgetExact
<1>3. ASSUME NEW c \in 1..Len(journal), NEW ch, Undoable(c), Reverting(ch, c), Commit(ch)
      PROVE  Exact' /\ \A m \in Memories : L!Guarded(m)
  BY <1>3, UndoExact
<1>4. ASSUME Quiet PROVE Exact' /\ \A m \in Memories : L!Guarded(m)
  BY <1>4, QuietExact DEF Quiet
<1>5. \/ \E ch, ms : Ready(ch, ms) /\ Marking(ch, ms) /\ Commit(ch)
      \/ \E ch, gone, freed : Forgetting(ch, gone, freed) /\ Commit(ch)
      \/ \E c \in 1..Len(journal) : \E ch : Undoable(c) /\ Reverting(ch, c) /\ Commit(ch)
      \/ Quiet
  BY NextKinds
<1> QED
  BY <1>1, <1>2, <1>3, <1>4, <1>5

----------------------------------------------------------------------------
\* What follows

\* While no conflict is resolved, an Undo that goes through takes back its
\* command's work and no later command's: every memory it would write to is
\* as that command left it, whatever was done and undone since, in whatever
\* order (changedSince passes over what was undone).
THEOREM UndoExactly == ("resolve" \notin Commands) /\ Spec => []UndoLosesNothing
<1>1. Inv /\ Exact => UndoLosesNothing
  <2> SUFFICES ASSUME Inv, Exact, NEW c \in 1..Len(journal), Undoable(c), NEW m \in journal[c].touch
               PROVE  mem[m] = journal[c].after[m]
    BY DEF UndoLosesNothing
  <2>1. Recorded
    BY DEF Inv, Typed
  <2>2. Stood(c) /\ ~LaterChange(c, m)
    BY <2>1, UndoableFacts
  <2>3. \A r \in Receipts(m) : r.cmd > c => ~Counts(r)
    BY <2>2 DEF LaterChange, Counts, Deeds
  <2> QED
    BY <2>2, <2>3 DEF Exact, AsLeft
<1>2. ASSUME "resolve" \notin Commands PROVE Inv /\ Exact /\ [Next]_vars => Inv' /\ Exact'
  BY <1>2, NextInv, NextExact
<1>3. Init => Inv /\ Exact
  BY InitInv, InitExact
<1>4. ASSUME "resolve" \notin Commands PROVE Spec => []UndoLosesNothing
  BY <1>1, <1>2, <1>3, <1>4, PTL DEF Spec
<1> QED
  BY <1>4

\* While no conflict is resolved, no memory folded into a forgotten one is
\* left behind, and no conflict is left with it: not by a Forget, and not by
\* the Undo of a command from before it (carriedBy, endConflicts, undo.go).
THEOREM ForgottenStayGone == ("resolve" \notin Commands) /\ Spec => []ForgottenLetGo
<1>1. Inv /\ Exact => ForgottenLetGo
  <2> SUFFICES ASSUME Exact, NEW t \in Active, mem[t.to].life = "forgotten"
               PROVE  t.kind # "conflicts_with" /\ (t.kind = "merged_into" => mem[t.from].life # "merged")
    BY DEF ForgottenLetGo
  <2>1. PICK l \in links : t = Of(l)
    BY DEF Active
  <2>2. l.kind = t.kind /\ l.to = t.to /\ l.from = t.from
    BY <2>1 DEF Of, Triple
  <2>3. t.kind # "conflicts_with"
    BY <2>2 DEF Exact, Hanging
  <2>4. t.kind = "merged_into" => mem[t.from].life = "forgotten"
    BY <2>2 DEF Exact, Hanging
  <2> QED
    BY <2>3, <2>4
<1>2. ASSUME "resolve" \notin Commands PROVE Inv /\ Exact /\ [Next]_vars => Inv' /\ Exact'
  BY <1>2, NextInv, NextExact
<1>3. Init => Inv /\ Exact
  BY InitInv, InitExact
<1>4. ASSUME "resolve" \notin Commands PROVE Spec => []ForgottenLetGo
  BY <1>1, <1>2, <1>3, <1>4, PTL DEF Spec
<1> QED
  BY <1>4

\* While no conflict is resolved, the record keeps to the lifecycle the
\* database guards: every command that its own checks let through passes the
\* trigger too, and no memory changes without a receipt (migration 052).
THEOREM KeepsLifecycle == ("resolve" \notin Commands) /\ Spec => LifecycleSpec
<1>1. Init => L!Init
  <2> SUFFICES ASSUME Init PROVE L!Init
    OBVIOUS
  <2>1. ASSUME NEW m \in Memories
        PROVE  /\ mem[m].life = IF m \in Standing THEN "kept" ELSE "none"
               /\ mem[m].conflict = FALSE
               /\ mem[m].version = IF m \in Standing THEN 1 ELSE 0
    <3>1. CASE m \in Standing
      BY <3>1 DEF Init, Row
    <3>2. CASE m \notin Standing
      <4> DEFINE no == FALSE
      <4>1. mem[m] = [[life |-> "none", conflict |-> no, version |-> 1, status |-> "in_force"] EXCEPT !.version = 0]
        BY <3>2 DEF Init, Row
      <4> HIDE DEF no
      <4>2. mem[m].life = "none" /\ mem[m].conflict = no /\ mem[m].version = 0
        BY <4>1
      <4> QED
        BY <3>2, <4>2 DEF no
    <3> QED
      BY <3>1, <3>2
  <2>2. /\ [m \in Memories |-> mem[m].life] = [m \in Memories |-> IF m \in Standing THEN "kept" ELSE "none"]
        /\ [m \in Memories |-> mem[m].conflict] = [m \in Memories |-> FALSE]
        /\ [m \in Memories |-> mem[m].version] = [m \in Memories |-> IF m \in Standing THEN 1 ELSE 0]
    BY <2>1
  <2>3. hist = [m \in Memories |->
                   IF m \in Standing THEN <<[cmd |-> 0, by |-> "person", act |-> "kept", of |-> 0]>> ELSE <<>>]
    BY DEF Init, Receipt
  <2> QED
    BY <2>2, <2>3 DEF L!Init
<1>2. ASSUME "resolve" \notin Commands PROVE Inv /\ Exact /\ [Next]_vars => Inv' /\ Exact' /\ [L!Next]_(L!vars)
  BY <1>2, NextInv, NextExact DEF L!Next
<1>3. Init => Inv /\ Exact
  BY InitInv, InitExact
<1>4. ASSUME "resolve" \notin Commands PROVE Spec => LifecycleSpec
  BY <1>1, <1>2, <1>3, <1>4, PTL DEF Spec, LifecycleSpec, L!Spec
<1> QED
  BY <1>4

=============================================================================

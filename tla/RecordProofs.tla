---------------------------- MODULE RecordProofs ----------------------------
(***************************************************************************)
(* What holds of Record for every set of memories, every choice of         *)
(* commands and every history: the record's rows and what refers to them   *)
(* stay well formed, what a memory was folded into stands, and words get   *)
(* one verdict and one more for each of their folds that was undone.       *)
(***************************************************************************)
EXTENDS Record, FiniteSetTheorems, SequenceTheorems, WellFoundedInduction, TLAPS

----------------------------------------------------------------------------
\* The inductive invariants

AnyRow == [life : Lifecycles, conflict : BOOLEAN, version : Nat, status : {"in_force", "open", "superseded"}]

\* A memory's row, when t is its highest stored version.
Fits(row, t) ==
    /\ row \in AnyRow
    /\ row.version <= t
    /\ row.life = "none" <=> t = 0
    /\ row.life # "none" => row.version # 0
    /\ row.conflict => row.life \in {"proposed", "kept"}

Kinds == {"supersedes", "conflicts_with", "merged_into"}
Triples == [kind : Kinds, from : Memories, to : Memories]

\* Links are between two memories there are.
Linkable(tops, t) == t \in Triples /\ t.from # t.to /\ tops[t.from] # 0 /\ tops[t.to] # 0

Links == [kind : Kinds, from : Memories, to : Memories, cmd : Nat]

Jobs == [mem : Memories, version : Nat, mode : {"proposal", "kept", "settling"}, round : Nat, force : BOOLEAN,
         beside : SUBSET Memories, cause : Nat]

EntryFields == {"kind", "touch", "undone", "made", "ended", "before", "after"}

\* What Undo would write is a row of each memory it would write to.
Entry(tops, e) ==
    /\ DOMAIN e = EntryFields /\ e = [f \in EntryFields |-> e[f]]
    /\ e.undone \in BOOLEAN
    /\ e.touch \subseteq Memories
    /\ \A t \in e.made : Linkable(tops, t)
    /\ \A t \in e.ended : Linkable(tops, t) /\ (e.kind # "none" => t.kind = "conflicts_with")
    /\ \A m \in e.touch : Fits(e.before[m], tops[m]) /\ e.before[m].life # "none"

Queued(tops, j) == j \in Jobs /\ j.version \in 1..tops[j.mem]

Rowed(tops, rows) ==
    /\ DOMAIN rows = Memories /\ rows = [m \in Memories |-> rows[m]]
    /\ \A m \in Memories : Fits(rows[m], tops[m])

Recorded ==
    /\ Rowed(top, mem)
    /\ top \in [Memories -> 0..MaxVersion]
    /\ links \subseteq Links
    /\ \A l \in links : Linkable(top, Of(l)) /\ l.cmd \in 1..Len(journal)
    /\ \A l, k \in links : Of(l) = Of(k) => l = k
    /\ \A j \in jobs : Queued(top, j)
    /\ Len(journal) \in Nat /\ journal = [c \in 1..Len(journal) |-> journal[c]]
    /\ \A c \in 1..Len(journal) : Entry(top, journal[c])

Typed ==
    /\ Recorded
    /\ \A c \in cites : c[1] \in Memories /\ top[c[1]] # 0
    /\ \A d \in drafts : d[1] \in Memories /\ d[2] \in 1..top[d[1]]

\* What a memory was folded into is not in Review, nor folded away itself;
\* and no Undo of a later command would put it back there.
Stands(row) == row.life \notin {"none", "proposed", "merged"}

FoldInv ==
    /\ \A l \in links : l.cmd \in 1..Len(journal) /\ Of(l) \in journal[l.cmd].made
    /\ \A l \in links : l.kind = "merged_into" =>
          /\ Stands(mem[l.to])
          /\ \A c \in 1..Len(journal) :
                l.cmd < c /\ l.to \in journal[c].touch => Stands(journal[c].before[l.to])

\* The jobs an undone fold queued, one for each Undo.
FoldOf(c, m, v) ==
    /\ journal[c].kind = "judge_fold" /\ journal[c].undone
    /\ m \in journal[c].touch /\ journal[c].before[m].version = v

Forced(w) == \E j \in jobs : j.force /\ j.mem = w.mem /\ j.version = w.version /\ j.round = w.round

VerdictInv ==
    /\ verdicts \subseteq [mem : Memories, version : Nat, round : Nat,
                           outcome : {"none", "folded", "linked", "flagged"}, target : SUBSET Memories]
    /\ \A w \in verdicts : w.round <= Len(journal)
    /\ \A j \in jobs : j.round <= Len(journal)
    /\ \A w, x \in verdicts : w.mem = x.mem /\ w.version = x.version =>
          /\ w.round = x.round => w = x
          /\ w = x \/ Forced(w) \/ Forced(x)
    /\ \A j \in jobs : j.force => j.cause \in 1..Len(journal) /\ FoldOf(j.cause, j.mem, j.version)
    /\ \A j, k \in jobs : j.force /\ k.force /\ j.mem = k.mem /\ j.cause = k.cause => j = k

----------------------------------------------------------------------------
\* What the helpers do to a row and to a change

LEMMA RowSet ==
    ASSUME NEW row \in AnyRow
    PROVE  /\ \A x : LET n == [row EXCEPT !.life = x]
                     IN  /\ n = [life |-> x, conflict |-> row.conflict, version |-> row.version, status |-> row.status]
           /\ \A x : LET n == [row EXCEPT !.conflict = x]
                     IN  /\ n = [life |-> row.life, conflict |-> x, version |-> row.version, status |-> row.status]
           /\ \A x : LET n == [row EXCEPT !.version = x]
                     IN  /\ n = [life |-> row.life, conflict |-> row.conflict, version |-> x, status |-> row.status]
           /\ \A x : LET n == [row EXCEPT !.status = x]
                     IN  /\ n = [life |-> row.life, conflict |-> row.conflict, version |-> row.version, status |-> x]
<1>1. row = [life |-> row.life, conflict |-> row.conflict, version |-> row.version, status |-> row.status]
  BY DEF AnyRow
<1> DEFINE lf == row.life
           cn == row.conflict
           vn == row.version
           st == row.status
<1>2. row = [life |-> lf, conflict |-> cn, version |-> vn, status |-> st]
  BY <1>1
<1> HIDE DEF lf, cn, vn, st
<1>3. ASSUME NEW x
      PROVE  /\ [row EXCEPT !.life = x] = [life |-> x, conflict |-> cn, version |-> vn, status |-> st]
             /\ [row EXCEPT !.conflict = x] = [life |-> lf, conflict |-> x, version |-> vn, status |-> st]
             /\ [row EXCEPT !.version = x] = [life |-> lf, conflict |-> cn, version |-> x, status |-> st]
             /\ [row EXCEPT !.status = x] = [life |-> lf, conflict |-> cn, version |-> vn, status |-> x]
  BY <1>2
<1> QED
  BY <1>3 DEF lf, cn, vn, st

\* A memory's row stays one as its lifecycle, flag, status or words change.
LEMMA RowKept ==
    ASSUME NEW t \in Nat, NEW row, Fits(row, t)
    PROVE  /\ \A life \in Lifecycles \ {"none"} :
                  row.life # "none" /\ (life \in {"proposed", "kept"} \/ ~row.conflict) =>
                      Fits([row EXCEPT !.life = life], t) /\ [row EXCEPT !.life = life].life = life
           /\ Fits([row EXCEPT !.conflict = FALSE], t) /\ [row EXCEPT !.conflict = FALSE].life = row.life
           /\ ~[row EXCEPT !.conflict = FALSE].conflict
           /\ row.life \in {"proposed", "kept"} =>
                  Fits([row EXCEPT !.conflict = TRUE], t) /\ [row EXCEPT !.conflict = TRUE].life = row.life
           /\ \A s \in {"in_force", "open", "superseded"} :
                  Fits([row EXCEPT !.status = s], t) /\ [row EXCEPT !.status = s].life = row.life
           /\ \A u \in Nat, v \in Nat : t <= u /\ v # 0 /\ v <= u /\ row.life # "none" =>
                  Fits([row EXCEPT !.version = v], u) /\ [row EXCEPT !.version = v].life = row.life
           /\ \A u \in Nat : t <= u /\ row.life # "none" => Fits(row, u)
<1>1. /\ row \in AnyRow /\ row.life \in Lifecycles /\ row.conflict \in BOOLEAN /\ row.version \in Nat
      /\ row.status \in {"in_force", "open", "superseded"}
  BY DEF Fits, AnyRow
<1>2. /\ row.version <= t /\ (row.life = "none" <=> t = 0) /\ (row.life # "none" => row.version # 0)
      /\ (row.conflict => row.life \in {"proposed", "kept"})
  BY DEF Fits
<1> DEFINE lf == row.life
           cn == row.conflict
           vn == row.version
           st == row.status
<1> HIDE DEF lf, cn, vn, st
<1>3. ASSUME NEW a \in Lifecycles, NEW b \in BOOLEAN, NEW v \in Nat, NEW s \in {"in_force", "open", "superseded"},
             NEW u \in Nat, v <= u, a = "none" <=> u = 0, a # "none" => v # 0, b => a \in {"proposed", "kept"}
      PROVE  /\ Fits([life |-> a, conflict |-> b, version |-> v, status |-> s], u)
             /\ [life |-> a, conflict |-> b, version |-> v, status |-> s].life = a
  BY <1>3 DEF Fits, AnyRow
<1>4. ASSUME NEW life \in Lifecycles \ {"none"}, lf # "none", life \in {"proposed", "kept"} \/ ~cn
      PROVE  Fits([life |-> life, conflict |-> cn, version |-> vn, status |-> st], t)
  BY <1>1, <1>2, <1>3, <1>4 DEF lf, cn, vn, st
<1>5. Fits([life |-> lf, conflict |-> FALSE, version |-> vn, status |-> st], t)
  BY <1>1, <1>2, <1>3 DEF lf, cn, vn, st
<1>6. lf \in {"proposed", "kept"} => Fits([life |-> lf, conflict |-> TRUE, version |-> vn, status |-> st], t)
  BY <1>1, <1>2, <1>3 DEF lf, cn, vn, st
<1>7. ASSUME NEW s \in {"in_force", "open", "superseded"}
      PROVE  Fits([life |-> lf, conflict |-> cn, version |-> vn, status |-> s], t)
  BY <1>1, <1>2, <1>3 DEF lf, cn, vn, st
<1>8. ASSUME NEW u \in Nat, NEW v \in Nat, t <= u, v # 0, v <= u, lf # "none"
      PROVE  Fits([life |-> lf, conflict |-> cn, version |-> v, status |-> st], u)
  <2>1. u # 0
    BY <1>8
  <2> QED
    BY <1>1, <1>2, <1>3, <1>8, <2>1 DEF lf, cn, vn, st
<1>9. ASSUME NEW u \in Nat, t <= u, row.life # "none" PROVE Fits(row, u)
  BY <1>1, <1>2, <1>9 DEF Fits
<1>10. /\ \A x : [row EXCEPT !.life = x] = [life |-> x, conflict |-> cn, version |-> vn, status |-> st]
       /\ \A x : [row EXCEPT !.conflict = x] = [life |-> lf, conflict |-> x, version |-> vn, status |-> st]
       /\ \A x : [row EXCEPT !.version = x] = [life |-> lf, conflict |-> cn, version |-> x, status |-> st]
       /\ \A x : [row EXCEPT !.status = x] = [life |-> lf, conflict |-> cn, version |-> vn, status |-> x]
  BY <1>1, RowSet DEF lf, cn, vn, st
<1>11. row.life = lf /\ row.conflict = cn
  BY DEF lf, cn
<1>12. ASSUME NEW life \in Lifecycles \ {"none"}, row.life # "none", life \in {"proposed", "kept"} \/ ~row.conflict
       PROVE  Fits([row EXCEPT !.life = life], t) /\ [row EXCEPT !.life = life].life = life
  <2>1. Fits([life |-> life, conflict |-> cn, version |-> vn, status |-> st], t)
    BY <1>4, <1>11, <1>12
  <2> QED
    BY <2>1, <1>10
<1>13. /\ Fits([row EXCEPT !.conflict = FALSE], t) /\ [row EXCEPT !.conflict = FALSE].life = row.life
       /\ ~[row EXCEPT !.conflict = FALSE].conflict
  BY <1>5, <1>10, <1>11
<1>14. ASSUME row.life \in {"proposed", "kept"}
       PROVE  Fits([row EXCEPT !.conflict = TRUE], t) /\ [row EXCEPT !.conflict = TRUE].life = row.life
  BY <1>6, <1>10, <1>11, <1>14
<1>15. ASSUME NEW s \in {"in_force", "open", "superseded"}
       PROVE  Fits([row EXCEPT !.status = s], t) /\ [row EXCEPT !.status = s].life = row.life
  <2>1. Fits([life |-> lf, conflict |-> cn, version |-> vn, status |-> s], t)
    BY <1>7
  <2> QED
    BY <2>1, <1>10, <1>11
<1>16. ASSUME NEW u \in Nat, NEW v \in Nat, t <= u, v # 0, v <= u, row.life # "none"
       PROVE  Fits([row EXCEPT !.version = v], u) /\ [row EXCEPT !.version = v].life = row.life
  <2>1. Fits([life |-> lf, conflict |-> cn, version |-> v, status |-> st], u)
    BY <1>8, <1>11, <1>16
  <2> QED
    BY <2>1, <1>10, <1>11
<1> QED
  BY <1>9, <1>12, <1>13, <1>14, <1>15, <1>16

----------------------------------------------------------------------------
\* The fields of a change, as the helpers build it.  What it says of
\* receipts (`acts') plays no part in these invariants.

ChangeFields == {"by", "mem", "top", "acts", "of", "make", "end", "queue", "undo", "touch", "before"}

Shape(ch) == DOMAIN ch = ChangeFields /\ ch = [f \in ChangeFields |-> ch[f]]

\* n differs from ch in the fields fs, and perhaps in its receipts.
Same(n, ch, fs) == Shape(n) /\ \A f \in ChangeFields \ (fs \cup {"acts"}) : n[f] = ch[f]

\* ... and in no other field at all.
SameAll(n, ch, fs) == Shape(n) /\ \A f \in ChangeFields \ fs : n[f] = ch[f]

LEMMA FieldNames ==
    /\ "by" \in ChangeFields /\ "mem" \in ChangeFields /\ "top" \in ChangeFields /\ "acts" \in ChangeFields
    /\ "of" \in ChangeFields /\ "make" \in ChangeFields /\ "end" \in ChangeFields /\ "queue" \in ChangeFields
    /\ "undo" \in ChangeFields /\ "touch" \in ChangeFields /\ "before" \in ChangeFields
  BY DEF ChangeFields

LEMMA ChangeShape ==
    ASSUME NEW by
    PROVE  /\ Shape(Change(by))
           /\ Change(by).mem = mem /\ Change(by).top = top /\ Change(by).before = mem
           /\ Change(by).of = 0 /\ Change(by).make = {} /\ Change(by).end = {}
           /\ Change(by).queue = {} /\ Change(by).undo = "none" /\ Change(by).touch = {}
  BY DEF Change, Shape, ChangeFields

LEMMA WriteShape ==
    ASSUME NEW ch, Shape(ch), NEW m, NEW row, NEW as
    PROVE  /\ Same(Write(ch, m, row, as), ch, {"mem"})
           /\ Write(ch, m, row, as).mem = [ch.mem EXCEPT ![m] = row]
  BY DEF Write, Same, Shape, ChangeFields

LEMMA SupersedeShape ==
    ASSUME NEW ch, Shape(ch), NEW ds
    PROVE  /\ Same(SupersedeAll(ch, ds), ch, {"mem", "touch"})
           /\ SupersedeAll(ch, ds).mem =
                  [d \in Memories |-> IF d \in ds THEN [ch.mem[d] EXCEPT !.status = "superseded"] ELSE ch.mem[d]]
           /\ SupersedeAll(ch, ds).touch = ch.touch \cup ds
  BY DEF SupersedeAll, Same, Shape, ChangeFields

LEMMA InsertShape ==
    ASSUME NEW m, NEW by, NEW life
    PROVE  /\ Same(Insert(m, by, life), Change(by), {"mem", "top", "queue"})
           /\ Insert(m, by, life).mem = [mem EXCEPT ![m] = Row(life)]
           /\ Insert(m, by, life).top = [top EXCEPT ![m] = 1]
           /\ Insert(m, by, life).queue = JudgeAfterWrite(m, 1, by, life)
<1> DEFINE ch == Write(Change(by), m, Row(life), <<life>>)
           q == JudgeAfterWrite(m, 1, by, life)
<1>1. Shape(Change(by)) /\ Change(by).mem = mem /\ Change(by).top = top
  BY ChangeShape
<1>2. Same(ch, Change(by), {"mem"}) /\ ch.mem = [mem EXCEPT ![m] = Row(life)]
  BY <1>1, WriteShape
<1>3. Insert(m, by, life) = [ch EXCEPT !.top[m] = 1, !.queue = q]
  BY DEF Insert
<1>4. ch.top = top /\ Shape(ch)
  BY <1>1, <1>2 DEF Same, ChangeFields
<1> DEFINE ts == [top EXCEPT ![m] = 1]
           n == [ch EXCEPT !["top"] = ts]
<1>5. Insert(m, by, life) = [n EXCEPT !["queue"] = q]
  BY <1>3, <1>4
<1> HIDE DEF ch, q, ts
<1>6. Same(n, ch, {"top"}) /\ n.top = ts
  BY <1>4, FieldNames DEF Same, Shape
<1>7. Shape(n)
  BY <1>6 DEF Same
<1> HIDE DEF n
<1>8. Same(Insert(m, by, life), n, {"queue"}) /\ Insert(m, by, life).queue = q
  BY <1>5, <1>7, FieldNames DEF Same, Shape
<1>9. Same(Insert(m, by, life), Change(by), {"mem", "top", "queue"})
  BY <1>2, <1>6, <1>8 DEF Same
<1> QED
  BY <1>2, <1>6, <1>8, <1>9 DEF Same, ChangeFields, q, ts

LEMMA NewWordsShape ==
    ASSUME NEW ch, Shape(ch), NEW m
    PROVE  /\ Same(NewWords(ch, m), ch, {"mem", "top"})
           /\ NewWords(ch, m).mem = [ch.mem EXCEPT ![m] = Reworded(m)]
           /\ NewWords(ch, m).top = [ch.top EXCEPT ![m] = ch.top[m] + 1]
<1> DEFINE n == Write(ch, m, Reworded(m), <<"edited">>)
<1>1. Same(n, ch, {"mem"}) /\ n.mem = [ch.mem EXCEPT ![m] = Reworded(m)]
  <2> DEFINE row == Reworded(m)
             as == <<"edited">>
  <2> HIDE DEF row, as
  <2>1. Same(Write(ch, m, row, as), ch, {"mem"}) /\ Write(ch, m, row, as).mem = [ch.mem EXCEPT ![m] = row]
    BY FieldNames DEF Write, Same, Shape
  <2> QED
    BY <2>1 DEF row, as
<1>2. NewWords(ch, m) = [n EXCEPT !.top[m] = n.top[m] + 1]
  BY DEF NewWords
<1>3. n.top = ch.top /\ Shape(n)
  BY <1>1 DEF Same, ChangeFields
<1> DEFINE ts == [ch.top EXCEPT ![m] = ch.top[m] + 1]
<1>4. NewWords(ch, m) = [n EXCEPT !["top"] = ts]
  BY <1>2, <1>3
<1> HIDE DEF n, ts
<1>5. Same(NewWords(ch, m), n, {"top"}) /\ NewWords(ch, m).top = ts
  BY <1>3, <1>4, FieldNames DEF Same, Shape
<1> QED
  BY <1>1, <1>5 DEF Same, ChangeFields, ts

LEMMA SettledShape ==
    ASSUME NEW f, NEW d, NEW ends
    PROVE  /\ Same(Settled(f, d, ends), Change("person"), {"mem", "undo", "touch", "end"})
           /\ Settled(f, d, ends).mem = [mem EXCEPT ![f] = [mem[f] EXCEPT !.conflict = FALSE]]
           /\ Settled(f, d, ends).undo = "resolve"
           /\ Settled(f, d, ends).touch = {f, d}
           /\ Settled(f, d, ends).end = {Triple("conflicts_with", f, e) : e \in ends}
<1> DEFINE row == [mem[f] EXCEPT !.conflict = FALSE]
           n == Write(Change("person"), f, row, <<"resolved">>)
           es == {Triple("conflicts_with", f, e) : e \in ends}
<1>1. Shape(Change("person")) /\ Change("person").mem = mem
  BY ChangeShape
<1>2. Same(n, Change("person"), {"mem"}) /\ n.mem = [mem EXCEPT ![f] = row]
  <2> DEFINE r == row
             as == <<"resolved">>
             ch == Change("person")
  <2> HIDE DEF r, as, ch
  <2>1. Same(Write(ch, f, r, as), ch, {"mem"}) /\ Write(ch, f, r, as).mem = [ch.mem EXCEPT ![f] = r]
    BY <1>1, FieldNames DEF ch, Write, Same, Shape
  <2>2. ch.mem = mem
    BY <1>1 DEF ch
  <2> QED
    BY <2>1, <2>2 DEF r, as, ch
<1>3. Settled(f, d, ends) = [n EXCEPT !.undo = "resolve", !.touch = {f, d}, !.end = es]
  BY DEF Settled
<1> DEFINE n1 == [n EXCEPT !["undo"] = "resolve"]
           n2 == [n1 EXCEPT !["touch"] = {f, d}]
           n3 == [n2 EXCEPT !["end"] = es]
<1> HIDE DEF n, es
<1>4. Shape(n)
  BY <1>2 DEF Same
<1>5. Same(n1, n, {"undo"}) /\ n1.undo = "resolve"
  BY <1>4, FieldNames DEF Same, Shape
<1>6. Settled(f, d, ends) = n3
  BY <1>3
<1> HIDE DEF n1
<1>7. Same(n2, n1, {"touch"}) /\ n2.touch = {f, d}
  BY <1>5, FieldNames DEF Same, Shape
<1> HIDE DEF n2
<1>8. Same(n3, n2, {"end"}) /\ n3.end = es
  BY <1>7, FieldNames DEF Same, Shape
<1> HIDE DEF n3
<1>9. Same(n3, Change("person"), {"mem", "undo", "touch", "end"})
  BY <1>2, <1>5, <1>7, <1>8 DEF Same
<1> QED
  BY <1>2, <1>5, <1>6, <1>7, <1>8, <1>9 DEF Same, ChangeFields, es

----------------------------------------------------------------------------
\* What a change must be for the record to stay well formed

Sound(ch) ==
    /\ Rowed(ch.top, ch.mem)
    /\ ch.top \in [Memories -> Nat] /\ \A m \in Memories : top[m] <= ch.top[m]
    /\ \A t \in ch.make : Linkable(ch.top, t)
    /\ \A t \in ch.end : Linkable(ch.top, t) /\ (ch.undo # "none" => t.kind = "conflicts_with")
    /\ \A j \in ch.queue : Queued(ch.top, j)
    /\ ch.touch \subseteq Memories
    /\ \A m \in ch.touch : Fits(ch.before[m], ch.top[m]) /\ ch.before[m].life # "none"
    /\ ch.of \in 0..Len(journal)

LEMMA Appended ==
    ASSUME NEW s, Len(s) \in Nat, s = [c \in 1..Len(s) |-> s[c]], NEW e
    PROVE  /\ Len(Append(s, e)) = Len(s) + 1
           /\ Append(s, e) = [c \in 1..Len(s) + 1 |-> Append(s, e)[c]]
           /\ \A c \in 1..Len(s) : Append(s, e)[c] = s[c]
           /\ Append(s, e)[Len(s) + 1] = e
<1> DEFINE S == {s[c] : c \in 1..Len(s)} \cup {e}
<1>1. s \in Seq(S) /\ e \in S
  OBVIOUS
<1> HIDE DEF S
<1>2. Append(s, e) \in Seq(S)
  BY <1>1
<1>3. Len(Append(s, e)) = Len(s) + 1
  BY <1>1
<1>4. DOMAIN Append(s, e) = 1..Len(s) + 1
  BY <1>2, <1>3
<1>5. Append(s, e) = [c \in 1..Len(s) + 1 |-> Append(s, e)[c]]
  <2>1. Append(s, e) \in [1..Len(Append(s, e)) -> S]
    BY <1>2, LenProperties
  <2> QED
    BY <1>3, <2>1
<1>6. \A c \in 1..Len(s) : Append(s, e)[c] = s[c]
  BY <1>1
<1>7. Append(s, e)[Len(s) + 1] = e
  BY <1>1
<1> QED
  BY <1>3, <1>5, <1>6, <1>7

\* The journal after a command: one entry more, and what it undid marked.
LEMMA Journalled ==
    ASSUME Recorded, NEW ch, Commit(ch), ch.of \in 0..Len(journal)
    PROVE  /\ Len(journal') = Len(journal) + 1
           /\ journal' = [c \in 1..Len(journal') |-> journal'[c]]
           /\ \A c \in 1..Len(journal) :
                 journal'[c] = IF c = ch.of THEN [journal[c] EXCEPT !.undone = TRUE] ELSE journal[c]
           /\ journal'[Len(journal) + 1] =
                 [kind |-> ch.undo, touch |-> ch.touch, undone |-> FALSE, made |-> ch.make \ Active, ended |-> ch.end,
                  before |-> [m \in ch.touch |-> ch.before[m]], after |-> [m \in ch.touch |-> ch.mem[m]]]
<1> DEFINE past == IF ch.of = 0 THEN journal ELSE [journal EXCEPT ![ch.of].undone = TRUE]
           e == [kind |-> ch.undo, touch |-> ch.touch, undone |-> FALSE, made |-> ch.make \ Active, ended |-> ch.end,
                 before |-> [m \in ch.touch |-> ch.before[m]], after |-> [m \in ch.touch |-> ch.mem[m]]]
<1>1. journal' = Append(past, e)
  BY DEF Commit
<1>2. Len(journal) \in Nat /\ journal = [c \in 1..Len(journal) |-> journal[c]]
  BY DEF Recorded
<1>3. /\ Len(past) = Len(journal) /\ past = [c \in 1..Len(journal) |-> past[c]]
      /\ \A c \in 1..Len(journal) : past[c] = IF c = ch.of THEN [journal[c] EXCEPT !.undone = TRUE] ELSE journal[c]
  <2>1. CASE ch.of = 0
    BY <1>2, <2>1
  <2>2. CASE ch.of # 0
    <3> DEFINE n == [journal[ch.of] EXCEPT !.undone = TRUE]
    <3> HIDE DEF n
    <3>1. past = [journal EXCEPT ![ch.of] = n]
      BY <2>2 DEF n
    <3>2. DOMAIN past = 1..Len(journal) /\ past = [c \in 1..Len(journal) |-> past[c]]
      BY <1>2, <3>1
    <3>3. \A c \in 1..Len(journal) : past[c] = IF c = ch.of THEN n ELSE journal[c]
      BY <1>2, <3>1
    <3> HIDE DEF past
    <3>4. Len(past) = Len(journal)
      <4> DEFINE S == {past[c] : c \in 1..Len(journal)}
      <4>1. past \in Seq(S)
        BY <1>2, <3>2
      <4> QED
        BY <1>2, <3>2, <4>1
    <3> QED
      BY <3>2, <3>3, <3>4 DEF n
  <2> QED
    BY <2>1, <2>2
<1> HIDE DEF past, e
<1>4. /\ Len(Append(past, e)) = Len(past) + 1
      /\ Append(past, e) = [c \in 1..Len(past) + 1 |-> Append(past, e)[c]]
      /\ \A c \in 1..Len(past) : Append(past, e)[c] = past[c]
      /\ Append(past, e)[Len(past) + 1] = e
  BY <1>2, <1>3, Appended
<1> QED
  BY <1>1, <1>3, <1>4 DEF e

\* What the marking leaves of an entry.
LEMMA Marked ==
    ASSUME Recorded, NEW ch, Commit(ch), ch.of \in 0..Len(journal), NEW c \in 1..Len(journal)
    PROVE  /\ DOMAIN journal'[c] = EntryFields /\ journal'[c] = [f \in EntryFields |-> journal'[c][f]]
           /\ journal'[c].kind = journal[c].kind /\ journal'[c].touch = journal[c].touch
           /\ journal'[c].made = journal[c].made /\ journal'[c].ended = journal[c].ended
           /\ journal'[c].before = journal[c].before
           /\ journal'[c].undone = (journal[c].undone \/ c = ch.of)
<1>1. journal'[c] = IF c = ch.of THEN [journal[c] EXCEPT !.undone = TRUE] ELSE journal[c]
  BY Journalled
<1>2. Entry(top, journal[c])
  BY DEF Recorded
<1> DEFINE e == journal[c]
<1>3. DOMAIN e = EntryFields /\ e = [f \in EntryFields |-> e[f]] /\ e.undone \in BOOLEAN
  BY <1>2 DEF Entry
<1> HIDE DEF e
<1>4. CASE c = ch.of
  <2> DEFINE n == [e EXCEPT !.undone = TRUE]
  <2>1. /\ DOMAIN n = EntryFields /\ n = [f \in EntryFields |-> n[f]]
        /\ n.kind = e.kind /\ n.touch = e.touch /\ n.made = e.made /\ n.ended = e.ended
        /\ n.before = e.before /\ n.undone
    BY <1>3 DEF EntryFields
  <2> QED
    BY <1>1, <1>4, <2>1 DEF e
<1>5. CASE c # ch.of
  BY <1>1, <1>3, <1>5 DEF e
<1> QED
  BY <1>4, <1>5

\* Stored versions only grow, and what is well formed stays so.
LEMMA Grows ==
    ASSUME NEW low \in [Memories -> Nat], NEW high \in [Memories -> Nat], \A m \in Memories : low[m] <= high[m]
    PROVE  /\ \A t : Linkable(low, t) => Linkable(high, t)
           /\ \A j : Queued(low, j) => Queued(high, j)
           /\ \A m \in Memories : \A row : Fits(row, low[m]) /\ row.life # "none" => Fits(row, high[m])
<1>1. ASSUME NEW t, Linkable(low, t) PROVE Linkable(high, t)
  <2>1. t.from \in Memories /\ t.to \in Memories
    BY <1>1 DEF Linkable, Triples
  <2> QED
    BY <1>1, <2>1 DEF Linkable
<1>2. ASSUME NEW j, Queued(low, j) PROVE Queued(high, j)
  <2>1. j.mem \in Memories /\ j.version \in Nat
    BY <1>2 DEF Queued, Jobs
  <2> QED
    BY <1>2, <2>1 DEF Queued
<1>3. ASSUME NEW m \in Memories, NEW row, Fits(row, low[m]), row.life # "none" PROVE Fits(row, high[m])
  BY <1>3, RowKept
<1> QED
  BY <1>1, <1>2, <1>3

LEMMA EntryGrows ==
    ASSUME NEW low \in [Memories -> Nat], NEW high \in [Memories -> Nat], \A m \in Memories : low[m] <= high[m],
           NEW e, Entry(low, e), NEW n, DOMAIN n = EntryFields, n = [f \in EntryFields |-> n[f]], n.undone \in BOOLEAN,
           n.kind = e.kind, n.touch = e.touch, n.made = e.made, n.ended = e.ended, n.before = e.before
    PROVE  Entry(high, n)
<1>1. \A t \in e.made : Linkable(high, t)
  BY Grows DEF Entry
<1>2. \A t \in e.ended : Linkable(high, t) /\ (e.kind # "none" => t.kind = "conflicts_with")
  BY Grows DEF Entry
<1>3. e.touch \subseteq Memories
  BY DEF Entry
<1>4. \A m \in e.touch : Fits(e.before[m], high[m]) /\ e.before[m].life # "none"
  <2> TAKE m \in e.touch
  <2>1. m \in Memories /\ Fits(e.before[m], low[m]) /\ e.before[m].life # "none"
    BY <1>3 DEF Entry
  <2> QED
    BY <2>1, Grows
<1> QED
  BY <1>1, <1>2, <1>3, <1>4 DEF Entry

\* A sound change, applied, leaves the record well formed.
LEMMA CommitRecorded ==
    ASSUME Recorded, NEW ch, Sound(ch), Commit(ch)
    PROVE  /\ Recorded'
           /\ top' = ch.top /\ mem' = ch.mem /\ jobs' = jobs \cup ch.queue
           /\ \A m \in Memories : top[m] <= top'[m]
<1>1. /\ top' = ch.top /\ mem' = ch.mem /\ jobs' = jobs \cup ch.queue
      /\ \A m \in Memories : ch.top[m] <= MaxVersion
      /\ links' = {l \in links : Of(l) \notin ch.end} \cup
            {[kind |-> t.kind, from |-> t.from, to |-> t.to, cmd |-> Now] : t \in ch.make \ Active}
  BY DEF Commit
<1>2. /\ top \in [Memories -> Nat] /\ top' \in [Memories -> Nat] /\ \A m \in Memories : top[m] <= top'[m]
      /\ top' \in [Memories -> 0..MaxVersion]
  BY <1>1, BoundsAssumption DEF Recorded, Sound
<1>3. /\ Len(journal') = Len(journal) + 1 /\ Len(journal) \in Nat
      /\ journal' = [c \in 1..Len(journal') |-> journal'[c]]
  BY Journalled DEF Sound, Recorded
<1>4. Rowed(top', mem')
  BY <1>1 DEF Sound
<1> DEFINE new == {[kind |-> t.kind, from |-> t.from, to |-> t.to, cmd |-> Now] : t \in ch.make \ Active}
<1>5. \A l \in new : l \in Links /\ Linkable(top', Of(l)) /\ l.cmd = Now /\ Of(l) \notin Active /\ Of(l) \in ch.make
  <2> TAKE l \in new
  <2>1. PICK t \in ch.make \ Active : l = [kind |-> t.kind, from |-> t.from, to |-> t.to, cmd |-> Now]
    OBVIOUS
  <2>2. Linkable(top', t)
    BY <1>1 DEF Sound
  <2>3. t \in Triples
    BY <2>2 DEF Linkable
  <2>4. Of(l) = t
    BY <2>1, <2>3 DEF Of, Triple, Triples
  <2> QED
    BY <1>3, <2>1, <2>2, <2>3, <2>4 DEF Links, Triples, Now
<1>6. \A l, k \in new : Of(l) = Of(k) => l = k
  <2> TAKE l, k \in new
  <2>1. l.cmd = Now /\ k.cmd = Now /\ l \in Links /\ k \in Links
    BY <1>5
  <2> QED
    BY <2>1 DEF Of, Triple, Links
<1>7. links' \subseteq links \cup new
  BY <1>1
<1>8. \A l \in links : Of(l) \in Active
  BY DEF Active
<1> HIDE DEF new
<1>9. links' \subseteq Links
  BY <1>5, <1>7 DEF Recorded
<1>10. \A l \in links' : Linkable(top', Of(l)) /\ l.cmd \in 1..Len(journal')
  <2> TAKE l \in links'
  <2>1. CASE l \in links
    <3>1. Linkable(top, Of(l)) /\ l.cmd \in 1..Len(journal)
      BY <2>1 DEF Recorded
    <3> QED
      BY <1>2, <1>3, <3>1, Grows
  <2>2. CASE l \in new
    BY <1>3, <1>5, <2>2 DEF Now
  <2> QED
    BY <1>7, <2>1, <2>2
<1>11. \A l, k \in links' : Of(l) = Of(k) => l = k
  <2> TAKE l, k \in links'
  <2>1. (l \in links \/ l \in new) /\ (k \in links \/ k \in new)
    BY <1>7
  <2>2. l \in links /\ k \in links => (Of(l) = Of(k) => l = k)
    BY DEF Recorded
  <2> QED
    BY <1>5, <1>6, <1>8, <2>1, <2>2
<1>12. \A j \in jobs' : Queued(top', j)
  <2> TAKE j \in jobs'
  <2>1. CASE j \in jobs
    BY <1>2, <2>1, Grows DEF Recorded
  <2>2. CASE j \in ch.queue
    BY <1>1, <2>2 DEF Sound
  <2> QED
    BY <1>1, <2>1, <2>2
<1>13. \A c \in 1..Len(journal') : Entry(top', journal'[c])
  <2> TAKE c \in 1..Len(journal')
  <2>1. CASE c \in 1..Len(journal)
    <3>1. Entry(top, journal[c])
      BY <2>1 DEF Recorded
    <3>2. /\ DOMAIN journal'[c] = EntryFields /\ journal'[c] = [f \in EntryFields |-> journal'[c][f]]
          /\ journal'[c].kind = journal[c].kind /\ journal'[c].touch = journal[c].touch
          /\ journal'[c].made = journal[c].made /\ journal'[c].ended = journal[c].ended
          /\ journal'[c].before = journal[c].before
          /\ journal'[c].undone = (journal[c].undone \/ c = ch.of)
      BY <2>1, Marked DEF Sound
    <3>3. journal'[c].undone \in BOOLEAN
      BY <3>1, <3>2 DEF Entry
    <3> QED
      BY <1>2, <3>1, <3>2, <3>3, EntryGrows
  <2>2. CASE c = Len(journal) + 1
    <3> DEFINE e == journal'[c]
    <3>1. e = [kind |-> ch.undo, touch |-> ch.touch, undone |-> FALSE, made |-> ch.make \ Active, ended |-> ch.end,
               before |-> [m \in ch.touch |-> ch.before[m]], after |-> [m \in ch.touch |-> ch.mem[m]]]
      BY <2>2, Journalled DEF Sound
    <3> HIDE DEF e
    <3>2. DOMAIN e = EntryFields /\ e = [f \in EntryFields |-> e[f]]
      BY <3>1 DEF EntryFields
    <3>3. /\ e.undone = FALSE /\ e.touch = ch.touch /\ e.made \subseteq ch.make /\ e.ended = ch.end /\ e.kind = ch.undo
          /\ \A m \in ch.touch : e.before[m] = ch.before[m]
      BY <3>1
    <3>4. Entry(top', e)
      BY <1>1, <3>2, <3>3 DEF Entry, Sound
    <3> QED
      BY <3>4 DEF e
  <2> QED
    BY <1>3, <2>1, <2>2
<1> QED
  BY <1>1, <1>2, <1>3, <1>4, <1>9, <1>10, <1>11, <1>12, <1>13 DEF Recorded

\* What a change must be for what memories were folded into to stand.
FoldSound(ch) ==
    /\ \A l \in links : l.kind = "merged_into" /\ Of(l) \notin ch.end =>
          Stands(ch.mem[l.to]) /\ (l.to \in ch.touch => Stands(ch.before[l.to]))
    /\ \A t \in ch.make : t.kind = "merged_into" => Stands(ch.mem[t.to])

LEMMA CommitFolds ==
    ASSUME Recorded, FoldInv, NEW ch, Sound(ch), FoldSound(ch), Commit(ch)
    PROVE  FoldInv'
<1>1. /\ mem' = ch.mem
      /\ links' = {l \in links : Of(l) \notin ch.end} \cup
            {[kind |-> t.kind, from |-> t.from, to |-> t.to, cmd |-> Now] : t \in ch.make \ Active}
  BY DEF Commit
<1>2. Len(journal') = Len(journal) + 1 /\ Len(journal) \in Nat
  BY Journalled DEF Sound, Recorded
<1>3. /\ journal'[Len(journal) + 1].made = ch.make \ Active
      /\ journal'[Len(journal) + 1].touch = ch.touch
      /\ \A m \in ch.touch : journal'[Len(journal) + 1].before[m] = ch.before[m]
  <2> DEFINE e == journal'[Len(journal) + 1]
  <2>1. e = [kind |-> ch.undo, touch |-> ch.touch, undone |-> FALSE, made |-> ch.make \ Active, ended |-> ch.end,
             before |-> [m \in ch.touch |-> ch.before[m]], after |-> [m \in ch.touch |-> ch.mem[m]]]
    BY Journalled DEF Sound
  <2> HIDE DEF e
  <2>2. e.made = ch.make \ Active /\ e.touch = ch.touch /\ \A m \in ch.touch : e.before[m] = ch.before[m]
    BY <2>1
  <2> QED
    BY <2>2 DEF e
<1>4. \A c \in 1..Len(journal) :
         /\ journal'[c].made = journal[c].made /\ journal'[c].touch = journal[c].touch
         /\ journal'[c].before = journal[c].before
  BY Marked DEF Sound
<1>5. ASSUME NEW l \in links'
      PROVE  \/ l \in links /\ Of(l) \notin ch.end
             \/ l.cmd = Len(journal) + 1 /\ Of(l) \in ch.make \ Active /\ Of(l).kind = l.kind /\ Of(l).to = l.to
  <2>1. CASE l \in links /\ Of(l) \notin ch.end
    BY <2>1
  <2>2. CASE ~(l \in links /\ Of(l) \notin ch.end)
    <3>1. PICK t \in ch.make \ Active : l = [kind |-> t.kind, from |-> t.from, to |-> t.to, cmd |-> Now]
      BY <1>1, <1>5, <2>2
    <3>2. t \in Triples
      BY <3>1 DEF Sound, Linkable
    <3>3. Of(l) = t /\ l.kind = t.kind /\ l.to = t.to
      BY <3>1, <3>2 DEF Of, Triple, Triples
    <3> QED
      BY <3>1, <3>3 DEF Now
  <2> QED
    BY <2>1, <2>2
<1>6. ASSUME NEW l \in links' PROVE l.cmd \in 1..Len(journal') /\ Of(l) \in journal'[l.cmd].made
  <2>1. CASE l \in links
    BY <1>2, <1>4, <2>1 DEF FoldInv
  <2>2. CASE l.cmd = Len(journal) + 1 /\ Of(l) \in ch.make \ Active
    BY <1>2, <1>3, <2>2
  <2> QED
    BY <1>5, <2>1, <2>2
<1>7. ASSUME NEW l \in links', l.kind = "merged_into"
      PROVE  /\ Stands(mem'[l.to])
             /\ \A c \in 1..Len(journal') :
                   l.cmd < c /\ l.to \in journal'[c].touch => Stands(journal'[c].before[l.to])
  <2>1. CASE l \in links /\ Of(l) \notin ch.end
    <3>1. Stands(ch.mem[l.to]) /\ (l.to \in ch.touch => Stands(ch.before[l.to]))
      BY <1>7, <2>1 DEF FoldSound
    <3>2. ASSUME NEW c \in 1..Len(journal'), l.cmd < c, l.to \in journal'[c].touch
          PROVE  Stands(journal'[c].before[l.to])
      <4>1. CASE c \in 1..Len(journal)
        BY <1>4, <1>7, <2>1, <3>2, <4>1 DEF FoldInv
      <4>2. CASE c = Len(journal) + 1
        BY <1>3, <3>1, <3>2, <4>2
      <4> QED
        BY <1>2, <4>1, <4>2
    <3> QED
      BY <1>1, <3>1, <3>2
  <2>2. CASE l.cmd = Len(journal) + 1 /\ Of(l) \in ch.make \ Active /\ Of(l).kind = l.kind /\ Of(l).to = l.to
    <3>1. Stands(ch.mem[l.to])
      BY <1>7, <2>2 DEF FoldSound
    <3>2. \A c \in 1..Len(journal') : ~(l.cmd < c)
      BY <1>2, <2>2
    <3> QED
      BY <1>1, <3>1, <3>2
  <2> QED
    BY <1>5, <2>1, <2>2
<1> QED
  BY <1>6, <1>7 DEF FoldInv, Of, Triple

\* What a change's judge jobs must be for verdicts to stay rationed.
QueueSound(ch) ==
    /\ \A j \in ch.queue : j.round <= Len(journal) + 1
    /\ \A j \in ch.queue : j.force =>
          /\ j.cause = ch.of /\ ch.of # 0
          /\ journal[ch.of].kind = "judge_fold" /\ ~journal[ch.of].undone
          /\ j.mem \in journal[ch.of].touch /\ journal[ch.of].before[j.mem].version = j.version
    /\ \A j, k \in ch.queue : j.force /\ k.force /\ j.mem = k.mem => j = k

Outcomes == {"none", "folded", "linked", "flagged"}

VerdictOf(j, outcome, target) ==
    [mem |-> j.mem, version |-> j.version, round |-> j.round, outcome |-> outcome, target |-> target]

\* The verdicts after a command: those there were, and perhaps one of a job
\* that had none yet.
Judged ==
    \/ verdicts' = verdicts
    \/ \E j \in jobs, outcome \in Outcomes, target \in SUBSET Memories :
          ~Done(j) /\ verdicts' = verdicts \cup {VerdictOf(j, outcome, target)}

LEMMA CommitVerdicts ==
    ASSUME Recorded, VerdictInv, NEW ch, Sound(ch), QueueSound(ch), Commit(ch), Judged
    PROVE  VerdictInv'
<1>1. jobs' = jobs \cup ch.queue
  BY DEF Commit
<1>2. Len(journal') = Len(journal) + 1 /\ Len(journal) \in Nat
  BY Journalled DEF Sound, Recorded
<1>3. \A c \in 1..Len(journal) :
         /\ journal'[c].kind = journal[c].kind /\ journal'[c].touch = journal[c].touch
         /\ journal'[c].before = journal[c].before
         /\ journal[c].undone => journal'[c].undone
         /\ c = ch.of => journal'[c].undone
  <2> TAKE c \in 1..Len(journal)
  <2>1. /\ journal'[c].kind = journal[c].kind /\ journal'[c].touch = journal[c].touch
        /\ journal'[c].before = journal[c].before
        /\ journal'[c].undone = (journal[c].undone \/ c = ch.of)
    BY Marked DEF Sound
  <2>2. (journal[c].undone => journal'[c].undone) /\ (c = ch.of => journal'[c].undone)
    BY <2>1, Zenon
  <2> QED
    BY <2>1, <2>2
<1>4. \A j \in jobs : j \in Jobs
  BY DEF Recorded, Queued
<1>5. \A j \in ch.queue : j \in Jobs
  BY DEF Sound, Queued
<1>6. \A j \in jobs' : j.round <= Len(journal')
  BY <1>1, <1>2, <1>4, <1>5 DEF QueueSound, VerdictInv, Jobs
<1>7. ASSUME NEW j \in jobs', j.force
      PROVE  j.cause \in 1..Len(journal') /\ FoldOf(j.cause, j.mem, j.version)'
  <2>1. CASE j \in jobs
    <3>1. j.cause \in 1..Len(journal) /\ FoldOf(j.cause, j.mem, j.version)
      BY <1>7, <2>1 DEF VerdictInv
    <3> QED
      BY <1>2, <1>3, <3>1 DEF FoldOf
  <2>2. CASE j \in ch.queue
    <3>1. /\ j.cause = ch.of /\ ch.of # 0 /\ journal[ch.of].kind = "judge_fold"
          /\ j.mem \in journal[ch.of].touch /\ journal[ch.of].before[j.mem].version = j.version
      BY <1>7, <2>2 DEF QueueSound
    <3>2. ch.of \in 1..Len(journal)
      BY <1>2, <3>1 DEF Sound
    <3> QED
      BY <1>2, <1>3, <3>1, <3>2 DEF FoldOf
  <2> QED
    BY <1>1, <2>1, <2>2
<1>8. ASSUME NEW j \in jobs', NEW k \in jobs', j.force, k.force, j.mem = k.mem, j.cause = k.cause PROVE j = k
  <2>1. ASSUME NEW i \in jobs, NEW n \in ch.queue, i.force, n.force, i.cause = n.cause PROVE FALSE
    <3>1. journal[i.cause].undone
      BY <2>1 DEF VerdictInv, FoldOf
    <3>2. n.cause = ch.of /\ ~journal[ch.of].undone
      BY <2>1 DEF QueueSound
    <3> QED
      BY <2>1, <3>1, <3>2
  <2>2. CASE j \in jobs /\ k \in jobs
    BY <1>8, <2>2 DEF VerdictInv
  <2>3. CASE j \in ch.queue /\ k \in ch.queue
    BY <1>8, <2>3 DEF QueueSound
  <2> QED
    BY <1>1, <1>8, <2>1, <2>2, <2>3
<1>9. \A w : Forced(w) => Forced(w)'
  BY <1>1 DEF Forced
<1>10. CASE verdicts' = verdicts
  <2>1. \A w \in verdicts' : w.round <= Len(journal')
    BY <1>2, <1>10 DEF VerdictInv
  <2>2. \A w, x \in verdicts' : w.mem = x.mem /\ w.version = x.version =>
           /\ w.round = x.round => w = x
           /\ w = x \/ Forced(w)' \/ Forced(x)'
    BY <1>9, <1>10 DEF VerdictInv
  <2> QED
    BY <1>6, <1>7, <1>8, <1>10, <2>1, <2>2 DEF VerdictInv
<1>11. ASSUME NEW j \in jobs, NEW outcome \in Outcomes, NEW target \in SUBSET Memories,
              ~Done(j), verdicts' = verdicts \cup {VerdictOf(j, outcome, target)}
       PROVE  VerdictInv'
  <2> DEFINE w0 == VerdictOf(j, outcome, target)
  <2>1. /\ w0 \in [mem : Memories, version : Nat, round : Nat,
                    outcome : {"none", "folded", "linked", "flagged"}, target : SUBSET Memories]
        /\ w0.mem = j.mem /\ w0.version = j.version /\ w0.round = j.round
    BY <1>4, <1>11 DEF VerdictOf, Outcomes, Jobs
  <2> HIDE DEF w0
  <2>2. \A w \in verdicts : w.mem = w0.mem /\ w.version = w0.version => w.round < w0.round /\ j.force
    BY <1>4, <1>11, <2>1 DEF Done, VerdictsOn, Jobs, VerdictInv
  <2>3. j.force => Forced(w0)'
    BY <1>1, <2>1 DEF Forced
  <2>4. \A w \in verdicts' : w \in verdicts \/ w = w0
    BY <1>11 DEF w0
  <2>5. \A w \in verdicts' : w.round <= Len(journal')
    BY <1>2, <1>4, <2>1, <2>4 DEF VerdictInv, Jobs
  <2>6. \A w, x \in verdicts' : w.mem = x.mem /\ w.version = x.version =>
           /\ w.round = x.round => w = x
           /\ w = x \/ Forced(w)' \/ Forced(x)'
    <3> TAKE w, x \in verdicts'
    <3> HAVE w.mem = x.mem /\ w.version = x.version
    <3>1. CASE w \in verdicts /\ x \in verdicts
      BY <1>9, <3>1 DEF VerdictInv
    <3>2. CASE w \in verdicts /\ x = w0
      BY <2>1, <2>2, <2>3, <3>2 DEF VerdictInv
    <3>3. CASE w = w0 /\ x \in verdicts
      BY <2>1, <2>2, <2>3, <3>3 DEF VerdictInv
    <3> QED
      BY <2>4, <3>1, <3>2, <3>3
  <2>7. verdicts' \subseteq [mem : Memories, version : Nat, round : Nat,
                             outcome : {"none", "folded", "linked", "flagged"}, target : SUBSET Memories]
    BY <2>1, <2>4 DEF VerdictInv
  <2> QED
    BY <1>6, <1>7, <1>8, <2>5, <2>6, <2>7 DEF VerdictInv
<1> QED
  BY <1>10, <1>11 DEF Judged

Good(ch) == Sound(ch) /\ FoldSound(ch) /\ QueueSound(ch)

Inv == Typed /\ FoldInv /\ VerdictInv

\* A good change, applied with what a command does beside it, keeps the
\* invariant.
LEMMA Applied ==
    ASSUME Inv, NEW ch, Good(ch), Commit(ch), Judged,
           \A c \in cites' : c \in cites \/ (c[1] \in Memories /\ ch.top[c[1]] # 0),
           \A d \in drafts' : d \in drafts \/ (d[1] \in Memories /\ d[2] \in 1..ch.top[d[1]])
    PROVE  Inv'
<1>1. Recorded' /\ top' = ch.top /\ \A m \in Memories : top[m] <= top'[m]
  BY CommitRecorded DEF Inv, Typed, Good
<1>2. FoldInv'
  BY CommitFolds DEF Inv, Typed, Good
<1>3. VerdictInv'
  BY CommitVerdicts DEF Inv, Typed, Good
<1>4. \A m \in Memories : top[m] \in Nat /\ top'[m] \in Nat
  BY <1>1, BoundsAssumption DEF Recorded, Inv, Typed
<1>5. \A c \in cites' : c[1] \in Memories /\ top'[c[1]] # 0
  BY <1>1, <1>4 DEF Inv, Typed
<1>6. \A d \in drafts' : d[1] \in Memories /\ d[2] \in 1..top'[d[1]]
  BY <1>1, <1>4 DEF Inv, Typed
<1> QED
  BY <1>1, <1>2, <1>3, <1>5, <1>6 DEF Inv, Typed

----------------------------------------------------------------------------
\* Most commands: nothing in the record stops standing, Undo would write
\* back what was there, and the judge is not forced.

Steady(ch) ==
    /\ Shape(ch)
    /\ ch.of = 0 /\ ch.before = mem
    /\ ch.top \in [Memories -> Nat] /\ \A m \in Memories : top[m] <= ch.top[m]
    /\ Rowed(ch.top, ch.mem)
    /\ \A m \in Memories : Stands(mem[m]) => Stands(ch.mem[m])
    /\ \A t \in ch.make : Linkable(ch.top, t) /\ t.kind # "merged_into"
    /\ \A t \in ch.end : Linkable(ch.top, t) /\ t.kind = "conflicts_with"
    /\ \A j \in ch.queue : Queued(ch.top, j) /\ ~j.force /\ j.round = 0
    /\ \A m \in ch.touch : m \in Memories /\ top[m] # 0

LEMMA Tops == Recorded => top \in [Memories -> Nat]
  BY BoundsAssumption DEF Recorded

LEMMA SteadyGood ==
    ASSUME Recorded, FoldInv, NEW ch, Steady(ch)
    PROVE  Good(ch)
<1>1. top \in [Memories -> Nat] /\ Len(journal) \in Nat /\ Rowed(top, mem)
  BY Tops DEF Recorded
<1>2. ASSUME NEW m \in ch.touch PROVE Fits(ch.before[m], ch.top[m]) /\ ch.before[m].life # "none"
  <2>1. m \in Memories /\ top[m] # 0 /\ ch.before[m] = mem[m]
    BY <1>2 DEF Steady
  <2>2. Fits(mem[m], top[m]) /\ mem[m].life # "none"
    BY <1>1, <2>1 DEF Rowed, Fits
  <2>3. ch.top \in [Memories -> Nat] /\ \A n \in Memories : top[n] <= ch.top[n]
    BY DEF Steady
  <2> QED
    BY <1>1, <2>1, <2>2, <2>3, Grows
<1>3. Sound(ch)
  BY <1>1, <1>2 DEF Sound, Steady
<1>4. FoldSound(ch)
  <2>1. ASSUME NEW l \in links, l.kind = "merged_into"
        PROVE  Stands(ch.mem[l.to]) /\ (l.to \in ch.touch => Stands(ch.before[l.to]))
    <3>1. l.to \in Memories /\ Stands(mem[l.to])
      BY <2>1 DEF FoldInv, Recorded, Links
    <3> QED
      BY <3>1 DEF Steady
  <2> QED
    BY <2>1 DEF FoldSound, Steady
<1>5. QueueSound(ch)
  BY <1>1 DEF QueueSound, Steady
<1> QED
  BY <1>3, <1>4, <1>5 DEF Good

LEMMA ChangeSteady ==
    ASSUME Recorded, NEW by
    PROVE  Steady(Change(by)) /\ Change(by).mem = mem /\ Change(by).top = top
  BY ChangeShape, Tops DEF Steady, Recorded

LEMMA RowedOne ==
    ASSUME NEW low, NEW high, NEW rows, Rowed(low, rows), NEW m \in Memories, NEW row, Fits(row, high[m]),
           \A n \in Memories \ {m} : high[n] = low[n]
    PROVE  Rowed(high, [rows EXCEPT ![m] = row])
  BY DEF Rowed

LEMMA SteadyWrite ==
    ASSUME NEW ch, Steady(ch), NEW m \in Memories, NEW row, NEW as, Fits(row, ch.top[m]), Stands(mem[m]) => Stands(row)
    PROVE  /\ Steady(Write(ch, m, row, as))
           /\ Write(ch, m, row, as).top = ch.top
<1> DEFINE n == Write(ch, m, row, as)
<1>1. Same(n, ch, {"mem"}) /\ n.mem = [ch.mem EXCEPT ![m] = row]
  <2>1. Shape(ch)
    BY DEF Steady
  <2> QED
    BY <2>1, FieldNames DEF Same, Shape, Write
<1> HIDE DEF n
<1>2. /\ n.of = ch.of /\ n.before = ch.before /\ n.top = ch.top /\ n.make = ch.make /\ n.end = ch.end
      /\ n.queue = ch.queue /\ n.touch = ch.touch /\ Shape(n)
  BY <1>1, FieldNames DEF Same
<1>3. Rowed(n.top, n.mem)
  BY <1>1, <1>2, RowedOne DEF Steady
<1>4. \A k \in Memories : Stands(mem[k]) => Stands(n.mem[k])
  BY <1>1 DEF Steady, Rowed
<1>5. Steady(n)
  BY <1>2, <1>3, <1>4 DEF Steady
<1> QED
  BY <1>2, <1>5 DEF n

LEMMA SteadySupersede ==
    ASSUME NEW ch, Steady(ch), NEW ds, \A d \in ds : d \in Memories /\ top[d] # 0
    PROVE  Steady(SupersedeAll(ch, ds))
<1> DEFINE n == SupersedeAll(ch, ds)
<1>1. /\ Same(n, ch, {"mem", "touch"}) /\ n.touch = ch.touch \cup ds
      /\ n.mem = [d \in Memories |-> IF d \in ds THEN [ch.mem[d] EXCEPT !.status = "superseded"] ELSE ch.mem[d]]
  BY SupersedeShape DEF Steady
<1> HIDE DEF n
<1>2. /\ n.of = ch.of /\ n.before = ch.before /\ n.top = ch.top /\ n.make = ch.make /\ n.end = ch.end
      /\ n.queue = ch.queue /\ Shape(n)
  BY <1>1, FieldNames DEF Same
<1>3. ASSUME NEW m \in Memories PROVE Fits(n.mem[m], ch.top[m]) /\ n.mem[m].life = ch.mem[m].life
  <2>1. Fits(ch.mem[m], ch.top[m]) /\ ch.top[m] \in Nat
    BY DEF Steady, Rowed
  <2>2. /\ Fits([ch.mem[m] EXCEPT !.status = "superseded"], ch.top[m])
        /\ [ch.mem[m] EXCEPT !.status = "superseded"].life = ch.mem[m].life
    BY <2>1, RowKept
  <2> QED
    BY <1>1, <2>1, <2>2
<1>4. Rowed(n.top, n.mem)
  BY <1>1, <1>2, <1>3 DEF Rowed
<1>5. \A m \in Memories : Stands(mem[m]) => Stands(n.mem[m])
  BY <1>3 DEF Steady, Stands
<1> QED
  BY <1>1, <1>2, <1>4, <1>5 DEF Steady, n

\* A field set that the steadiness of a change does not look at, or looks at
\* alone.
LEMMA SteadyField ==
    ASSUME NEW ch, Steady(ch), NEW n, NEW f \in {"undo", "touch", "make", "end", "queue"}, Same(n, ch, {f}),
           f = "touch" => \A m \in n.touch : m \in Memories /\ top[m] # 0,
           f = "make" => \A t \in n.make : Linkable(ch.top, t) /\ t.kind # "merged_into",
           f = "end" => \A t \in n.end : Linkable(ch.top, t) /\ t.kind = "conflicts_with",
           f = "queue" => \A j \in n.queue : Queued(ch.top, j) /\ ~j.force /\ j.round = 0
    PROVE  Steady(n) /\ n.mem = ch.mem /\ n.top = ch.top
<1>1. /\ n.of = ch.of /\ n.before = ch.before /\ n.top = ch.top /\ n.mem = ch.mem /\ Shape(n)
  BY FieldNames DEF Same
<1>2. /\ f # "touch" => n.touch = ch.touch
      /\ f # "make" => n.make = ch.make
      /\ f # "end" => n.end = ch.end
      /\ f # "queue" => n.queue = ch.queue
  BY FieldNames DEF Same
<1> QED
  BY <1>1, <1>2 DEF Steady

LEMMA AwayFits ==
    ASSUME NEW t \in Nat, NEW row, Fits(row, t), row.life # "none", NEW life \in Lifecycles \ {"none"}
    PROVE  Fits(Away(row, life), t) /\ Away(row, life).life = life
<1> DEFINE calm == [row EXCEPT !.conflict = FALSE]
<1>1. Fits(calm, t) /\ calm.life = row.life /\ ~calm.conflict
  BY RowKept
<1>2. Away(row, life) = [calm EXCEPT !.life = life]
  <2> DEFINE mid == [row EXCEPT !.life = life]
  <2>1. row \in AnyRow /\ calm \in AnyRow
    BY <1>1 DEF Fits
  <2>2. calm = [life |-> row.life, conflict |-> FALSE, version |-> row.version, status |-> row.status]
    BY <2>1, RowSet
  <2>3. mid = [life |-> life, conflict |-> row.conflict, version |-> row.version, status |-> row.status]
    BY <2>1, RowSet
  <2>4. mid \in AnyRow
    BY <2>1, <2>3 DEF AnyRow
  <2>5. Away(row, life) = [mid EXCEPT !.conflict = FALSE]
    BY DEF Away
  <2> HIDE DEF calm, mid
  <2>6. [calm EXCEPT !.life = life] =
            [life |-> life, conflict |-> calm.conflict, version |-> calm.version, status |-> calm.status]
    BY <2>1, RowSet
  <2>7. [mid EXCEPT !.conflict = FALSE] =
            [life |-> mid.life, conflict |-> FALSE, version |-> mid.version, status |-> mid.status]
    BY <2>4, RowSet
  <2> QED
    BY <2>2, <2>3, <2>5, <2>6, <2>7
<1> HIDE DEF calm
<1>3. Fits([calm EXCEPT !.life = life], t) /\ [calm EXCEPT !.life = life].life = life
  BY <1>1, RowKept
<1> QED
  BY <1>2, <1>3

LEMMA RowFits ==
    ASSUME NEW life \in Lifecycles \ {"none"}
    PROVE  Fits(Row(life), 1) /\ Row(life).life = life /\ ~Row(life).conflict
  BY DEF Fits, AnyRow, Row

LEMMA RewordedFits ==
    ASSUME Recorded, NEW m \in Memories, mem[m].life # "none"
    PROVE  Fits(Reworded(m), top[m] + 1) /\ Reworded(m).life = mem[m].life
<1>1. Fits(mem[m], top[m]) /\ top[m] \in Nat
  BY Tops DEF Recorded, Rowed
<1> DEFINE row == mem[m]
           t == top[m]
           v == top[m] + 1
<1>2. v \in Nat /\ t <= v /\ v # 0 /\ v <= v
  BY <1>1
<1>3. row.life # "none" /\ Fits(row, t) /\ t \in Nat
  BY <1>1
<1>4. Reworded(m) = [row EXCEPT !.version = v]
  BY DEF Reworded
<1> HIDE DEF row, t, v
<1>5. Fits([row EXCEPT !.version = v], v) /\ [row EXCEPT !.version = v].life = row.life
  <2>1. \A u \in Nat, w \in Nat : t <= u /\ w # 0 /\ w <= u /\ row.life # "none" =>
            Fits([row EXCEPT !.version = w], u) /\ [row EXCEPT !.version = w].life = row.life
    BY <1>3, RowKept
  <2> QED
    BY <1>2, <1>3, <2>1
<1> QED
  BY <1>4, <1>5 DEF row, v

\* A row that is there, as the schema has it.
LEMMA Existing ==
    ASSUME Recorded, NEW m \in Memories
    PROVE  /\ Fits(mem[m], top[m]) /\ top[m] \in Nat /\ mem[m] \in AnyRow
           /\ mem[m].life # "none" <=> top[m] # 0
           /\ mem[m].conflict => mem[m].life \in {"proposed", "kept"}
  BY Tops DEF Recorded, Rowed, Fits

LEMMA SteadyInsert ==
    ASSUME Recorded, NEW m \in Memories, mem[m].life = "none", NEW by, NEW life \in {"proposed", "kept"}
    PROVE  /\ Steady(Insert(m, by, life))
           /\ Insert(m, by, life).top = [top EXCEPT ![m] = 1]
<1> DEFINE n == Insert(m, by, life)
           q == JudgeAfterWrite(m, 1, by, life)
<1>1. /\ Same(n, Change(by), {"mem", "top", "queue"})
      /\ n.mem = [mem EXCEPT ![m] = Row(life)]
      /\ n.top = [top EXCEPT ![m] = 1]
      /\ n.queue = q
  BY InsertShape
<1> HIDE DEF n
<1>2. /\ n.of = 0 /\ n.before = mem /\ n.make = {} /\ n.end = {} /\ n.touch = {} /\ Shape(n)
  BY <1>1, ChangeShape, FieldNames DEF Same
<1>3. top \in [Memories -> Nat] /\ top[m] = 0 /\ Rowed(top, mem)
  BY Tops, Existing DEF Recorded
<1>4. n.top \in [Memories -> Nat] /\ \A k \in Memories : top[k] <= n.top[k]
  BY <1>1, <1>3
<1>5. Fits(Row(life), 1)
  BY RowFits DEF Lifecycles
<1>6. Rowed(n.top, n.mem)
  BY <1>1, <1>3, <1>5 DEF Rowed
<1>7. \A k \in Memories : Stands(mem[k]) => Stands(n.mem[k])
  BY <1>1, <1>3 DEF Stands, Rowed
<1>8. \A j \in q : Queued(n.top, j) /\ ~j.force /\ j.round = 0
  <2> TAKE j \in q
  <2>1. PICK mode \in {"proposal", "kept"} : j = Job(m, 1, mode)
    BY DEF JudgeAfterWrite
  <2>2. /\ j.mem = m /\ j.version = 1 /\ j.force = FALSE /\ j.round = 0
        /\ j \in Jobs
    BY <2>1 DEF Job, Jobs
  <2> QED
    BY <1>1, <1>3, <2>2 DEF Queued
<1>9. Steady(n)
  BY <1>1, <1>2, <1>4, <1>6, <1>7, <1>8 DEF Steady
<1> QED
  BY <1>1, <1>9 DEF n

LEMMA SteadyNewWords ==
    ASSUME Recorded, NEW m \in Memories, mem[m].life # "none", NEW by
    PROVE  /\ Steady(NewWords(Change(by), m))
           /\ NewWords(Change(by), m).top = [top EXCEPT ![m] = top[m] + 1]
<1> DEFINE ch == Change(by)
           n == NewWords(ch, m)
<1>1. /\ Steady(ch) /\ ch.mem = mem /\ ch.top = top /\ ch.queue = {}
  BY ChangeSteady, ChangeShape
<1> HIDE DEF ch
<1>2. /\ Same(n, ch, {"mem", "top"}) /\ n.mem = [mem EXCEPT ![m] = Reworded(m)]
      /\ n.top = [top EXCEPT ![m] = top[m] + 1]
  <2>1. Shape(ch)
    BY <1>1 DEF Steady
  <2>2. /\ Same(n, ch, {"mem", "top"}) /\ n.mem = [ch.mem EXCEPT ![m] = Reworded(m)]
        /\ n.top = [ch.top EXCEPT ![m] = ch.top[m] + 1]
    BY <2>1, NewWordsShape
  <2> QED
    BY <1>1, <2>2
<1> HIDE DEF n
<1>3. /\ n.of = ch.of /\ n.before = ch.before /\ n.make = ch.make /\ n.end = ch.end
      /\ n.queue = ch.queue /\ n.touch = ch.touch /\ Shape(n)
  BY <1>2, FieldNames DEF Same
<1>4. top \in [Memories -> Nat] /\ Rowed(top, mem)
  BY Tops DEF Recorded
<1>5. n.top \in [Memories -> Nat] /\ \A k \in Memories : top[k] <= n.top[k]
  BY <1>2, <1>4
<1>6. Fits(Reworded(m), top[m] + 1) /\ Reworded(m).life = mem[m].life
  BY RewordedFits
<1>7. Rowed(n.top, n.mem)
  BY <1>2, <1>4, <1>6 DEF Rowed
<1>8. \A k \in Memories : Stands(mem[k]) => Stands(n.mem[k])
  BY <1>2, <1>4, <1>6 DEF Stands, Rowed
<1>9. \A t : Linkable(top, t) => Linkable(n.top, t)
  BY <1>4, <1>5, Grows
<1>10. Steady(n)
  BY <1>1, <1>3, <1>5, <1>7, <1>8, <1>9 DEF Steady
<1> QED
  BY <1>2, <1>10 DEF n, ch

LEMMA SteadyKeepIt ==
    ASSUME NEW ch, Steady(ch), NEW m \in Memories
    PROVE  Steady(KeepIt(ch, m)) /\ KeepIt(ch, m).top = ch.top
<1>1. CASE ch.mem[m].life = "proposed"
  <2> DEFINE row == [ch.mem[m] EXCEPT !.life = "kept"]
  <2>1. Fits(ch.mem[m], ch.top[m]) /\ ch.top[m] \in Nat
    BY DEF Steady, Rowed
  <2>2. Fits(row, ch.top[m]) /\ row.life = "kept"
    <3> DEFINE r == ch.mem[m]
               t == ch.top[m]
    <3>1. Fits(r, t) /\ t \in Nat /\ r.life = "proposed"
      BY <1>1, <2>1
    <3> HIDE DEF r, t
    <3>2. "kept" \in Lifecycles \ {"none"}
      BY DEF Lifecycles
    <3>3. \A life \in Lifecycles \ {"none"} :
             r.life # "none" /\ (life \in {"proposed", "kept"} \/ ~r.conflict) =>
                 Fits([r EXCEPT !.life = life], t) /\ [r EXCEPT !.life = life].life = life
      BY <3>1, RowKept
    <3>4. Fits([r EXCEPT !.life = "kept"], t) /\ [r EXCEPT !.life = "kept"].life = "kept"
      BY <3>1, <3>2, <3>3
    <3> QED
      BY <3>4 DEF r, t
  <2> HIDE DEF row
  <2>3. Stands(row)
    BY <2>2 DEF Stands
  <2> DEFINE as == <<"kept">>
  <2> HIDE DEF as
  <2>4. Steady(Write(ch, m, row, as)) /\ Write(ch, m, row, as).top = ch.top
    BY <2>2, <2>3, SteadyWrite
  <2> QED
    BY <1>1, <2>4 DEF KeepIt, row, as
<1>2. CASE ch.mem[m].life # "proposed"
  BY <1>2 DEF KeepIt
<1> QED
  BY <1>1, <1>2

LEMMA SteadyGiveWay ==
    ASSUME Recorded, NEW ch, Steady(ch), NEW loser \in Memories, NEW winner \in Memories, loser # winner,
           top[loser] # 0, top[winner] # 0
    PROVE  Steady(GiveWay(ch, loser, winner)) /\ GiveWay(ch, loser, winner).top = ch.top
<1> DEFINE made == {Triple("supersedes", winner, loser)}
           linked == [ch EXCEPT !.make = made]
<1>1. /\ top \in [Memories -> Nat] /\ ch.top \in [Memories -> Nat] /\ Shape(ch)
      /\ \A m \in Memories : top[m] <= ch.top[m]
  BY Tops DEF Steady
<1>2. ch.top[loser] # 0 /\ ch.top[winner] # 0
  BY <1>1
<1>3. \A t \in made : Linkable(ch.top, t) /\ t.kind # "merged_into"
  BY <1>2 DEF Linkable, Triple, Triples, Kinds
<1> HIDE DEF made
<1>4. Same(linked, ch, {"make"}) /\ linked.make = made
  BY <1>1, FieldNames DEF Same, Shape
<1> HIDE DEF linked
<1>5. Steady(linked) /\ linked.mem = ch.mem /\ linked.top = ch.top
  BY <1>3, <1>4, SteadyField
<1>6. Fits(ch.mem[loser], ch.top[loser]) /\ ch.mem[loser].life # "none" /\ ch.top[loser] \in Nat
  BY <1>1, <1>2 DEF Steady, Rowed, Fits
<1>7. CASE ch.mem[loser].life = "proposed"
  <2> DEFINE row == Away(ch.mem[loser], "rejected")
             as == <<"rejected">>
  <2>1. Fits(row, ch.top[loser]) /\ row.life = "rejected"
    BY <1>6, AwayFits DEF Lifecycles
  <2>2. GiveWay(ch, loser, winner) = Write(ch, loser, row, as)
    BY <1>7 DEF GiveWay
  <2> HIDE DEF row, as
  <2>3. Fits(row, ch.top[loser]) /\ (Stands(mem[loser]) => Stands(row))
    BY <2>1 DEF Stands
  <2>4. \A r, a : Fits(r, ch.top[loser]) /\ (Stands(mem[loser]) => Stands(r)) =>
           Steady(Write(ch, loser, r, a)) /\ Write(ch, loser, r, a).top = ch.top
    BY SteadyWrite
  <2>5. Steady(Write(ch, loser, row, as)) /\ Write(ch, loser, row, as).top = ch.top
    BY <2>3, <2>4
  <2> QED
    BY <2>2, <2>5
<1>8. CASE ch.mem[loser].life # "proposed" /\ loser \in Decisions
  <2> DEFINE ds == {loser}
  <2>1. GiveWay(ch, loser, winner) = SupersedeAll(linked, ds)
    BY <1>8 DEF GiveWay, linked, made
  <2>2. \A d \in ds : d \in Memories /\ top[d] # 0
    OBVIOUS
  <2> HIDE DEF ds
  <2>3. Steady(SupersedeAll(linked, ds))
    BY <1>5, <2>2, SteadySupersede
  <2>4. SupersedeAll(linked, ds).top = linked.top
    <3>1. Same(SupersedeAll(linked, ds), linked, {"mem", "touch"})
      BY <1>5, SupersedeShape DEF Steady
    <3> QED
      BY <3>1, FieldNames DEF Same
  <2> QED
    BY <1>5, <2>1, <2>3, <2>4
<1>9. CASE ~(ch.mem[loser].life = "proposed") /\ ~(loser \in Decisions)
  <2> DEFINE row == Away(ch.mem[loser], "faded")
             as == <<"faded">>
  <2>1. Fits(row, ch.top[loser]) /\ row.life = "faded"
    BY <1>6, AwayFits DEF Lifecycles
  <2>2. GiveWay(ch, loser, winner) = Write(linked, loser, row, as)
    BY <1>9 DEF GiveWay, linked, made
  <2> HIDE DEF row, as
  <2>3. Fits(row, linked.top[loser]) /\ (Stands(mem[loser]) => Stands(row))
    BY <1>5, <2>1 DEF Stands
  <2>4. \A r, a : Fits(r, linked.top[loser]) /\ (Stands(mem[loser]) => Stands(r)) =>
           Steady(Write(linked, loser, r, a)) /\ Write(linked, loser, r, a).top = linked.top
    BY <1>5, SteadyWrite
  <2>5. Steady(Write(linked, loser, row, as)) /\ Write(linked, loser, row, as).top = linked.top
    BY <2>3, <2>4
  <2> QED
    BY <1>5, <2>2, <2>5
<1> QED
  BY <1>7, <1>8, <1>9

LEMMA SteadySettled ==
    ASSUME Recorded, NEW f \in Memories, NEW d \in Memories, top[f] # 0, top[d] # 0, NEW ends,
           \A e \in ends : Triple("conflicts_with", f, e) \in Active
    PROVE  /\ Steady(Settled(f, d, ends)) /\ Settled(f, d, ends).top = top
           /\ Settled(f, d, ends).mem = [mem EXCEPT ![f] = [mem[f] EXCEPT !.conflict = FALSE]]
           /\ Settled(f, d, ends).touch = {f, d} /\ Settled(f, d, ends).make = {}
           /\ Settled(f, d, ends).queue = {}
<1> DEFINE n == Settled(f, d, ends)
           ch == Change("person")
           row == [mem[f] EXCEPT !.conflict = FALSE]
<1>1. /\ Same(n, ch, {"mem", "undo", "touch", "end"})
      /\ n.mem = [mem EXCEPT ![f] = row]
      /\ n.touch = {f, d}
      /\ n.end = {Triple("conflicts_with", f, e) : e \in ends}
  BY SettledShape
<1>2. /\ ch.top = top /\ ch.before = mem /\ ch.of = 0 /\ ch.make = {} /\ ch.queue = {}
  BY ChangeShape
<1>3. Fits(row, top[f]) /\ row.life = mem[f].life
  <2>1. Fits(mem[f], top[f]) /\ top[f] \in Nat
    BY Existing
  <2> DEFINE r == mem[f]
             t == top[f]
  <2> HIDE DEF r, t
  <2>2. Fits([r EXCEPT !.conflict = FALSE], t) /\ [r EXCEPT !.conflict = FALSE].life = r.life
    BY <2>1, RowKept DEF r, t
  <2> QED
    BY <2>2 DEF r, t
<1> HIDE DEF n, ch, row
<1>4. /\ n.top = top /\ n.before = mem /\ n.of = 0 /\ n.make = {} /\ n.queue = {} /\ Shape(n)
  BY <1>1, <1>2, FieldNames DEF Same
<1>5. top \in [Memories -> Nat] /\ Rowed(top, mem) /\ \A m \in Memories : top[m] <= top[m]
  BY Tops DEF Recorded
<1>6. Rowed(top, n.mem)
  BY <1>1, <1>3, <1>5 DEF Rowed
<1>7. \A m \in Memories : Stands(mem[m]) => Stands(n.mem[m])
  BY <1>1, <1>3, <1>5 DEF Stands, Rowed
<1>8. \A t \in n.end : Linkable(top, t) /\ t.kind = "conflicts_with"
  <2> TAKE t \in n.end
  <2>1. PICK e \in ends : t = Triple("conflicts_with", f, e)
    BY <1>1
  <2>2. PICK l \in links : t = Of(l)
    BY <2>1 DEF Active
  <2> QED
    BY <2>1, <2>2 DEF Recorded, Triple
<1>9. Steady(n)
  BY <1>1, <1>4, <1>5, <1>6, <1>7, <1>8 DEF Steady
<1> QED
  BY <1>1, <1>4, <1>9 DEF n, row

\* One side's new words in "keep both".
LEMMA SteadyPut ==
    ASSUME Recorded, NEW ch, Steady(ch), NEW m \in Memories, top[m] # 0, NEW v \in Wordings(m)
    PROVE  Steady(Put(ch, m, v))
<1>1. /\ top \in [Memories -> Nat] /\ ch.top \in [Memories -> Nat] /\ Shape(ch)
      /\ \A n \in Memories : top[n] <= ch.top[n]
  BY Tops DEF Steady
<1>2. Fits(mem[m], top[m]) /\ mem[m].life # "none"
  BY Existing
<1>3. v \in Nat /\ v # 0
  BY <1>1, <1>2 DEF Wordings, Adoptable, Fits, AnyRow
<1>4. CASE v = mem[m].version
  BY <1>4 DEF Put
<1>5. CASE v # mem[m].version
  <2> DEFINE r == ch.mem[m]
             row == [r EXCEPT !.version = v]
             as == <<"edited">>
             w == Write(ch, m, row, as)
             u == IF v > ch.top[m] THEN v ELSE ch.top[m]
             tops == [ch.top EXCEPT ![m] = u]
             n == Put(ch, m, v)
  <2>1. Fits(r, ch.top[m]) /\ r.life # "none" /\ u \in Nat /\ ch.top[m] \in Nat
    BY <1>1, <1>2, <1>3 DEF Steady, Rowed, Fits
  <2>2. n = [w EXCEPT !.top[m] = IF v > w.top[m] THEN v ELSE w.top[m]]
    BY <1>5 DEF Put
  <2>3. v <= u /\ ch.top[m] <= u
    BY <1>1, <1>3
  <2> HIDE DEF u
  <2>4. Fits(row, u) /\ row.life = r.life
    <3> DEFINE t == ch.top[m]
    <3> HIDE DEF r, t
    <3>1. t \in Nat /\ Fits(r, t) /\ t <= u
      BY <2>1, <2>3 DEF t
    <3>2. \A x \in Nat, y \in Nat : t <= x /\ y # 0 /\ y <= x /\ r.life # "none" =>
              Fits([r EXCEPT !.version = y], x) /\ [r EXCEPT !.version = y].life = r.life
      BY <3>1, RowKept
    <3> QED
      BY <1>3, <2>1, <2>3, <3>1, <3>2
  <2> HIDE DEF row, as
  <2>5. Same(w, ch, {"mem"}) /\ w.mem = [ch.mem EXCEPT ![m] = row]
    BY <1>1, FieldNames DEF Write, Same, Shape
  <2> HIDE DEF w
  <2>6. w.top = ch.top /\ Shape(w)
    BY <2>5, FieldNames DEF Same
  <2>7. n = [w EXCEPT !["top"] = tops]
    BY <2>2, <2>6 DEF u
  <2> HIDE DEF n, tops
  <2>8. Same(n, w, {"top"}) /\ n.top = tops
    BY <2>6, <2>7, FieldNames DEF Same, Shape
  <2>9. /\ n.of = ch.of /\ n.before = ch.before /\ n.make = ch.make /\ n.end = ch.end
        /\ n.queue = ch.queue /\ n.touch = ch.touch /\ Shape(n) /\ n.mem = w.mem
    BY <2>5, <2>8, FieldNames DEF Same
  <2>10. tops \in [Memories -> Nat] /\ \A k \in Memories : ch.top[k] <= tops[k]
    BY <1>1, <2>1, <2>3 DEF tops
  <2>11. \A k \in Memories : top[k] <= tops[k]
    BY <1>1, <2>10
  <2>12. Rowed(tops, n.mem)
    <3>1. Rowed(ch.top, ch.mem)
      BY DEF Steady
    <3> QED
      BY <1>1, <2>4, <2>5, <2>9, <3>1 DEF Rowed, tops
  <2>13. \A k \in Memories : Stands(mem[k]) => Stands(n.mem[k])
    BY <2>4, <2>5, <2>9 DEF Steady, Stands, Rowed, r
  <2>14. /\ \A t : Linkable(ch.top, t) => Linkable(tops, t)
         /\ \A j : Queued(ch.top, j) => Queued(tops, j)
    BY <1>1, <2>10, Grows
  <2>15. Steady(n)
    BY <2>8, <2>9, <2>10, <2>11, <2>12, <2>13, <2>14 DEF Steady
  <2> QED
    BY <2>15 DEF n
<1> QED
  BY <1>4, <1>5

----------------------------------------------------------------------------
\* The invariant through each command

\* A command whose change is steady, that records no verdict.
LEMMA SteadyStep ==
    ASSUME Inv, NEW ch, Steady(ch), Commit(ch), verdicts' = verdicts,
           \A c \in cites' : c \in cites \/ (c[1] \in Memories /\ ch.top[c[1]] # 0),
           \A d \in drafts' : d \in drafts \/ (d[1] \in Memories /\ d[2] \in 1..ch.top[d[1]])
    PROVE  Inv'
<1>1. Good(ch)
  BY SteadyGood DEF Inv, Typed
<1>2. Judged
  BY DEF Judged
<1> QED
  BY <1>1, <1>2, Applied

LEMMA QuietStep ==
    ASSUME Inv, NEW ch, Steady(ch), Commit(ch), UNCHANGED <<judged, cited>>
    PROVE  Inv'
<1>1. verdicts' = verdicts /\ drafts' = drafts /\ cites' = cites
  BY DEF judged, cited
<1> QED
  BY <1>1, SteadyStep

\* A change that may be undone, and touches memories there are.
LEMMA SteadyTouch ==
    ASSUME NEW ch, Steady(ch), NEW kind, NEW ms, \A m \in ms : m \in Memories /\ top[m] # 0
    PROVE  Steady([ch EXCEPT !.undo = kind, !.touch = ms])
<1> DEFINE n1 == [ch EXCEPT !["undo"] = kind]
           n2 == [n1 EXCEPT !["touch"] = ms]
<1>1. Shape(ch)
  BY DEF Steady
<1>2. Same(n1, ch, {"undo"})
  BY <1>1, FieldNames DEF Same, Shape
<1> HIDE DEF n1
<1>3. Steady(n1)
  BY <1>2, SteadyField
<1>4. Shape(n1)
  BY <1>2 DEF Same
<1>5. Same(n2, n1, {"touch"}) /\ n2.touch = ms
  BY <1>4, FieldNames DEF Same, Shape
<1> HIDE DEF n2
<1>6. Steady(n2)
  BY <1>3, <1>5, SteadyField
<1> QED
  BY <1>6 DEF n2, n1

LEMMA InsertCites ==
    ASSUME Recorded, NEW m \in Memories, Cite(m), NEW ch, ch.top = [top EXCEPT ![m] = 1]
    PROVE  \A c \in cites' : c \in cites \/ (c[1] \in Memories /\ ch.top[c[1]] # 0)
  BY Tops DEF Cite, cited

LEMMA ProposeInv ==
    ASSUME Inv, NEW m \in Memories, NEW by, Propose(m, by)
    PROVE  Inv'
<1> DEFINE ch == Insert(m, by, "proposed")
<1>1. Recorded /\ mem[m].life = "none" /\ Cite(m) /\ Commit(ch) /\ UNCHANGED judged
  BY DEF Inv, Typed, Propose
<1>2. Steady(ch) /\ ch.top = [top EXCEPT ![m] = 1]
  BY <1>1, SteadyInsert
<1> HIDE DEF ch
<1>3. \A c \in cites' : c \in cites \/ (c[1] \in Memories /\ ch.top[c[1]] # 0)
  BY <1>1, <1>2, InsertCites
<1>4. verdicts' = verdicts /\ drafts' = drafts
  BY <1>1 DEF judged
<1> QED
  BY <1>1, <1>2, <1>3, <1>4, SteadyStep

LEMMA UpdateInv ==
    ASSUME Inv, NEW m \in Memories, NEW n \in Memories, NEW by, Update(m, n, by)
    PROVE  Inv'
<1> DEFINE ch0 == Insert(n, by, "proposed")
           made == {Triple("supersedes", n, m)}
           ch == [ch0 EXCEPT !["make"] = made]
<1>1. /\ Recorded /\ mem[m].life = "kept" /\ mem[n].life = "none" /\ Commit(ch)
      /\ UNCHANGED <<judged, cited>>
  BY DEF Inv, Typed, Update
<1>2. Steady(ch0) /\ ch0.top = [top EXCEPT ![n] = 1]
  BY <1>1, SteadyInsert
<1> HIDE DEF ch0
<1>3. top[m] # 0 /\ n # m /\ top \in [Memories -> Nat]
  BY <1>1, Existing, Tops
<1>4. \A t \in made : Linkable(ch0.top, t) /\ t.kind # "merged_into"
  BY <1>2, <1>3 DEF Linkable, Triple, Triples, Kinds
<1> HIDE DEF made
<1>5. Same(ch, ch0, {"make"}) /\ ch.make = made
  BY <1>2, FieldNames DEF Same, Shape, Steady
<1> HIDE DEF ch
<1>6. Steady(ch)
  BY <1>2, <1>4, <1>5, SteadyField
<1> QED
  BY <1>1, <1>6, QuietStep

LEMMA EditInv ==
    ASSUME Inv, NEW m \in Memories, NEW by, Edit(m, by)
    PROVE  Inv'
<1> DEFINE ch0 == NewWords(Change(by), m)
           q == JudgeAfterWrite(m, top[m] + 1, by, mem[m].life)
           ch1 == [ch0 EXCEPT !["queue"] = q]
           ch2 == [ch1 EXCEPT !.undo = "edit", !.touch = {m}]
           ch == IF by = "person" THEN ch2 ELSE ch1
<1>1. /\ Recorded /\ mem[m].life \in {"proposed", "kept"} /\ Commit(ch)
      /\ UNCHANGED <<judged, cited>>
  BY DEF Inv, Typed, Edit
<1>2. Steady(ch0) /\ ch0.top = [top EXCEPT ![m] = top[m] + 1]
  BY <1>1, SteadyNewWords
<1>3. top[m] # 0 /\ top \in [Memories -> Nat]
  BY <1>1, Existing, Tops
<1> HIDE DEF ch0
<1>4. \A j \in q : Queued(ch0.top, j) /\ ~j.force /\ j.round = 0
  <2> TAKE j \in q
  <2>1. PICK mode \in {"proposal", "kept"} : j = Job(m, top[m] + 1, mode)
    BY DEF JudgeAfterWrite
  <2>2. /\ j.mem = m /\ j.version = top[m] + 1 /\ j.force = FALSE /\ j.round = 0
        /\ j \in Jobs
    BY <1>3, <2>1 DEF Job, Jobs
  <2> QED
    BY <1>2, <1>3, <2>2 DEF Queued
<1> HIDE DEF q
<1>5. Same(ch1, ch0, {"queue"}) /\ ch1.queue = q
  BY <1>2, FieldNames DEF Same, Shape, Steady
<1> HIDE DEF ch1
<1>6. Steady(ch1)
  BY <1>2, <1>4, <1>5, SteadyField
<1>7. Steady(ch2)
  BY <1>3, <1>6, SteadyTouch
<1> HIDE DEF ch2
<1>8. Steady(ch)
  BY <1>6, <1>7
<1> HIDE DEF ch
<1> QED
  BY <1>1, <1>8, QuietStep

\* What keeping a memory supersedes is there.
LEMMA SupersedesThere ==
    ASSUME Recorded, NEW m
    PROVE  \A d \in Supersedes(m) : d \in Memories /\ top[d] # 0
  BY Existing DEF Supersedes, InForce

LEMMA EditThenKeepInv ==
    ASSUME Inv, NEW m \in Memories, EditThenKeep(m)
    PROVE  Inv'
<1> DEFINE kept == [Reworded(m) EXCEPT !.life = "kept"]
           as == <<"edited", "kept">>
           c0 == Change("person")
           w == Write(c0, m, kept, as)
           tops == [top EXCEPT ![m] = top[m] + 1]
           n == [w EXCEPT !["top"] = tops]
           ch0 == [n EXCEPT !.undo = "edit", !.touch = {m}]
           ch == SupersedeAll(ch0, Supersedes(m))
<1>1. /\ Recorded /\ mem[m].life = "proposed" /\ ~mem[m].conflict
      /\ Commit(SupersedeAll([[w EXCEPT !.top[m] = w.top[m] + 1] EXCEPT !.undo = "edit", !.touch = {m}], Supersedes(m)))
      /\ UNCHANGED <<judged, cited>>
  BY DEF Inv, Typed, EditThenKeep
<1>2. /\ Shape(c0) /\ c0.mem = mem /\ c0.top = top /\ Steady(c0)
  BY <1>1, ChangeShape, ChangeSteady
<1>3. top[m] # 0 /\ top \in [Memories -> Nat] /\ Rowed(top, mem)
  BY <1>1, Existing, Tops DEF Recorded
<1>4. Fits(kept, top[m] + 1) /\ kept.life = "kept"
  <2> DEFINE r == Reworded(m)
             t == top[m] + 1
  <2>1. Fits(r, t) /\ r.life = "proposed" /\ t \in Nat
    BY <1>1, <1>3, RewordedFits
  <2> HIDE DEF r, t
  <2>2. "kept" \in Lifecycles \ {"none"}
    BY DEF Lifecycles
  <2>3. \A life \in Lifecycles \ {"none"} :
           r.life # "none" /\ (life \in {"proposed", "kept"} \/ ~r.conflict) =>
               Fits([r EXCEPT !.life = life], t) /\ [r EXCEPT !.life = life].life = life
    BY <2>1, RowKept
  <2>4. Fits([r EXCEPT !.life = "kept"], t) /\ [r EXCEPT !.life = "kept"].life = "kept"
    BY <2>1, <2>2, <2>3
  <2> QED
    BY <2>4 DEF r, t
<1> HIDE DEF kept, as, c0
<1>5. Same(w, c0, {"mem"}) /\ w.mem = [mem EXCEPT ![m] = kept]
  BY <1>2, FieldNames DEF Same, Shape, Write
<1> HIDE DEF w
<1>6. w.top = top /\ Shape(w)
  BY <1>2, <1>5, FieldNames DEF Same
<1>7. [w EXCEPT !.top[m] = w.top[m] + 1] = n
  BY <1>6
<1>8. Commit(ch) /\ UNCHANGED <<judged, cited>>
  BY <1>1, <1>7
<1> HIDE DEF tops
<1>9. Same(n, w, {"top"}) /\ n.top = tops
  BY <1>6, FieldNames DEF Same, Shape
<1> HIDE DEF n
<1>10. /\ n.of = c0.of /\ n.before = c0.before /\ n.make = c0.make /\ n.end = c0.end
       /\ n.queue = c0.queue /\ n.touch = c0.touch /\ Shape(n) /\ n.mem = w.mem
  BY <1>5, <1>9, FieldNames DEF Same
<1>11. tops \in [Memories -> Nat] /\ \A k \in Memories : top[k] <= tops[k]
  BY <1>3 DEF tops
<1>12. Rowed(tops, n.mem)
  BY <1>3, <1>4, <1>5, <1>10 DEF Rowed, tops
<1>13. \A k \in Memories : Stands(mem[k]) => Stands(n.mem[k])
  BY <1>3, <1>4, <1>5, <1>10 DEF Stands, Rowed
<1>14. /\ c0.make = {} /\ c0.end = {} /\ c0.queue = {} /\ c0.touch = {} /\ c0.of = 0 /\ c0.before = mem
  BY ChangeShape DEF c0
<1>15. Steady(n)
  BY <1>9, <1>10, <1>11, <1>12, <1>13, <1>14 DEF Steady
<1>16. Steady(ch0)
  BY <1>3, <1>15, SteadyTouch
<1> HIDE DEF ch0
<1>17. Steady(ch)
  BY <1>1, <1>16, SupersedesThere, SteadySupersede
<1> HIDE DEF ch
<1> QED
  BY <1>8, <1>17, QuietStep

LEMMA KeepInv ==
    ASSUME Inv, NEW m \in Memories, Keep(m)
    PROVE  Inv'
<1> DEFINE kept == [mem[m] EXCEPT !.life = "kept"]
           as == <<"kept">>
           c0 == Change("person")
           w == Write(c0, m, kept, as)
           ch0 == [w EXCEPT !.undo = "keep", !.touch = {m}]
           ch == SupersedeAll(ch0, Supersedes(m))
<1>1. /\ Recorded /\ mem[m].life = "proposed" /\ Commit(ch) /\ UNCHANGED <<judged, cited>>
  BY DEF Inv, Typed, Keep
<1>2. Steady(c0) /\ c0.top = top
  BY <1>1, ChangeSteady
<1>3. top[m] # 0
  BY <1>1, Existing
<1>4. Fits(kept, top[m]) /\ kept.life = "kept"
  <2> DEFINE r == mem[m]
             t == top[m]
  <2>1. Fits(r, t) /\ r.life = "proposed" /\ t \in Nat
    BY <1>1, Existing
  <2> HIDE DEF r, t
  <2>2. "kept" \in Lifecycles \ {"none"}
    BY DEF Lifecycles
  <2>3. \A life \in Lifecycles \ {"none"} :
           r.life # "none" /\ (life \in {"proposed", "kept"} \/ ~r.conflict) =>
               Fits([r EXCEPT !.life = life], t) /\ [r EXCEPT !.life = life].life = life
    BY <2>1, RowKept
  <2>4. Fits([r EXCEPT !.life = "kept"], t) /\ [r EXCEPT !.life = "kept"].life = "kept"
    BY <2>1, <2>2, <2>3
  <2> QED
    BY <2>4 DEF r, t
<1> HIDE DEF kept, as, c0
<1>5. Fits(kept, c0.top[m]) /\ (Stands(mem[m]) => Stands(kept))
  BY <1>2, <1>4 DEF Stands
<1>6. \A r, a : Fits(r, c0.top[m]) /\ (Stands(mem[m]) => Stands(r)) => Steady(Write(c0, m, r, a))
  BY <1>2, SteadyWrite
<1>7. Steady(w)
  BY <1>5, <1>6
<1> HIDE DEF w
<1>8. Steady(ch0)
  BY <1>3, <1>7, SteadyTouch
<1> HIDE DEF ch0
<1>9. Steady(ch)
  BY <1>1, <1>8, SupersedesThere, SteadySupersede
<1> HIDE DEF ch
<1> QED
  BY <1>1, <1>9, QuietStep

LEMMA RejectInv ==
    ASSUME Inv, NEW m \in Memories, Reject(m)
    PROVE  Inv'
<1> DEFINE row == Away(mem[m], "rejected")
           as == <<"rejected">>
           c0 == Change("person")
           w == Write(c0, m, row, as)
           ch == [w EXCEPT !.undo = "reject", !.touch = {m}]
<1>1. /\ Recorded /\ mem[m].life = "proposed" /\ Commit(ch) /\ UNCHANGED <<judged, cited>>
  BY DEF Inv, Typed, Reject
<1>2. Steady(c0) /\ c0.top = top
  BY <1>1, ChangeSteady
<1>3. top[m] # 0 /\ Fits(mem[m], top[m]) /\ top[m] \in Nat
  BY <1>1, Existing
<1>4. Fits(row, top[m]) /\ row.life = "rejected"
  BY <1>1, <1>3, AwayFits DEF Lifecycles
<1> HIDE DEF row, as, c0
<1>5. Fits(row, c0.top[m]) /\ (Stands(mem[m]) => Stands(row))
  BY <1>2, <1>4 DEF Stands
<1>6. \A r, a : Fits(r, c0.top[m]) /\ (Stands(mem[m]) => Stands(r)) => Steady(Write(c0, m, r, a))
  BY <1>2, SteadyWrite
<1>7. Steady(w)
  BY <1>5, <1>6
<1> HIDE DEF w
<1>8. Steady(ch)
  BY <1>3, <1>7, SteadyTouch
<1> HIDE DEF ch
<1> QED
  BY <1>1, <1>8, QuietStep

\* Recording a verdict: the job is there, has none yet and still applies.
LEMMA VerdictStep ==
    ASSUME Inv, NEW j, NEW outcome \in Outcomes, NEW target \in SUBSET Memories, NEW ch,
           RecordVerdict(j, outcome, target, ch), Good(ch)
    PROVE  Inv'
<1>1. /\ j \in jobs /\ ~Done(j) /\ Commit(ch)
      /\ verdicts' = verdicts \cup {VerdictOf(j, outcome, target)}
      /\ drafts' = drafts /\ cites' = cites
  BY DEF RecordVerdict, VerdictOf, cited
<1>2. Judged
  BY <1>1 DEF Judged
<1> QED
  BY <1>1, <1>2, Applied

LEMMA EligibleThere ==
    ASSUME Recorded, NEW j \in jobs, Eligible(j)
    PROVE  /\ j.mem \in Memories /\ top[j.mem] # 0 /\ mem[j.mem].life \in {"proposed", "kept"}
           /\ j.mode = "proposal" => mem[j.mem].life = "proposed"
<1>1. j.mem \in Memories /\ j.mode \in {"proposal", "kept", "settling"}
  BY DEF Recorded, Queued, Jobs
<1>2. mem[j.mem].life \in {"proposed", "kept"} /\ (j.mode = "proposal" => mem[j.mem].life = "proposed")
  BY <1>1 DEF Eligible
<1> QED
  BY <1>1, <1>2, Existing

\* The change of a verdict, of a row that may take its memory's place.
LEMMA SteadyVerdict ==
    ASSUME Recorded, NEW j \in jobs, j.mem \in Memories, NEW row, Fits(row, top[j.mem]),
           Stands(mem[j.mem]) => Stands(row), NEW act
    PROVE  /\ Steady(Verdict(j, act, row)) /\ Verdict(j, act, row).top = top
           /\ \A k \in Memories : Verdict(j, act, row).mem[k] = IF k = j.mem THEN row ELSE mem[k]
           /\ Verdict(j, act, row).make = {}
<1> DEFINE c0 == Change("memax")
           m == j.mem
           as == <<act>>
           w == Write(c0, m, row, as)
<1>1. Steady(c0) /\ c0.top = top /\ c0.mem = mem /\ c0.make = {} /\ Shape(c0)
  BY ChangeSteady, ChangeShape
<1>2. m \in Memories /\ Fits(row, top[m]) /\ (Stands(mem[m]) => Stands(row))
  OBVIOUS
<1>3. Verdict(j, act, row) = w
  BY DEF Verdict
<1> HIDE DEF m, as, c0
<1>4. \A r, a : Fits(r, c0.top[m]) /\ (Stands(mem[m]) => Stands(r)) =>
         Steady(Write(c0, m, r, a)) /\ Write(c0, m, r, a).top = c0.top
  BY <1>1, <1>2, SteadyWrite
<1>5. Steady(w) /\ w.top = top
  BY <1>1, <1>2, <1>4
<1>6. Same(w, c0, {"mem"}) /\ w.mem = [c0.mem EXCEPT ![m] = row]
  BY <1>1, FieldNames DEF Same, Shape, Write
<1> HIDE DEF w
<1>7. w.make = {} /\ \A k \in Memories : w.mem[k] = IF k = m THEN row ELSE mem[k]
  <2>1. DOMAIN mem = Memories
    BY DEF Recorded, Rowed
  <2> QED
    BY <1>1, <1>6, <2>1, FieldNames DEF Same
<1> QED
  BY <1>3, <1>5, <1>7 DEF m

LEMMA JudgeNothingInv ==
    ASSUME Inv, NEW j \in jobs, JudgeNothing(j)
    PROVE  Inv'
<1> DEFINE row == mem[j.mem]
           ch == Verdict(j, "judged", row)
           none == {}
<1>1. Recorded /\ FoldInv /\ Eligible(j) /\ RecordVerdict(j, "none", none, ch)
  BY DEF Inv, Typed, JudgeNothing, RecordVerdict
<1>2. j.mem \in Memories /\ Fits(row, top[j.mem])
  BY <1>1, EligibleThere, Existing
<1>3. Stands(mem[j.mem]) => Stands(row)
  OBVIOUS
<1>4. none \in SUBSET Memories /\ "none" \in Outcomes
  BY DEF Outcomes
<1> HIDE DEF row, none
<1>5. Steady(ch)
  BY <1>1, <1>2, <1>3, SteadyVerdict
<1> HIDE DEF ch
<1>6. Good(ch)
  BY <1>1, <1>5, SteadyGood
<1> QED
  BY <1>1, <1>4, <1>6, VerdictStep

LEMMA JudgeLinkInv ==
    ASSUME Inv, NEW j \in jobs, NEW t \in Memories, JudgeLink(j, t)
    PROVE  Inv'
<1> DEFINE row == mem[j.mem]
           w == Verdict(j, "linked", row)
           made == {Triple("supersedes", j.mem, t)}
           ch == [w EXCEPT !["make"] = made]
           target == {t}
<1>1. /\ Recorded /\ FoldInv /\ Eligible(j) /\ RecordVerdict(j, "linked", target, ch)
      /\ t # j.mem /\ mem[t].life = "kept"
  BY DEF Inv, Typed, JudgeLink, RecordVerdict
<1>2. j.mem \in Memories /\ Fits(row, top[j.mem]) /\ top[j.mem] # 0 /\ top[t] # 0
  BY <1>1, EligibleThere, Existing
<1>3. \A u \in made : Linkable(top, u) /\ u.kind # "merged_into"
  BY <1>1, <1>2 DEF Linkable, Triple, Triples, Kinds
<1>4. Stands(mem[j.mem]) => Stands(row)
  OBVIOUS
<1>5. target \in SUBSET Memories /\ "linked" \in Outcomes
  BY DEF Outcomes
<1> HIDE DEF row, made, target
<1>6. Steady(w) /\ w.top = top
  BY <1>1, <1>2, <1>4, SteadyVerdict
<1> HIDE DEF w
<1>7. Same(ch, w, {"make"}) /\ ch.make = made
  BY <1>6, FieldNames DEF Same, Shape, Steady
<1> HIDE DEF ch
<1>8. Steady(ch)
  BY <1>3, <1>6, <1>7, SteadyField
<1>9. Good(ch)
  BY <1>1, <1>8, SteadyGood
<1> QED
  BY <1>1, <1>5, <1>9, VerdictStep

\* A good change stays one with other links made.
LEMMA GoodMade ==
    ASSUME NEW s, Good(s), NEW ch, Same(ch, s, {"make"}),
           \A t \in ch.make : Linkable(s.top, t) /\ (t.kind = "merged_into" => Stands(s.mem[t.to]))
    PROVE  Good(ch)
<1>1. /\ ch.of = s.of /\ ch.before = s.before /\ ch.top = s.top /\ ch.mem = s.mem /\ ch.end = s.end
      /\ ch.queue = s.queue /\ ch.touch = s.touch /\ ch.undo = s.undo
  BY FieldNames DEF Same
<1>2. Sound(ch)
  BY <1>1 DEF Good, Sound
<1>3. FoldSound(ch)
  BY <1>1 DEF Good, FoldSound
<1>4. QueueSound(ch)
  BY <1>1 DEF Good, QueueSound
<1> QED
  BY <1>2, <1>3, <1>4 DEF Good

\* ... and with a row that nothing was folded into.
LEMMA GoodRow ==
    ASSUME NEW s, Good(s), NEW ch, Same(ch, s, {"mem"}), Rowed(s.top, ch.mem),
           \A l \in links : ch.mem[l.to] = s.mem[l.to],
           \A t \in s.make : t.kind # "merged_into"
    PROVE  Good(ch)
<1>1. /\ ch.of = s.of /\ ch.before = s.before /\ ch.top = s.top /\ ch.make = s.make /\ ch.end = s.end
      /\ ch.queue = s.queue /\ ch.touch = s.touch /\ ch.undo = s.undo
  BY FieldNames DEF Same
<1>2. Sound(ch)
  BY <1>1 DEF Good, Sound
<1>3. FoldSound(ch)
  BY <1>1 DEF Good, FoldSound
<1>4. QueueSound(ch)
  BY <1>1 DEF Good, QueueSound
<1> QED
  BY <1>2, <1>3, <1>4 DEF Good

LEMMA JudgeFoldInv ==
    ASSUME Inv, NEW j \in jobs, NEW t \in Memories, JudgeFold(j, t)
    PROVE  Inv'
<1> DEFINE row == Away(mem[j.mem], "merged")
           w == Verdict(j, "merged", row)
           made == {Triple("merged_into", j.mem, t)}
           ms == {j.mem}
           s == [w EXCEPT !.undo = "judge_fold", !.touch = ms]
           c1 == [w EXCEPT !["make"] = made]
           c2 == [c1 EXCEPT !["undo"] = "judge_fold"]
           c3 == [c2 EXCEPT !["touch"] = ms]
           target == {t}
<1>1. /\ Recorded /\ FoldInv /\ Eligible(j) /\ RecordVerdict(j, "folded", target, c3)
      /\ t # j.mem /\ mem[t].life \in {"kept", "rejected"} /\ j.mode = "proposal"
  BY DEF Inv, Typed, JudgeFold, RecordVerdict
<1>2. /\ j.mem \in Memories /\ Fits(mem[j.mem], top[j.mem]) /\ top[j.mem] # 0 /\ top[t] # 0
      /\ top[j.mem] \in Nat /\ mem[j.mem].life = "proposed"
  BY <1>1, EligibleThere, Existing
<1>3. Fits(row, top[j.mem]) /\ row.life = "merged"
  BY <1>2, AwayFits DEF Lifecycles
<1>4. Stands(mem[j.mem]) => Stands(row)
  BY <1>2 DEF Stands
<1>5. \A u \in made : Linkable(top, u) /\ u.to = t
  BY <1>1, <1>2 DEF Linkable, Triple, Triples, Kinds
<1>6. target \in SUBSET Memories /\ "folded" \in Outcomes
  BY DEF Outcomes
<1>7. \A m \in ms : m \in Memories /\ top[m] # 0
  BY <1>2
<1> HIDE DEF row, made, target, ms
<1>8. Steady(w) /\ w.top = top
  BY <1>1, <1>2, <1>3, <1>4, SteadyVerdict
<1>9. w.mem[t] = mem[t]
  BY <1>1, <1>2, <1>3, <1>4, SteadyVerdict
<1> HIDE DEF w
<1>10. Steady(s)
  BY <1>7, <1>8, SteadyTouch
<1>11. Good(s)
  BY <1>1, <1>10, SteadyGood
<1> DEFINE s1 == [w EXCEPT !["undo"] = "judge_fold"]
           s2 == [s1 EXCEPT !["touch"] = ms]
<1>12. s = s2
  OBVIOUS
<1>13. Shape(w)
  BY <1>8 DEF Steady
<1>14. Same(s1, w, {"undo"}) /\ s1.undo = "judge_fold" /\ Same(c1, w, {"make"}) /\ c1.make = made
  BY <1>13, FieldNames DEF Same, Shape
<1> HIDE DEF s, s1, c1
<1>15. Same(s2, s1, {"touch"}) /\ s2.touch = ms /\ Same(c2, c1, {"undo"}) /\ c2.undo = "judge_fold"
  BY <1>14, FieldNames DEF Same, Shape
<1> HIDE DEF s2, c2
<1>16. Same(c3, c2, {"touch"}) /\ c3.touch = ms
  BY <1>15, FieldNames DEF Same, Shape
<1> HIDE DEF c3
<1>17. /\ c3.make = made /\ s.mem = w.mem /\ s.top = w.top
       /\ s.by = w.by /\ s.of = w.of /\ s.end = w.end /\ s.queue = w.queue /\ s.before = w.before
       /\ s.undo = "judge_fold" /\ s.touch = ms
       /\ c3.mem = w.mem /\ c3.top = w.top
       /\ c3.by = w.by /\ c3.of = w.of /\ c3.end = w.end /\ c3.queue = w.queue /\ c3.before = w.before
       /\ c3.undo = "judge_fold" /\ c3.touch = ms
       /\ Shape(c3)
  BY <1>12, <1>14, <1>15, <1>16, FieldNames DEF Same
<1>18. Same(c3, s, {"make"})
  BY <1>17 DEF Same, ChangeFields
<1>19. Stands(mem[t])
  BY <1>1 DEF Stands
<1>20. Good(c3)
  BY <1>5, <1>8, <1>9, <1>11, <1>17, <1>18, <1>19, GoodMade
<1> QED
  BY <1>1, <1>6, <1>20, VerdictStep

LEMMA VerdictShape ==
    ASSUME Recorded, NEW j, NEW act, NEW row
    PROVE  /\ Same(Verdict(j, act, row), Change("memax"), {"mem"})
           /\ DOMAIN Verdict(j, act, row).mem = Memories
           /\ Verdict(j, act, row).mem = [k \in Memories |-> Verdict(j, act, row).mem[k]]
           /\ \A k \in Memories : Verdict(j, act, row).mem[k] = IF k = j.mem THEN row ELSE mem[k]
<1> DEFINE c0 == Change("memax")
           m == j.mem
           as == <<act>>
           w == Write(c0, m, row, as)
<1>1. c0.mem = mem /\ Shape(c0)
  BY ChangeShape
<1>2. DOMAIN mem = Memories /\ mem = [k \in Memories |-> mem[k]]
  BY DEF Recorded, Rowed
<1>3. Verdict(j, act, row) = w
  BY DEF Verdict
<1> HIDE DEF m, as, c0
<1>4. Same(w, c0, {"mem"}) /\ w.mem = [mem EXCEPT ![m] = row]
  BY <1>1, FieldNames DEF Same, Shape, Write
<1> HIDE DEF w
<1>5. /\ DOMAIN w.mem = Memories /\ w.mem = [k \in Memories |-> w.mem[k]]
      /\ \A k \in Memories : w.mem[k] = IF k = m THEN row ELSE mem[k]
  BY <1>2, <1>4
<1> QED
  BY <1>3, <1>4, <1>5 DEF m, c0

LEMMA JudgeFlagInv ==
    ASSUME Inv, NEW j \in jobs, NEW ds \in SUBSET Memories, NEW t \in Memories, NEW back \in BOOLEAN,
           JudgeFlag(j, ds, t, back)
    PROVE  Inv'
<1> DEFINE m == j.mem
           row == mem[m]
           draft == row.life = "kept" /\ j.mode = "settling"
           fresh == IF draft THEN {} ELSE ds \ Partners(m)
           flagged == [row EXCEPT !.conflict = TRUE]
           returned == [flagged EXCEPT !.life = "proposed"]
           made == {Triple("conflicts_with", m, d) : d \in fresh}
           w0 == Verdict(j, "judged", row)
           w1 == Verdict(j, "returned", returned)
           w2 == Verdict(j, "flagged", flagged)
           c0 == [w0 EXCEPT !["make"] = made]
           c1 == [w1 EXCEPT !["make"] = made]
           c2 == [w2 EXCEPT !["make"] = made]
           target == {t}
           ch == IF fresh = {} THEN c0 ELSE IF back THEN c1 ELSE c2
<1>1. /\ Recorded /\ FoldInv /\ Eligible(j) /\ RecordVerdict(j, "flagged", target, ch)
      /\ \A d \in ds : InForce(d) /\ d # m
      /\ back => Returnable(m)
  <2> DEFINE pick == CASE fresh = {} -> w0 [] fresh # {} /\ back -> w1 [] OTHER -> w2
  <2>1. RecordVerdict(j, "flagged", target, [pick EXCEPT !.make = made])
    BY DEF JudgeFlag
  <2>2. pick = IF fresh = {} THEN w0 ELSE IF back THEN w1 ELSE w2
    <3> HIDE DEF w0, w1, w2, fresh
    <3>1. CASE fresh = {}
      BY <3>1
    <3>2. CASE fresh # {} /\ back
      BY <3>2
    <3>3. CASE fresh # {} /\ ~back
      BY <3>3
    <3> QED
      BY <3>1, <3>2, <3>3
  <2>3. [pick EXCEPT !.make = made] = ch
    <3> HIDE DEF w0, w1, w2, fresh, made
    <3> QED
      BY <2>2
  <2> QED
    BY <2>1, <2>3 DEF Inv, Typed, JudgeFlag, RecordVerdict
<1>2. /\ m \in Memories /\ Fits(row, top[m]) /\ top[m] # 0 /\ top[m] \in Nat
      /\ row.life \in {"proposed", "kept"}
  BY <1>1, EligibleThere, Existing
<1>3. \A d \in ds : d \in Memories /\ top[d] # 0 /\ d # m
  BY <1>1, Existing DEF InForce
<1>4. \A u \in made : Linkable(top, u) /\ u.kind # "merged_into"
  BY <1>2, <1>3 DEF Linkable, Triple, Triples, Kinds
<1>5. target \in SUBSET Memories /\ "flagged" \in Outcomes
  BY DEF Outcomes
<1>6. /\ Fits(flagged, top[m]) /\ flagged.life = row.life
      /\ Fits(returned, top[m])
  <2> DEFINE r == row
             tt == top[m]
  <2>1. Fits(r, tt) /\ tt \in Nat /\ r.life \in {"proposed", "kept"}
    BY <1>2
  <2> HIDE DEF r, tt
  <2> DEFINE f == [r EXCEPT !.conflict = TRUE]
  <2>2. Fits(f, tt) /\ f.life = r.life
    BY <2>1, RowKept
  <2> HIDE DEF f
  <2>3. \A life \in Lifecycles \ {"none"} :
           f.life # "none" /\ (life \in {"proposed", "kept"} \/ ~f.conflict) =>
               Fits([f EXCEPT !.life = life], tt) /\ [f EXCEPT !.life = life].life = life
    BY <2>1, <2>2, RowKept
  <2>4. Fits([f EXCEPT !.life = "proposed"], tt)
    BY <2>1, <2>2, <2>3 DEF Lifecycles
  <2> QED
    BY <2>2, <2>4 DEF r, tt, f
<1>7. (Stands(mem[m]) => Stands(row)) /\ (Stands(mem[m]) => Stands(flagged))
  BY <1>6 DEF Stands
<1> HIDE DEF fresh, flagged, returned, made, target
<1>8. /\ Steady(w0) /\ w0.top = top
      /\ Steady(w2) /\ w2.top = top
  <2>1. ASSUME NEW r, NEW act, Fits(r, top[j.mem]), Stands(mem[j.mem]) => Stands(r)
        PROVE  Steady(Verdict(j, act, r)) /\ Verdict(j, act, r).top = top
    <3>1. Recorded /\ j.mem \in Memories
      BY <1>2 DEF Inv, Typed
    <3> QED
      BY <2>1, <3>1, SteadyVerdict
  <2>2. Fits(row, top[j.mem]) /\ Fits(flagged, top[j.mem])
    BY <1>2, <1>6
  <2> QED
    BY <1>7, <2>1, <2>2
<1>9. /\ Same(w1, Change("memax"), {"mem"}) /\ Same(w2, Change("memax"), {"mem"})
      /\ DOMAIN w1.mem = Memories /\ w1.mem = [k \in Memories |-> w1.mem[k]]
      /\ \A k \in Memories : w1.mem[k] = IF k = m THEN returned ELSE mem[k]
      /\ \A k \in Memories : w2.mem[k] = IF k = m THEN flagged ELSE mem[k]
  <2>1. \A r, act :
           /\ Same(Verdict(j, act, r), Change("memax"), {"mem"})
           /\ DOMAIN Verdict(j, act, r).mem = Memories
           /\ Verdict(j, act, r).mem = [k \in Memories |-> Verdict(j, act, r).mem[k]]
           /\ \A k \in Memories : Verdict(j, act, r).mem[k] = IF k = j.mem THEN r ELSE mem[k]
    BY <1>1, VerdictShape
  <2> QED
    BY <2>1
<1> HIDE DEF w0, w1, w2
<1>10. /\ Same(c0, w0, {"make"}) /\ c0.make = made
       /\ Same(c2, w2, {"make"}) /\ c2.make = made
       /\ Same(c1, w1, {"make"}) /\ c1.make = made
  BY <1>8, <1>9, FieldNames DEF Same, Shape, Steady
<1> HIDE DEF c0, c1, c2
<1>11. Steady(c0) /\ Steady(c2)
  BY <1>4, <1>8, <1>10, SteadyField
<1>12. Good(c0) /\ Good(c2)
  BY <1>1, <1>11, SteadyGood
<1>13. CASE fresh # {} /\ back
  <2>1. Same(c1, c2, {"mem"})
    BY <1>9, <1>10 DEF Same, ChangeFields
  <2>2. c1.mem = w1.mem /\ c2.mem = w2.mem /\ c2.top = top
    BY <1>8, <1>10, FieldNames DEF Same
  <2>3. Rowed(top, c1.mem)
    <3>1. \A k \in Memories : Fits(mem[k], top[k])
      BY <1>1, Existing
    <3> QED
      BY <1>6, <1>9, <2>2, <3>1 DEF Rowed
  <2>4. \A l \in links : c1.mem[l.to] = c2.mem[l.to]
    <3>1. \A l \in links : l.to \in Memories /\ l.to # m
      BY <1>1, <1>13 DEF Recorded, Links, Returnable
    <3> QED
      BY <1>9, <2>2, <3>1
  <2>5. \A u \in c2.make : u.kind # "merged_into"
    BY <1>4, <1>10
  <2>6. Good(c1)
    BY <1>12, <2>1, <2>2, <2>3, <2>4, <2>5, GoodRow
  <2>7. ch = c1
    BY <1>13
  <2> HIDE DEF ch
  <2> QED
    BY <1>1, <1>5, <2>6, <2>7, VerdictStep
<1>14. CASE ~(fresh # {} /\ back)
  <2>1. Good(ch)
    BY <1>12, <1>14
  <2> HIDE DEF ch
  <2> QED
    BY <1>1, <1>5, <2>1, VerdictStep
<1> QED
  BY <1>13, <1>14

LEMMA SettlingThere ==
    ASSUME Recorded, NEW f \in Memories, NEW d \in Memories, Settling(f, d)
    PROVE  /\ f # d /\ top[f] # 0 /\ top[d] # 0
           /\ \A e \in Contradicts(f) : Triple("conflicts_with", f, e) \in Active
           /\ d \in Contradicts(f)
<1>1. Triple("conflicts_with", f, d) \in Active /\ d \in Contradicts(f)
  BY DEF Settling, Contradicts
<1>2. PICK l \in links : Of(l) = Triple("conflicts_with", f, d)
  BY <1>1 DEF Active
<1>3. Linkable(top, Triple("conflicts_with", f, d))
  BY <1>2 DEF Recorded
<1>4. f # d /\ top[f] # 0 /\ top[d] # 0
  BY <1>3 DEF Linkable, Triple
<1>5. \A e \in Contradicts(f) : Triple("conflicts_with", f, e) \in Active
  BY DEF Contradicts
<1> QED
  BY <1>1, <1>4, <1>5

LEMMA ResolveForFlaggedInv ==
    ASSUME Inv, NEW f \in Memories, NEW d \in Memories, ResolveForFlagged(f, d)
    PROVE  Inv'
<1> DEFINE ends == {d}
           c1 == Settled(f, d, ends)
           c2 == KeepIt(c1, f)
           c3 == GiveWay(c2, d, f)
<1>1. Recorded /\ Settling(f, d) /\ Commit(c3) /\ UNCHANGED <<judged, cited>>
  BY DEF Inv, Typed, ResolveForFlagged
<1>2. /\ f # d /\ top[f] # 0 /\ top[d] # 0
      /\ \A e \in ends : Triple("conflicts_with", f, e) \in Active
  BY <1>1, SettlingThere
<1> HIDE DEF ends
<1>3. Steady(c1)
  BY <1>1, <1>2, SteadySettled
<1> HIDE DEF c1
<1>4. Steady(c2)
  BY <1>3, SteadyKeepIt
<1> HIDE DEF c2
<1>5. Steady(c3)
  BY <1>1, <1>2, <1>4, SteadyGiveWay
<1> HIDE DEF c3
<1> QED
  BY <1>1, <1>5, QuietStep

LEMMA ResolveForDecisionInv ==
    ASSUME Inv, NEW f \in Memories, NEW d \in Memories, ResolveForDecision(f, d)
    PROVE  Inv'
<1> DEFINE ends == Contradicts(f)
           c1 == Settled(f, d, ends)
           c2 == KeepIt(c1, d)
           c3 == GiveWay(c2, f, d)
<1>1. Recorded /\ Settling(f, d) /\ Commit(c3) /\ UNCHANGED <<judged, cited>>
  BY DEF Inv, Typed, ResolveForDecision
<1>2. /\ f # d /\ top[f] # 0 /\ top[d] # 0
      /\ \A e \in ends : Triple("conflicts_with", f, e) \in Active
  BY <1>1, SettlingThere
<1> HIDE DEF ends
<1>3. Steady(c1)
  BY <1>1, <1>2, SteadySettled
<1> HIDE DEF c1
<1>4. Steady(c2)
  BY <1>3, SteadyKeepIt
<1> HIDE DEF c2
<1>5. Steady(c3)
  BY <1>1, <1>2, <1>4, SteadyGiveWay
<1> HIDE DEF c3
<1> QED
  BY <1>1, <1>5, QuietStep

LEMMA ResolveOpenInv ==
    ASSUME Inv, NEW f \in Memories, NEW d \in Memories, ResolveOpen(f, d)
    PROVE  Inv'
<1> DEFINE ends == {d}
           c1 == Settled(f, d, ends)
           c2 == KeepIt(c1, f)
           open == {f} \cup {m \in {d} : InForce(m)}
           rows == [m \in Memories |-> IF m \in open \cap Decisions THEN [c2.mem[m] EXCEPT !.status = "open"]
                                       ELSE c2.mem[m]]
           as == With(c2.acts, open, <<"resolved">>)
           n1 == [c2 EXCEPT !["mem"] = rows]
           n2 == [n1 EXCEPT !["acts"] = as]
<1>1. /\ Recorded /\ Settling(f, d) /\ UNCHANGED <<judged, cited>>
      /\ Commit([c2 EXCEPT !.mem = rows, !.acts = With(@, open, <<"resolved">>)])
  BY DEF Inv, Typed, ResolveOpen
<1>2. /\ f # d /\ top[f] # 0 /\ top[d] # 0
      /\ \A e \in ends : Triple("conflicts_with", f, e) \in Active
  BY <1>1, SettlingThere
<1> HIDE DEF ends
<1>3. Steady(c1)
  BY <1>1, <1>2, SteadySettled
<1> HIDE DEF c1
<1>4. Steady(c2)
  BY <1>3, SteadyKeepIt
<1> HIDE DEF c2, open
<1>5. Same(n1, c2, {"mem"}) /\ n1.mem = rows
  <2> HIDE DEF rows
  <2> QED
    BY <1>4, FieldNames DEF Same, Shape, Steady
<1>6. [c2 EXCEPT !.mem = rows, !.acts = With(@, open, <<"resolved">>)] = n2
  <2> HIDE DEF rows
  <2>1. n1.acts = c2.acts
    BY <1>4, FieldNames DEF Shape, Steady
  <2> QED
    BY <2>1
<1>7. Commit(n2)
  BY <1>1, <1>6
<1> HIDE DEF n1, as
<1>8. Same(n2, n1, {"acts"})
  BY <1>5, FieldNames DEF Same, Shape
<1> HIDE DEF n2
<1>9. /\ n2.of = c2.of /\ n2.before = c2.before /\ n2.top = c2.top /\ n2.make = c2.make /\ n2.end = c2.end
      /\ n2.queue = c2.queue /\ n2.touch = c2.touch /\ n2.mem = rows /\ Shape(n2)
  <2> HIDE DEF rows
  <2> QED
    BY <1>5, <1>8, FieldNames DEF Same, ChangeFields
<1>10. ASSUME NEW m \in Memories PROVE Fits(rows[m], c2.top[m]) /\ rows[m].life = c2.mem[m].life
  <2> DEFINE r == c2.mem[m]
             t == c2.top[m]
  <2>1. Fits(r, t) /\ t \in Nat
    BY <1>4 DEF Steady, Rowed
  <2> HIDE DEF r, t
  <2>2. \A s \in {"in_force", "open", "superseded"} :
           Fits([r EXCEPT !.status = s], t) /\ [r EXCEPT !.status = s].life = r.life
    BY <2>1, RowKept
  <2>3. Fits([r EXCEPT !.status = "open"], t) /\ [r EXCEPT !.status = "open"].life = r.life
    BY <2>2
  <2> QED
    BY <2>1, <2>3 DEF r, t
<1>11. DOMAIN rows = Memories /\ rows = [m \in Memories |-> rows[m]]
  OBVIOUS
<1> HIDE DEF rows
<1>12. Rowed(n2.top, n2.mem)
  BY <1>9, <1>10, <1>11 DEF Rowed
<1>13. \A m \in Memories : Stands(mem[m]) => Stands(n2.mem[m])
  BY <1>4, <1>9, <1>10 DEF Steady, Stands
<1>14. Steady(n2)
  BY <1>4, <1>9, <1>12, <1>13 DEF Steady
<1> QED
  BY <1>1, <1>7, <1>14, QuietStep

LEMMA ResolveBothInv ==
    ASSUME Inv, NEW f \in Memories, NEW d \in Memories, ResolveBoth(f, d)
    PROVE  Inv'
<1> DEFINE ends == {d}
           c1 == Settled(f, d, ends)
           c2(v) == Put(c1, f, v)
           c3(v, w) == Put(c2(v), d, w)
           c4(v, w) == KeepIt(c3(v, w), f)
<1>1. /\ Recorded /\ Settling(f, d) /\ UNCHANGED <<judged, cited>>
      /\ \E v \in Wordings(f), w \in Wordings(d) : Commit(c4(v, w))
  BY DEF Inv, Typed, ResolveBoth
<1>2. /\ f # d /\ top[f] # 0 /\ top[d] # 0
      /\ \A e \in ends : Triple("conflicts_with", f, e) \in Active
  BY <1>1, SettlingThere
<1> HIDE DEF ends
<1>3. Steady(c1)
  BY <1>1, <1>2, SteadySettled
<1> HIDE DEF c1
<1>4. PICK v \in Wordings(f), w \in Wordings(d) : Commit(c4(v, w))
  BY <1>1
<1>5. Steady(c2(v))
  BY <1>1, <1>2, <1>3, SteadyPut
<1> HIDE DEF c2
<1>6. Steady(c3(v, w))
  BY <1>1, <1>2, <1>5, SteadyPut
<1> HIDE DEF c3
<1>7. Steady(c4(v, w))
  BY <1>6, SteadyKeepIt
<1> HIDE DEF c4
<1> QED
  BY <1>1, <1>4, <1>7, QuietStep

\* The words a held "keep both" saves, as the change it makes: the memories
\* in `new' get theirs as drafts.
Holding(ch, saved, new) ==
    /\ Shape(ch) /\ ch.of = 0 /\ ch.before = mem /\ ch.make = {} /\ ch.end = {} /\ ch.touch = {} /\ ch.undo = "none"
    /\ ch.mem = [m \in Memories |-> IF m \in saved \ new THEN Reworded(m) ELSE mem[m]]
    /\ ch.top = [m \in Memories |-> IF m \in saved THEN top[m] + 1 ELSE top[m]]
    /\ ch.acts = With(With([m \in Memories |-> <<>>], saved \ new, <<"edited">>), new, <<"drafted">>)
    /\ \A j \in ch.queue : Queued(ch.top, j) /\ ~j.force /\ j.round = 0
    /\ \A m \in saved : m \in Memories /\ mem[m].life \in {"proposed", "kept"}
    /\ new \subseteq saved
    /\ drafts' = drafts \cup {<<m, top[m] + 1>> : m \in new}

LEMMA HoldBothHolds ==
    ASSUME Recorded, NEW f \in Memories, NEW d \in Memories, HoldBoth(f, d)
    PROVE  \E ch, saved, new : Holding(ch, saved, new) /\ Commit(ch)
<1> DEFINE beside == [m \in {f, d} |-> {f, d} \ {m}]
           c0 == Change("person")
           drafted(saved) == {m \in saved : mem[m].life = "kept"}
           rows(saved) == [m \in Memories |-> IF m \in saved \ drafted(saved) THEN Reworded(m) ELSE c0.mem[m]]
           tops(saved) == [m \in Memories |-> IF m \in saved THEN c0.top[m] + 1 ELSE c0.top[m]]
           as(saved) == With(With(c0.acts, saved \ drafted(saved), <<"edited">>), drafted(saved), <<"drafted">>)
           q(saved) == {[Job(m, top[m] + 1, "settling") EXCEPT !.beside = beside[m]] : m \in saved}
<1>1. \E saved \in SUBSET {m \in {f, d} : mem[m].life \in {"proposed", "kept"}} :
         /\ Commit([c0 EXCEPT !.mem = rows(saved), !.top = tops(saved),
                              !.acts = With(With(@, saved \ drafted(saved), <<"edited">>), drafted(saved), <<"drafted">>),
                              !.queue = q(saved)])
         /\ drafts' = drafts \cup {<<m, top[m] + 1>> : m \in drafted(saved)}
  BY DEF HoldBoth
<1>2. PICK saved \in SUBSET {m \in {f, d} : mem[m].life \in {"proposed", "kept"}} :
            /\ Commit([c0 EXCEPT !.mem = rows(saved), !.top = tops(saved),
                                 !.acts = With(With(@, saved \ drafted(saved), <<"edited">>), drafted(saved), <<"drafted">>),
                                 !.queue = q(saved)])
            /\ drafts' = drafts \cup {<<m, top[m] + 1>> : m \in drafted(saved)}
  BY <1>1
<1>3. /\ Shape(c0) /\ c0.mem = mem /\ c0.top = top /\ c0.before = mem /\ c0.of = 0 /\ c0.make = {}
      /\ c0.end = {} /\ c0.touch = {} /\ c0.undo = "none"
  BY ChangeShape
<1>4. top \in [Memories -> Nat]
  BY Tops
<1>17. c0.acts = [m \in Memories |-> <<>>]
  BY DEF Change
<1> DEFINE new == drafted(saved)
           rs == rows(saved)
           ts == tops(saved)
           aa == as(saved)
           qq == q(saved)
           n1 == [c0 EXCEPT !["mem"] = rs]
           n2 == [n1 EXCEPT !["top"] = ts]
           n3 == [n2 EXCEPT !["acts"] = aa]
           n4 == [n3 EXCEPT !["queue"] = qq]
<1>5. rs = [m \in Memories |-> IF m \in saved \ new THEN Reworded(m) ELSE mem[m]]
  BY <1>3
<1>6. ts = [m \in Memories |-> IF m \in saved THEN top[m] + 1 ELSE top[m]]
  BY <1>3
<1>18. aa = With(With([m \in Memories |-> <<>>], saved \ new, <<"edited">>), new, <<"drafted">>)
  BY <1>17
<1>7. \A m \in saved : m \in Memories /\ mem[m].life \in {"proposed", "kept"} /\ m \in {f, d}
  OBVIOUS
<1>8. \A j \in qq : Queued(ts, j) /\ ~j.force /\ j.round = 0
  <2> TAKE j \in qq
  <2>1. PICK m \in saved : j = [Job(m, top[m] + 1, "settling") EXCEPT !.beside = beside[m]]
    OBVIOUS
  <2>2. beside[m] \subseteq Memories /\ top[m] + 1 \in Nat /\ m \in Memories
    BY <1>4, <1>7
  <2> DEFINE b == beside[m]
             v == top[m] + 1
  <2> HIDE DEF b, v, beside
  <2>3. j = [Job(m, v, "settling") EXCEPT !.beside = b]
    BY <2>1 DEF b, v
  <2>4. j = [mem |-> m, version |-> v, mode |-> "settling", round |-> 0, force |-> FALSE, beside |-> b, cause |-> 0]
    BY <2>3 DEF Job
  <2>5. v \in Nat /\ v # 0 /\ b \subseteq Memories
    BY <1>4, <2>2 DEF v, b
  <2>6. j \in Jobs
    BY <2>2, <2>4, <2>5 DEF Jobs
  <2>7. ts[m] = v
    BY <1>6, <2>2 DEF v
  <2> QED
    BY <2>4, <2>5, <2>6, <2>7 DEF Queued
<1>9. Commit(n4)
  <2>1. n2.acts = c0.acts
    BY <1>3, FieldNames DEF Shape
  <2> HIDE DEF rs, ts, qq, new, c0
  <2>2. [c0 EXCEPT !.mem = rs, !.top = ts, !.acts = With(With(@, saved \ new, <<"edited">>), new, <<"drafted">>),
                   !.queue = qq] = n4
    BY <2>1 DEF aa, as, new
  <2> QED
    BY <1>2, <2>2 DEF rs, ts, qq, new, c0
<1>10. drafts' = drafts \cup {<<m, top[m] + 1>> : m \in new}
  BY <1>2
<1>11. new \subseteq saved
  OBVIOUS
<1> HIDE DEF rs, ts, aa, qq, new, c0
<1>12. SameAll(n1, c0, {"mem"}) /\ n1.mem = rs
  BY <1>3, FieldNames DEF SameAll, Shape
<1> HIDE DEF n1
<1>13. SameAll(n2, n1, {"top"}) /\ n2.top = ts
  BY <1>12, FieldNames DEF SameAll, Shape
<1> HIDE DEF n2
<1>14. SameAll(n3, n2, {"acts"}) /\ n3.acts = aa
  BY <1>13, FieldNames DEF SameAll, Shape
<1> HIDE DEF n3
<1>15. SameAll(n4, n3, {"queue"}) /\ n4.queue = qq
  BY <1>14, FieldNames DEF SameAll, Shape
<1> HIDE DEF n4
<1>16. /\ Shape(n4) /\ n4.of = 0 /\ n4.before = mem /\ n4.make = {} /\ n4.end = {} /\ n4.touch = {}
       /\ n4.undo = "none" /\ n4.mem = rs /\ n4.top = ts /\ n4.queue = qq /\ n4.acts = aa
  BY <1>3, <1>12, <1>13, <1>14, <1>15, FieldNames DEF SameAll, ChangeFields
<1>19. Holding(n4, saved, new)
  BY <1>5, <1>6, <1>7, <1>8, <1>10, <1>11, <1>16, <1>18 DEF Holding
<1> QED
  BY <1>9, <1>19

LEMMA HoldBothInv ==
    ASSUME Inv, NEW f \in Memories, NEW d \in Memories, HoldBoth(f, d)
    PROVE  Inv'
<1>1. Recorded /\ UNCHANGED <<verdicts, cited>>
  BY DEF Inv, Typed, HoldBoth
<1>2. PICK ch, saved, new : Holding(ch, saved, new) /\ Commit(ch)
  BY <1>1, HoldBothHolds
<1> DEFINE rs == ch.mem
           ts == ch.top
<1>3. /\ Shape(ch) /\ ch.of = 0 /\ ch.before = mem /\ ch.make = {} /\ ch.end = {} /\ ch.touch = {}
      /\ rs = [m \in Memories |-> IF m \in saved \ new THEN Reworded(m) ELSE mem[m]]
      /\ ts = [m \in Memories |-> IF m \in saved THEN top[m] + 1 ELSE top[m]]
      /\ \A j \in ch.queue : Queued(ts, j) /\ ~j.force /\ j.round = 0
      /\ \A m \in saved : m \in Memories /\ mem[m].life \in {"proposed", "kept"}
      /\ new \subseteq saved
      /\ drafts' = drafts \cup {<<m, top[m] + 1>> : m \in new} /\ verdicts' = verdicts /\ cites' = cites
  BY <1>1, <1>2 DEF Holding, cited
<1>4. top \in [Memories -> Nat] /\ Rowed(top, mem)
  BY <1>1, Tops DEF Recorded
<1> HIDE DEF rs, ts
<1>5. ts \in [Memories -> Nat] /\ \A m \in Memories : top[m] <= ts[m]
  BY <1>3, <1>4
<1>6. ASSUME NEW m \in Memories PROVE Fits(rs[m], ts[m]) /\ rs[m].life = mem[m].life
  <2>1. CASE m \in saved \ new
    <3>1. Fits(Reworded(m), top[m] + 1) /\ Reworded(m).life = mem[m].life
      BY <1>1, <1>3, <2>1, RewordedFits
    <3> QED
      BY <1>3, <2>1, <3>1
  <2>2. CASE m \notin saved \ new
    <3>1. rs[m] = mem[m] /\ Fits(mem[m], top[m])
      BY <1>1, <1>3, <2>2, Existing
    <3>2. CASE m \in saved
      <4>1. mem[m].life # "none" /\ ts[m] \in Nat /\ top[m] <= ts[m] /\ top[m] \in Nat
        BY <1>3, <1>4, <1>5, <3>2
      <4>2. Fits(mem[m], ts[m])
        BY <1>4, <1>5, <3>1, <4>1, Grows
      <4> QED
        BY <3>1, <4>2
    <3>3. CASE m \notin saved
      BY <1>3, <3>1, <3>3
    <3> QED
      BY <3>2, <3>3
  <2> QED
    BY <2>1, <2>2
<1>7. Rowed(ts, rs)
  BY <1>3, <1>6 DEF Rowed
<1>8. Steady(ch)
  BY <1>3, <1>5, <1>6, <1>7 DEF Steady, Stands, rs, ts
<1>9. \A e \in drafts' : e \in drafts \/ (e[1] \in Memories /\ e[2] \in 1..ch.top[e[1]])
  <2> TAKE e \in drafts'
  <2>1. CASE e \notin drafts
    <3>1. PICK m \in new : e = <<m, top[m] + 1>>
      BY <1>3, <2>1
    <3>2. m \in saved /\ m \in Memories
      BY <1>3, <3>1
    <3>3. ts[m] = top[m] + 1 /\ top[m] \in Nat
      BY <1>3, <1>4, <3>2
    <3> QED
      BY <3>1, <3>2, <3>3 DEF ts
  <2> QED
    BY <2>1
<1> QED
  BY <1>2, <1>3, <1>8, <1>9, SteadyStep

LEMMA RememberInv ==
    ASSUME Inv, NEW m \in Memories, NEW by, NEW life, Remember(m, by, life)
    PROVE  Inv'
<1> DEFINE c0 == Insert(m, by, life)
           k == "remember"
           ms == {m}
           bs == [c0.before EXCEPT ![m] = Row("rejected")]
           c1 == [c0 EXCEPT !["undo"] = k]
           c2 == [c1 EXCEPT !["touch"] = ms]
           c3 == [c2 EXCEPT !["before"] = bs]
           ch == IF by = "person" THEN c3 ELSE c0
<1>1. /\ Recorded /\ FoldInv /\ mem[m].life = "none" /\ life \in {"proposed", "kept"} /\ Cite(m)
      /\ UNCHANGED judged
  BY DEF Inv, Typed, Remember
<1>2. Steady(c0) /\ c0.top = [top EXCEPT ![m] = 1]
  BY <1>1, SteadyInsert
<1>3. c0.before = mem
  BY <1>2 DEF Steady
<1>4. Commit(ch)
  <2>1. Commit(IF by = "person" THEN [c0 EXCEPT !.undo = "remember", !.touch = {m}, !.before[m] = Row("rejected")] ELSE c0)
    BY DEF Remember
  <2> HIDE DEF c0
  <2>2. c2.before = c0.before
    BY <1>2, FieldNames DEF Steady, Shape
  <2>3. [c0 EXCEPT !.undo = "remember", !.touch = {m}, !.before[m] = Row("rejected")] = c3
    BY <2>2
  <2> QED
    BY <2>1, <2>3
<1> HIDE DEF c0, bs, ms, k
<1>5. Same(c1, c0, {"undo"}) /\ c1.undo = k
  BY <1>2, FieldNames DEF Same, Shape, Steady
<1> HIDE DEF c1
<1>6. Same(c2, c1, {"touch"}) /\ c2.touch = ms
  BY <1>5, FieldNames DEF Same, Shape
<1> HIDE DEF c2
<1>7. Same(c3, c2, {"before"}) /\ c3.before = bs
  BY <1>6, FieldNames DEF Same, Shape
<1> HIDE DEF c3
<1>8. /\ c3.of = c0.of /\ c3.top = c0.top /\ c3.mem = c0.mem /\ c3.make = c0.make /\ c3.end = c0.end
      /\ c3.queue = c0.queue /\ c3.touch = ms /\ c3.before = bs /\ c3.undo = k
  BY <1>5, <1>6, <1>7, FieldNames DEF Same, ChangeFields
<1>9. /\ Good(c0)
      /\ c0.end = {}
  <2>1. Same(Insert(m, by, life), Change(by), {"mem", "top", "queue"})
    BY InsertShape
  <2>2. c0.end = {}
    BY <2>1, ChangeShape, FieldNames DEF c0, Same
  <2> QED
    BY <1>1, <1>2, <2>2, SteadyGood
<1>10. /\ top \in [Memories -> Nat] /\ top[m] = 0 /\ DOMAIN mem = Memories
  BY <1>1, Tops, Existing DEF Recorded, Rowed
<1>11. \A n \in ms : n \in Memories /\ Fits(bs[n], c0.top[n]) /\ bs[n].life # "none"
  <2>1. Fits(Row("rejected"), 1) /\ Row("rejected").life = "rejected"
    BY RowFits DEF Lifecycles
  <2>2. bs[m] = Row("rejected")
    BY <1>3, <1>10 DEF bs
  <2>3. c0.top[m] = 1
    BY <1>2, <1>10
  <2> QED
    BY <2>1, <2>2, <2>3 DEF ms
<1>12. Sound(c3)
  BY <1>8, <1>9, <1>11 DEF Good, Sound
<1>13. FoldSound(c3)
  <2>1. ASSUME NEW l \in links, l.kind = "merged_into" PROVE Stands(c0.mem[l.to]) /\ l.to \notin ms
    <3>1. Linkable(top, Of(l))
      BY <1>1 DEF Recorded
    <3>2. top[l.to] # 0
      BY <3>1 DEF Linkable, Of, Triple
    <3>3. Stands(c0.mem[l.to])
      BY <1>9, <2>1 DEF Good, FoldSound
    <3> QED
      BY <1>10, <3>2, <3>3 DEF ms
  <2> QED
    BY <1>8, <1>9, <2>1 DEF Good, FoldSound
<1>14. QueueSound(c3)
  BY <1>8, <1>9 DEF Good, QueueSound
<1>15. Good(ch)
  BY <1>9, <1>12, <1>13, <1>14 DEF Good
<1>16. ch.top = [top EXCEPT ![m] = 1]
  BY <1>2, <1>8
<1> HIDE DEF ch
<1>17. \A c \in cites' : c \in cites \/ (c[1] \in Memories /\ ch.top[c[1]] # 0)
  BY <1>1, <1>16, InsertCites
<1>18. verdicts' = verdicts /\ drafts' = drafts
  BY <1>1 DEF judged
<1>19. Judged
  BY <1>18 DEF Judged
<1> QED
  BY <1>4, <1>15, <1>17, <1>18, <1>19, Applied

LEMMA SkipJobInv ==
    ASSUME Inv, NEW j \in jobs, SkipJob(j)
    PROVE  Inv'
<1>1. /\ jobs' = jobs \ {j} /\ ~Done(j)
      /\ mem' = mem /\ top' = top /\ links' = links /\ cites' = cites /\ drafts' = drafts
      /\ verdicts' = verdicts /\ journal' = journal
  BY DEF SkipJob
<1>2. Typed'
  <2>1. Recorded'
    BY <1>1 DEF Inv, Typed, Recorded
  <2> QED
    BY <1>1, <2>1 DEF Inv, Typed
<1>3. FoldInv'
  BY <1>1 DEF Inv, FoldInv
<1>4. VerdictInv'
  <2>1. \A w \in verdicts : Forced(w) => Forced(w)'
    <3> TAKE w \in verdicts
    <3> HAVE Forced(w)
    <3>1. PICK k \in jobs : k.force /\ k.mem = w.mem /\ k.version = w.version /\ k.round = w.round
      BY DEF Forced
    <3>2. k # j
      <4>1. w.round \in Nat
        BY DEF Inv, VerdictInv
      <4> QED
        BY <1>1, <3>1, <4>1 DEF Done, VerdictsOn
    <3> QED
      BY <1>1, <3>1, <3>2 DEF Forced
  <2>2. /\ \A w \in verdicts' : w.round <= Len(journal')
        /\ \A k \in jobs' : k.round <= Len(journal')
    BY <1>1 DEF Inv, VerdictInv
  <2>3. \A w, x \in verdicts' : w.mem = x.mem /\ w.version = x.version =>
           /\ w.round = x.round => w = x
           /\ w = x \/ Forced(w)' \/ Forced(x)'
    BY <1>1, <2>1 DEF Inv, VerdictInv
  <2>4. \A k \in jobs' : k.force => k.cause \in 1..Len(journal') /\ FoldOf(k.cause, k.mem, k.version)'
    BY <1>1 DEF Inv, VerdictInv, FoldOf
  <2>5. \A i, k \in jobs' : i.force /\ k.force /\ i.mem = k.mem /\ i.cause = k.cause => i = k
    BY <1>1 DEF Inv, VerdictInv
  <2> QED
    BY <1>1, <2>2, <2>3, <2>4, <2>5 DEF Inv, VerdictInv
<1> QED
  BY <1>2, <1>3, <1>4 DEF Inv

\* Reading a source, or nothing at all, changes none of it.
LEMMA UnchangedInv ==
    ASSUME Inv, UNCHANGED <<mem, top, links, cites, drafts, verdicts, jobs, journal>>
    PROVE  Inv'
<1>1. Typed'
  <2>1. Recorded'
    BY DEF Inv, Typed, Recorded
  <2> QED
    BY <2>1 DEF Inv, Typed
<1>2. FoldInv'
  BY DEF Inv, FoldInv
<1>3. VerdictInv'
  BY DEF Inv, VerdictInv, Forced, FoldOf
<1> QED
  BY <1>1, <1>2, <1>3 DEF Inv

\* A bounded set of numbers that is not empty has a greatest.
LEMMA Greatest ==
    ASSUME NEW n \in Nat, NEW S \in SUBSET (0..n), S # {}
    PROVE  \E q \in S : \A p \in S : p <= q
<1> DEFINE T == {n - q : q \in S}
           R == OpToRel(<, Nat)
<1>1. T \subseteq Nat /\ T # {}
  <2>1. \A q \in S : q \in Nat /\ n - q \in Nat
    OBVIOUS
  <2>2. T \subseteq Nat
    BY <2>1
  <2>3. PICK q \in S : TRUE
    OBVIOUS
  <2>4. n - q \in T
    OBVIOUS
  <2> QED
    BY <2>2, <2>4
<1>2. IsWellFoundedOn(R, Nat)
  BY NatLessThanWellFounded
<1>3. \A x, y \in Nat : y < x => <<y, x>> \in R
  <2> TAKE x, y \in Nat
  <2> HAVE y < x
  <2>1. <<y, x>> \in Nat \X Nat /\ <<y, x>>[1] < <<y, x>>[2]
    OBVIOUS
  <2> QED
    BY <2>1 DEF OpToRel
<1> HIDE DEF T, R
<1>4. PICK x \in T : \A y \in T : ~(<<y, x>> \in R)
  BY <1>1, <1>2, WFMin
<1>5. \A y \in T : x <= y
  <2> TAKE y \in T
  <2>1. x \in Nat /\ y \in Nat
    BY <1>1, <1>4
  <2>2. ~(<<y, x>> \in R)
    BY <1>4
  <2>3. ~(y < x)
    BY <1>3, <2>1, <2>2
  <2> QED
    BY <2>1, <2>3
<1>6. PICK q \in S : x = n - q
  BY <1>4 DEF T
<1>7. \A p \in S : n - q <= n - p
  BY <1>5, <1>6 DEF T
<1> QED
  BY <1>7

LEMMA JobSet ==
    ASSUME NEW m, NEW v, NEW b, NEW r, NEW f, NEW c
    PROVE  [[mem |-> m, version |-> v, mode |-> "proposal", round |-> 0, force |-> FALSE, beside |-> b,
             cause |-> 0] EXCEPT !.round = r, !.force = f, !.cause = c] =
           [mem |-> m, version |-> v, mode |-> "proposal", round |-> r, force |-> f, beside |-> b, cause |-> c]
<1> DEFINE no == FALSE
           j0 == [mem |-> m, version |-> v, mode |-> "proposal", round |-> 0, force |-> no, beside |-> b, cause |-> 0]
           j1 == [mem |-> m, version |-> v, mode |-> "proposal", round |-> r, force |-> no, beside |-> b, cause |-> 0]
           j2 == [mem |-> m, version |-> v, mode |-> "proposal", round |-> r, force |-> f, beside |-> b, cause |-> 0]
           j3 == [mem |-> m, version |-> v, mode |-> "proposal", round |-> r, force |-> f, beside |-> b, cause |-> c]
<1> HIDE DEF no
<1>1. [j0 EXCEPT !.round = r] = j1
  OBVIOUS
<1>2. [j1 EXCEPT !.force = f] = j2
  OBVIOUS
<1>3. [j2 EXCEPT !.cause = c] = j3
  OBVIOUS
<1> HIDE DEF j0, j1, j2, j3
<1>4. [j0 EXCEPT !.round = r, !.force = f, !.cause = c] = j3
  BY <1>1, <1>2, <1>3
<1> QED
  BY <1>4 DEF j0, j3, no

\* The jobs an Undo queues: of the next round, and forced after a fold.
LEMMA RejudgeJobs ==
    ASSUME Inv, Now <= MaxCommands, NEW c \in 1..Len(journal), NEW m \in journal[c].touch, NEW j \in Rejudge(c, m)
    PROVE  /\ Queued(top, j) /\ j.mem = m /\ j.version = journal[c].before[m].version /\ j.cause = c
           /\ j.round <= Len(journal) + 1
           /\ j.force => journal[c].kind = "judge_fold"
           /\ Rejudge(c, m) = {j}
<1> DEFINE v == journal[c].before[m].version
           rounds == {w.round : w \in VerdictsOn(m, v)}
           fold == journal[c].kind = "judge_fold"
           next == IF rounds = {} THEN 1
                   ELSE CHOOSE r \in 1..MaxCommands : r - 1 \in rounds /\ \A q \in rounds : q < r
           job == [Job(m, v, "proposal") EXCEPT !.round = next, !.force = fold, !.cause = c]
<1>1. Rejudge(c, m) = IF rounds # {} /\ ~fold THEN {} ELSE {job}
  BY DEF Rejudge
<1>2. Recorded /\ Entry(top, journal[c]) /\ Len(journal) \in Nat /\ top \in [Memories -> Nat]
  BY Tops DEF Inv, Typed, Recorded
<1>3. m \in Memories /\ Fits(journal[c].before[m], top[m]) /\ journal[c].before[m].life # "none"
  BY <1>2 DEF Entry
<1>4. v \in Nat /\ v \in 1..top[m]
  BY <1>2, <1>3 DEF Fits, AnyRow
<1>5. rounds \subseteq 0..Len(journal)
  <2>1. \A w \in verdicts : w.round \in Nat /\ w.round <= Len(journal)
    BY DEF Inv, VerdictInv
  <2> QED
    BY <1>2, <2>1 DEF VerdictsOn
<1> HIDE DEF rounds, v, fold
<1>6. next \in Nat /\ next <= Len(journal) + 1
  <2>1. CASE rounds = {}
    BY <1>2, <2>1
  <2>2. CASE rounds # {}
    <3>1. PICK q \in rounds : \A p \in rounds : p <= q
      BY <1>2, <1>5, <2>2, Greatest
    <3>2. q + 1 \in 1..MaxCommands /\ (q + 1) - 1 \in rounds /\ \A p \in rounds : p < q + 1
      BY <1>2, <1>5, <3>1, BoundsAssumption DEF Now
    <3> DEFINE nx == CHOOSE r \in 1..MaxCommands : r - 1 \in rounds /\ \A p \in rounds : p < r
    <3>3. nx \in 1..MaxCommands /\ nx - 1 \in rounds
      BY <3>2
    <3>4. next = nx
      BY <2>2
    <3> HIDE DEF nx
    <3>5. nx \in Nat /\ nx - 1 <= Len(journal)
      BY <1>5, <3>3, BoundsAssumption
    <3>6. nx \in Nat /\ nx <= Len(journal) + 1
      BY <1>2, <3>5
    <3> HIDE DEF next
    <3> QED
      BY <3>4, <3>6
  <2> QED
    BY <2>1, <2>2
<1> HIDE DEF next
<1>7. fold \in BOOLEAN /\ (fold => journal[c].kind = "judge_fold")
  BY DEF fold
<1>8. job = [mem |-> m, version |-> v, mode |-> "proposal", round |-> next, force |-> fold, beside |-> {}, cause |-> c]
  <2> DEFINE none == {}
  <2>1. job = [[mem |-> m, version |-> v, mode |-> "proposal", round |-> 0, force |-> FALSE, beside |-> none,
                cause |-> 0] EXCEPT !.round = next, !.force = fold, !.cause = c]
    BY DEF Job
  <2> HIDE DEF none, job
  <2>2. job = [mem |-> m, version |-> v, mode |-> "proposal", round |-> next, force |-> fold, beside |-> none,
               cause |-> c]
    BY <2>1, JobSet
  <2> QED
    BY <2>2 DEF none
<1> HIDE DEF job
<1>9. j = job /\ Rejudge(c, m) = {j}
  BY <1>1
<1>10. c \in Nat
  OBVIOUS
<1>11. job \in Jobs
  BY <1>3, <1>4, <1>6, <1>7, <1>8, <1>10 DEF Jobs
<1>12. /\ job.mem = m /\ job.version = v /\ job.cause = c /\ job.round = next /\ (job.force => fold)
  BY <1>8
<1> QED
  BY <1>4, <1>6, <1>7, <1>9, <1>11, <1>12 DEF Queued, v

LEMMA UndoInv ==
    ASSUME Inv, Now <= MaxCommands, NEW c \in 1..Len(journal), Undo(c)
    PROVE  Inv'
<1> DEFINE e == journal[c]
           again == {m \in e.touch : e.before[m].life = "proposed" /\ mem[m].life # "proposed"}
           c0 == Change("person")
           rs == [m \in Memories |-> IF m \in e.touch THEN e.before[m] ELSE c0.mem[m]]
           aa == With(c0.acts, e.touch, <<"undid">>)
           ends == e.made
           made == e.ended
           qq == UNION {Rejudge(c, m) : m \in again}
           n1 == [c0 EXCEPT !["mem"] = rs]
           n2 == [n1 EXCEPT !["acts"] = aa]
           n3 == [n2 EXCEPT !["of"] = c]
           n4 == [n3 EXCEPT !["end"] = ends]
           n5 == [n4 EXCEPT !["make"] = made]
           n6 == [n5 EXCEPT !["queue"] = qq]
<1>1. Recorded /\ FoldInv /\ Undoable(c) /\ UNCHANGED <<judged, cited>>
  BY DEF Inv, Typed, Undo
<1>2. /\ Shape(c0) /\ c0.mem = mem /\ c0.top = top /\ c0.before = mem /\ c0.undo = "none" /\ c0.touch = {}
  BY ChangeShape
<1>3. Entry(top, e) /\ Len(journal) \in Nat /\ top \in [Memories -> Nat] /\ Rowed(top, mem)
  BY <1>1, Tops DEF Recorded
<1>4. Commit(n6)
  <2>1. Commit([c0 EXCEPT !.mem = rs, !.acts = With(@, e.touch, <<"undid">>), !.of = c, !.end = ends, !.make = made,
                          !.queue = qq])
    BY DEF Undo
  <2> HIDE DEF rs, ends, made, qq, c0
  <2>2. n1.acts = c0.acts
    BY <1>2, FieldNames DEF Shape
  <2>3. [c0 EXCEPT !.mem = rs, !.acts = With(@, e.touch, <<"undid">>), !.of = c, !.end = ends, !.make = made,
                   !.queue = qq] = n6
    BY <2>2
  <2> QED
    BY <2>1, <2>3
<1>5. rs = [m \in Memories |-> IF m \in e.touch THEN e.before[m] ELSE mem[m]]
  BY <1>2
<1> HIDE DEF c0, rs, aa
<1>6. Same(n1, c0, {"mem"}) /\ n1.mem = rs
  BY <1>2, FieldNames DEF Same, Shape
<1> HIDE DEF n1
<1>7. Same(n2, n1, {"acts"})
  BY <1>6, FieldNames DEF Same, Shape
<1> HIDE DEF n2
<1>8. Same(n3, n2, {"of"}) /\ n3.of = c
  BY <1>7, FieldNames DEF Same, Shape
<1> HIDE DEF n3, ends, made, qq
<1>9. Same(n4, n3, {"end"}) /\ n4.end = ends
  BY <1>8, FieldNames DEF Same, Shape
<1> HIDE DEF n4
<1>10. Same(n5, n4, {"make"}) /\ n5.make = made
  BY <1>9, FieldNames DEF Same, Shape
<1> HIDE DEF n5
<1>11. Same(n6, n5, {"queue"}) /\ n6.queue = qq
  BY <1>10, FieldNames DEF Same, Shape
<1> HIDE DEF n6
<1>12. /\ n6.mem = rs /\ n6.top = top /\ n6.of = c /\ n6.end = ends /\ n6.make = made /\ n6.queue = qq
       /\ n6.undo = "none" /\ n6.touch = {} /\ Shape(n6)
  BY <1>2, <1>6, <1>7, <1>8, <1>9, <1>10, <1>11, FieldNames DEF Same, ChangeFields
<1>13. e.touch \subseteq Memories /\ \A m \in e.touch : Fits(e.before[m], top[m])
  BY <1>3 DEF Entry
<1>14. Rowed(top, rs)
  BY <1>3, <1>5, <1>13 DEF Rowed
<1>15. \A t \in made : Linkable(top, t) /\ t.kind = "conflicts_with"
  BY <1>1, <1>3 DEF Entry, made, Undoable
<1>16. \A t \in ends : Linkable(top, t)
  BY <1>3 DEF Entry, ends
<1>17. ASSUME NEW j \in qq
       PROVE  /\ Queued(top, j) /\ j.round <= Len(journal) + 1 /\ j.cause = c
              /\ j.mem \in e.touch /\ e.before[j.mem].version = j.version
              /\ j.force => e.kind = "judge_fold"
              /\ Rejudge(c, j.mem) = {j}
  <2>1. PICK m \in e.touch : j \in Rejudge(c, m)
    BY <1>17 DEF qq
  <2> QED
    BY <2>1, RejudgeJobs
<1>18. \A m \in Memories : top[m] <= top[m]
  BY <1>3
<1>19. Sound(n6)
  BY <1>3, <1>12, <1>14, <1>15, <1>16, <1>17, <1>18 DEF Sound
<1>20. ASSUME NEW l \in links, l.kind = "merged_into", Of(l) \notin ends
       PROVE  Stands(rs[l.to])
  <2>1. /\ l.to \in Memories /\ Stands(mem[l.to]) /\ l.cmd \in 1..Len(journal)
        /\ l.cmd < c /\ l.to \in e.touch => Stands(e.before[l.to])
    BY <1>1, <1>20 DEF FoldInv, Recorded, Links
  <2>2. l.cmd # c
    BY <1>1, <1>20 DEF FoldInv, ends
  <2>3. l.to \in e.touch => ~(l.cmd > c)
    BY <1>1 DEF Undoable, LaterLink, Touches
  <2> QED
    BY <1>5, <2>1, <2>2, <2>3
<1>21. FoldSound(n6)
  BY <1>12, <1>15, <1>20 DEF FoldSound
<1>22. QueueSound(n6)
  <2>1. ~e.undone
    BY <1>1 DEF Undoable
  <2>2. \A j, k \in qq : j.mem = k.mem => j = k
    <3> TAKE j, k \in qq
    <3>1. Rejudge(c, j.mem) = {j} /\ Rejudge(c, k.mem) = {k}
      BY <1>17
    <3> QED
      BY <3>1
  <2>3. c # 0
    OBVIOUS
  <2> QED
    BY <1>12, <1>17, <2>1, <2>2, <2>3 DEF QueueSound
<1>23. Good(n6)
  BY <1>19, <1>21, <1>22 DEF Good
<1>24. verdicts' = verdicts /\ drafts' = drafts /\ cites' = cites
  BY <1>1 DEF judged, cited
<1>25. Judged
  BY <1>24 DEF Judged
<1> QED
  BY <1>4, <1>23, <1>24, <1>25, Applied

\* Every memory that goes with a Forget is one there is.
LEMMA CarriedThere ==
    ASSUME Typed, NEW m \in Memories, mem[m].life # "none", NEW n \in Carried(m)
    PROVE  n \in Memories /\ mem[n].life # "none"
<1> DEFINE S == {k \in Memories : mem[k].life # "none"}
<1>1. \A k \in Memories : mem[k].life = "none" <=> top[k] = 0
  BY Existing DEF Typed
<1>2. \A p \in S, k \in Memories : Carries(k, p) => k \in S
  BY <1>1 DEF Carries, Typed
<1>3. m \in S /\ S \in SUBSET Memories
  OBVIOUS
<1> HIDE DEF S
<1>4. n \in S
  BY <1>2, <1>3 DEF Carried
<1> QED
  BY <1>4 DEF S

LEMMA ForgetInv ==
    ASSUME Inv, NEW m \in Memories, Forget(m)
    PROVE  Inv'
<1> DEFINE gone  == Carried(m)
           ended == {t \in Active : t.kind = "conflicts_with" /\ Touches(t, gone)}
           freed == {n \in Memories \ gone : mem[n].conflict /\ Partners(n) # {} /\ Partners(n) \subseteq gone}
           c0 == Change("person")
           rs == [n \in Memories |-> IF n \in gone THEN Away(c0.mem[n], "forgotten")
                                     ELSE IF n \in freed THEN [c0.mem[n] EXCEPT !.conflict = FALSE] ELSE c0.mem[n]]
           aa == With(With(c0.acts, gone, <<"forgot">>), freed, <<"resolved">>)
           n1 == [c0 EXCEPT !["mem"] = rs]
           n2 == [n1 EXCEPT !["acts"] = aa]
           n3 == [n2 EXCEPT !["end"] = ended]
<1>1. /\ Typed /\ Recorded /\ mem[m].life # "none" /\ UNCHANGED judged
      /\ cites' = {c \in cites : c[1] \notin gone}
  BY DEF Inv, Typed, Forget
<1>2. /\ Shape(c0) /\ c0.mem = mem /\ c0.top = top /\ c0.before = mem /\ c0.of = 0 /\ c0.make = {}
      /\ c0.queue = {} /\ c0.touch = {}
  BY ChangeShape
<1>3. \A n \in gone : n \in Memories /\ mem[n].life # "none"
  BY <1>1, CarriedThere
<1>4. Commit(n3)
  <2>1. Commit([c0 EXCEPT
                  !.mem = [n \in Memories |->
                              IF n \in gone THEN Away(@[n], "forgotten")
                              ELSE IF n \in freed THEN [@[n] EXCEPT !.conflict = FALSE] ELSE @[n]],
                  !.acts = With(With(@, gone, <<"forgot">>), freed, <<"resolved">>),
                  !.end = ended])
    BY DEF Forget, Freed
  <2> HIDE DEF gone, ended, freed, c0
  <2>2. n1.acts = c0.acts
    BY <1>2, FieldNames DEF Shape
  <2>3. [c0 EXCEPT
                  !.mem = [n \in Memories |->
                              IF n \in gone THEN Away(@[n], "forgotten")
                              ELSE IF n \in freed THEN [@[n] EXCEPT !.conflict = FALSE] ELSE @[n]],
                  !.acts = With(With(@, gone, <<"forgot">>), freed, <<"resolved">>),
                  !.end = ended] = n3
    BY <2>2
  <2> QED
    BY <2>1, <2>3
<1>5. rs = [n \in Memories |-> IF n \in gone THEN Away(mem[n], "forgotten")
                               ELSE IF n \in freed THEN [mem[n] EXCEPT !.conflict = FALSE] ELSE mem[n]]
  BY <1>2
<1>6. \A t \in ended : Linkable(top, t) /\ t.kind = "conflicts_with"
  BY <1>1 DEF Recorded, Active
<1> HIDE DEF c0, gone, ended, freed, rs, aa
<1>7. Same(n1, c0, {"mem"}) /\ n1.mem = rs
  BY <1>2, FieldNames DEF Same, Shape
<1> HIDE DEF n1
<1>8. Same(n2, n1, {"acts"})
  BY <1>7, FieldNames DEF Same, Shape
<1> HIDE DEF n2
<1>9. Same(n3, n2, {"end"}) /\ n3.end = ended
  BY <1>8, FieldNames DEF Same, Shape
<1> HIDE DEF n3
<1>10. /\ Shape(n3) /\ n3.of = 0 /\ n3.before = mem /\ n3.make = {} /\ n3.end = ended /\ n3.touch = {}
       /\ n3.mem = rs /\ n3.top = top /\ n3.queue = {}
  BY <1>2, <1>7, <1>8, <1>9, FieldNames DEF Same, ChangeFields
<1>11. top \in [Memories -> Nat] /\ \A n \in Memories : top[n] <= top[n]
  BY <1>1, Tops
<1>12. ASSUME NEW n \in Memories PROVE Fits(rs[n], top[n]) /\ (Stands(mem[n]) => Stands(rs[n]))
  <2>1. Fits(mem[n], top[n]) /\ top[n] \in Nat
    BY <1>1, Existing
  <2>2. CASE n \in gone
    <3>1. Fits(Away(mem[n], "forgotten"), top[n]) /\ Away(mem[n], "forgotten").life = "forgotten"
      BY <1>3, <2>1, <2>2, AwayFits DEF Lifecycles
    <3> QED
      BY <1>5, <2>2, <3>1 DEF Stands
  <2>3. CASE n \notin gone /\ n \in freed
    <3> DEFINE calm == [mem[n] EXCEPT !.conflict = FALSE]
    <3>1. Fits(calm, top[n]) /\ calm.life = mem[n].life
      BY <2>1, RowKept
    <3>2. rs[n] = calm
      BY <1>5, <2>3
    <3> HIDE DEF calm
    <3> QED
      BY <3>1, <3>2 DEF Stands
  <2>4. CASE n \notin gone /\ n \notin freed
    BY <1>5, <2>1, <2>4
  <2> QED
    BY <2>2, <2>3, <2>4
<1>13. Rowed(top, rs)
  BY <1>5, <1>12 DEF Rowed
<1>14. Steady(n3)
  BY <1>6, <1>10, <1>11, <1>12, <1>13 DEF Steady
<1>15. verdicts' = verdicts /\ drafts' = drafts /\ \A c \in cites' : c \in cites
  BY <1>1 DEF judged
<1> QED
  BY <1>4, <1>14, <1>15, SteadyStep

----------------------------------------------------------------------------
\* The invariant holds at first, and through every step

LEMMA InitInv == Init => Inv
<1> HAVE Init
<1>1. /\ mem = [m \in Memories |-> IF m \in Standing THEN Row("kept") ELSE [Row("none") EXCEPT !.version = 0]]
      /\ top = [m \in Memories |-> IF m \in Standing THEN 1 ELSE 0]
      /\ links = {} /\ cites = {} /\ drafts = {} /\ verdicts = {} /\ jobs = {} /\ journal = <<>>
  BY DEF Init
<1>2. ASSUME NEW m \in Memories PROVE Fits(mem[m], top[m])
  <2>1. CASE m \in Standing
    <3>1. Fits(Row("kept"), 1)
      BY RowFits DEF Lifecycles
    <3> QED
      BY <1>1, <2>1, <3>1
  <2>2. CASE m \notin Standing
    <3> DEFINE no == FALSE
    <3> HIDE DEF no
    <3>1. [[life |-> "none", conflict |-> no, version |-> 1, status |-> "in_force"] EXCEPT !.version = 0] =
              [life |-> "none", conflict |-> no, version |-> 0, status |-> "in_force"]
      OBVIOUS
    <3>2. mem[m] = [life |-> "none", conflict |-> no, version |-> 0, status |-> "in_force"] /\ top[m] = 0
      BY <1>1, <2>2, <3>1 DEF Row, no
    <3>3. no \in BOOLEAN /\ ~no
      BY DEF no
    <3> QED
      BY <3>2, <3>3 DEF Fits, AnyRow, Lifecycles
  <2> QED
    BY <2>1, <2>2
<1>3. Rowed(top, mem)
  BY <1>1, <1>2 DEF Rowed
<1>4. top \in [Memories -> 0..MaxVersion]
  BY <1>1, BoundsAssumption
<1>5. Len(journal) = 0 /\ journal = [c \in 1..0 |-> journal[c]]
  BY <1>1
<1>6. Recorded
  BY <1>1, <1>3, <1>4, <1>5 DEF Recorded
<1>7. FoldInv /\ VerdictInv
  BY <1>1 DEF FoldInv, VerdictInv
<1> QED
  BY <1>1, <1>6, <1>7 DEF Inv, Typed

LEMMA JudgeInv ==
    ASSUME Inv, NEW j \in jobs, Judge(j)
    PROVE  Inv'
<1>1. CASE JudgeNothing(j)
  BY <1>1, JudgeNothingInv
<1>2. ASSUME NEW t \in Memories, JudgeFold(j, t) PROVE Inv'
  BY <1>2, JudgeFoldInv
<1>3. ASSUME NEW t \in Memories, JudgeLink(j, t) PROVE Inv'
  BY <1>3, JudgeLinkInv
<1>4. ASSUME NEW ds \in SUBSET Memories, NEW t \in Memories, NEW back \in BOOLEAN, JudgeFlag(j, ds, t, back)
      PROVE  Inv'
  BY <1>4, JudgeFlagInv
<1> QED
  BY <1>1, <1>2, <1>3, <1>4 DEF Judge

LEMMA ResolveInv ==
    ASSUME Inv, NEW f \in Memories, NEW d \in Memories, Resolve(f, d)
    PROVE  Inv'
<1>1. CASE ResolveForFlagged(f, d)
  BY <1>1, ResolveForFlaggedInv
<1>2. CASE ResolveForDecision(f, d)
  BY <1>2, ResolveForDecisionInv
<1>3. CASE ResolveOpen(f, d)
  BY <1>3, ResolveOpenInv
<1>4. CASE ResolveBoth(f, d)
  BY <1>4, ResolveBothInv
<1>5. CASE HoldBoth(f, d)
  BY <1>5, HoldBothInv
<1> QED
  BY <1>1, <1>2, <1>3, <1>4, <1>5 DEF Resolve

LEMMA NextInv == Inv /\ [Next]_vars => Inv'
<1> SUFFICES ASSUME Inv, [Next]_vars PROVE Inv'
  OBVIOUS
<1>1. ASSUME NEW m \in Memories, NEW by \in Actors, NEW life \in {"kept", "proposed"}, Remember(m, by, life)
      PROVE  Inv'
  BY <1>1, RememberInv
<1>2. ASSUME NEW m \in Memories, NEW by \in Actors, Propose(m, by) PROVE Inv'
  BY <1>2, ProposeInv
<1>3. ASSUME NEW m \in Memories, NEW n \in Memories, NEW by \in Actors, Update(m, n, by) PROVE Inv'
  BY <1>3, UpdateInv
<1>4. ASSUME NEW m \in Memories, NEW by \in Actors, Edit(m, by) PROVE Inv'
  BY <1>4, EditInv
<1>5. ASSUME NEW m \in Memories, EditThenKeep(m) PROVE Inv'
  BY <1>5, EditThenKeepInv
<1>6. ASSUME NEW m \in Memories, Keep(m) PROVE Inv'
  BY <1>6, KeepInv
<1>7. ASSUME NEW m \in Memories, Reject(m) PROVE Inv'
  BY <1>7, RejectInv
<1>8. ASSUME NEW m \in Memories, Forget(m) PROVE Inv'
  BY <1>8, ForgetInv
<1>9. ASSUME NEW j \in jobs, Judge(j) PROVE Inv'
  BY <1>9, JudgeInv
<1>10. ASSUME NEW f \in Memories, NEW d \in Memories, Resolve(f, d) PROVE Inv'
  BY <1>10, ResolveInv
<1>11. ASSUME Now <= MaxCommands, NEW c \in 1..Len(journal), Undo(c) PROVE Inv'
  BY <1>11, UndoInv
<1>12. ASSUME Now <= MaxCommands, Command PROVE Inv'
  BY <1>1, <1>2, <1>3, <1>4, <1>5, <1>6, <1>7, <1>8, <1>9, <1>10, <1>11, <1>12 DEF Command
<1>13. ASSUME NEW m \in Memories, ReadSource(m) PROVE Inv'
  BY <1>13, UnchangedInv DEF ReadSource
<1>14. ASSUME NEW j \in jobs, SkipJob(j) PROVE Inv'
  BY <1>14, SkipJobInv
<1>15. CASE UNCHANGED vars
  BY <1>15, UnchangedInv DEF vars
<1> QED
  BY <1>12, <1>13, <1>14, <1>15 DEF Next

----------------------------------------------------------------------------
\* What follows

\* Every variable has its type, links join two memories and are active
\* once, and the current version, like the versions jobs and drafts speak
\* of, is one that is stored (write.go, judge.go).
THEOREM TypeCorrect == Spec => []TypeOK
<1>1. Inv => TypeOK
  <2> SUFFICES ASSUME Inv PROVE TypeOK
    OBVIOUS
  <2>1. Recorded /\ top \in [Memories -> 0..MaxVersion]
    BY DEF Inv, Typed, Recorded
  <2>2. ASSUME NEW m \in Memories
        PROVE  /\ mem[m] \in Rows /\ mem[m].version <= top[m]
               /\ mem[m].life = "none" <=> top[m] = 0
               /\ mem[m].conflict => mem[m].life \in {"proposed", "kept"}
    <3>1. Fits(mem[m], top[m]) /\ top[m] \in 0..MaxVersion
      BY <2>1, Existing
    <3>2. mem[m].version \in 0..MaxVersion
      BY <3>1, BoundsAssumption DEF Fits, AnyRow
    <3>3. mem[m] \in Rows
      BY <3>1, <3>2 DEF Fits, AnyRow, Rows
    <3> QED
      BY <3>1, <3>3 DEF Fits
  <2>3. mem \in [Memories -> Rows]
    BY <2>1, <2>2 DEF Recorded, Rowed
  <2>4. \A l \in links : l.cmd \in 1..Len(journal) /\ l.from # l.to
    BY <2>1 DEF Recorded, Linkable, Of, Triple
  <2>5. \A l, k \in links : Of(l) = Of(k) => l = k
    BY <2>1 DEF Recorded
  <2>6. \A j \in jobs : j.version \in 1..top[j.mem]
    BY <2>1 DEF Recorded, Queued
  <2>7. \A d \in drafts : d[2] \in 1..top[d[1]]
    BY DEF Inv, Typed
  <2> QED
    BY <2>1, <2>2, <2>3, <2>4, <2>5, <2>6, <2>7 DEF TypeOK
<1> QED
  BY <1>1, InitInv, NextInv, PTL DEF Spec

\* What a memory was folded into never goes back to Review, nor is itself
\* folded away, while the fold stands: no command, whatever it undoes,
\* takes it there (checkUndoLinks).
THEOREM FoldsStand == Spec => []FoldTargetsStand
<1>1. Inv => FoldTargetsStand
  <2> SUFFICES ASSUME Inv, NEW t \in Active, t.kind = "merged_into" PROVE Stands(mem[t.to])
    BY DEF FoldTargetsStand, Stands
  <2>1. PICK l \in links : t = Of(l)
    BY DEF Active
  <2>2. l.kind = "merged_into" /\ l.to = t.to
    BY <2>1 DEF Of, Triple
  <2> QED
    BY <2>2 DEF Inv, FoldInv
<1> QED
  BY <1>1, InitInv, NextInv, PTL DEF Spec

\* The undone folds of a version of a memory, each of which asks for
\* another verdict.
UndoneFolds(m, v) == {c \in 1..Len(journal) : FoldOf(c, m, v)}

LEMMA RoundsFinite ==
    ASSUME Inv, NEW m, NEW v
    PROVE  IsFiniteSet(VerdictsOn(m, v))
<1> DEFINE W == VerdictsOn(m, v)
           f == [w \in W |-> w.round]
<1>1. Len(journal) \in Nat /\ \A w \in W : w.round \in 0..Len(journal)
  BY DEF Inv, Typed, Recorded, VerdictInv, VerdictsOn
<1>2. \A w, x \in W : w.round = x.round => w = x
  BY DEF Inv, VerdictInv, VerdictsOn
<1> HIDE DEF W
<1>3. f \in Injection(W, 0..Len(journal))
  BY <1>1, <1>2 DEF Injection, IsInjective
<1>4. IsFiniteSet(0..Len(journal))
  BY <1>1, FS_Interval
<1> HIDE DEF f
<1> QED
  BY <1>3, <1>4, FS_Injection DEF W

\* Forced verdicts are no more than the undone folds that forced them.
LEMMA ForcedFew ==
    ASSUME Inv, NEW m, NEW v, NEW S \in SUBSET VerdictsOn(m, v), \A w \in S : Forced(w)
    PROVE  IsFiniteSet(UndoneFolds(m, v)) /\ Cardinality(S) <= Cardinality(UndoneFolds(m, v))
<1> DEFINE F == UndoneFolds(m, v)
           for(w, j) == j \in jobs /\ j.force /\ j.mem = w.mem /\ j.version = w.version /\ j.round = w.round
           job(w) == CHOOSE j : for(w, j)
           f == [w \in S |-> job(w).cause]
<1>1. IsFiniteSet(F)
  <2>1. Len(journal) \in Nat
    BY DEF Inv, Typed, Recorded
  <2>2. IsFiniteSet(1..Len(journal)) /\ F \in SUBSET (1..Len(journal))
    BY <2>1, FS_Interval DEF UndoneFolds
  <2> HIDE DEF F
  <2> QED
    BY <2>2, FS_Subset
<1>2. \A w \in S : for(w, job(w)) /\ w.mem = m /\ w.version = v
  <2> TAKE w \in S
  <2>1. \E j : for(w, j)
    BY DEF Forced
  <2>2. for(w, job(w))
    BY <2>1
  <2> QED
    BY <2>2 DEF VerdictsOn
<1> HIDE DEF job
<1>3. \A w \in S : job(w).cause \in F
  BY <1>2 DEF Inv, VerdictInv, UndoneFolds
<1>4. \A w, x \in S : job(w).cause = job(x).cause => w = x
  <2> TAKE w, x \in S
  <2> HAVE job(w).cause = job(x).cause
  <2>1. job(w) = job(x)
    BY <1>2 DEF Inv, VerdictInv
  <2>2. w.round = x.round
    BY <1>2, <2>1
  <2> QED
    BY <1>2, <2>2 DEF Inv, VerdictInv, VerdictsOn
<1> HIDE DEF F
<1>5. f \in Injection(S, F)
  BY <1>3, <1>4 DEF Injection, IsInjective
<1> HIDE DEF f
<1> QED
  BY <1>1, <1>5, FS_Injection DEF F

\* A version gets one verdict, and one more for each of its folds a person
\* undid, however often and in whatever order its jobs are delivered
\* (recordVerdict's check, rejudge).
THEOREM VerdictsRationed == Spec => []VerdictsOnce
<1>1. Inv => VerdictsOnce
  <2> SUFFICES ASSUME Inv, NEW m, NEW v
               PROVE  Cardinality(VerdictsOn(m, v)) <= 1 + Cardinality(UndoneFolds(m, v))
    BY DEF VerdictsOnce, UndoneFolds, FoldOf
  <2> DEFINE W == VerdictsOn(m, v)
             F == UndoneFolds(m, v)
  <2>1. IsFiniteSet(W)
    BY RoundsFinite
  <2>2. ASSUME NEW S \in SUBSET W, \A w \in S : Forced(w)
        PROVE  IsFiniteSet(F) /\ Cardinality(S) <= Cardinality(F)
    BY <2>2, ForcedFew
  <2>3. \A w, x \in W : w = x \/ Forced(w) \/ Forced(x)
    BY DEF Inv, VerdictInv, VerdictsOn
  <2> HIDE DEF W, F
  <2>4. IsFiniteSet(F) /\ Cardinality(F) \in Nat /\ Cardinality(W) \in Nat
    <3>1. IsFiniteSet(F)
      <4>1. {} \in SUBSET W /\ \A w \in {} : Forced(w)
        OBVIOUS
      <4> QED
        BY <2>2, <4>1
    <3> QED
      BY <2>1, <3>1, FS_CardinalityType
  <2>5. CASE \A w \in W : Forced(w)
    <3>1. Cardinality(W) <= Cardinality(F)
      BY <2>2, <2>5
    <3> QED
      BY <2>4, <3>1 DEF W, F
  <2>6. ASSUME NEW u \in W, ~Forced(u) PROVE Cardinality(W) <= 1 + Cardinality(F)
    <3>1. W \ {u} \in SUBSET W /\ \A w \in W \ {u} : Forced(w)
      BY <2>3, <2>6
    <3>2. Cardinality(W \ {u}) <= Cardinality(F)
      BY <2>2, <3>1
    <3>3. Cardinality(W \ {u}) = Cardinality(W) - 1
      BY <2>1, FS_RemoveElement
    <3> QED
      BY <2>4, <3>2, <3>3
  <2> QED
    BY <2>4, <2>5, <2>6 DEF W, F
<1> QED
  BY <1>1, InitInv, NextInv, PTL DEF Spec

============================================================================

--------------------------- MODULE DeliveryProofs ---------------------------
(***************************************************************************)
(* What holds of Delivery for every number of devices, edits and runs, and *)
(* whatever is lost, restarted or brought by git: its types, that no hand  *)
(* edit is written over, and that the baseline never goes back.            *)
(***************************************************************************)
EXTENDS Delivery, TLAPS

----------------------------------------------------------------------------
\* The inductive invariants

\* A run is there before a device works on it, and what it reports is a
\* file's content.
Working(d) ==
    /\ dev[d].pc = "judge" => srv.last # 0
    /\ dev[d].pc \in {"write", "ack"} => dev[d].run # 0
    /\ dev[d].pc = "report" => dev[d].disk # 0
Left == [edits : SUBSET Edits, resolves : Nat, trouble : Nat]
Typed ==
    /\ TypeOK /\ left \in Left
    /\ \A d \in Devices : Working(d)

\* What a device has read of its file, or would read now.
Seen(d) == {disk[d], dev[d].disk}

\* An edit nobody saved yet is nowhere, and one that is saved is on one
\* device's disk: it is not one of the runs that travel by git.
EditsApart ==
    /\ \A e \in left.edits : srv.open # e /\ \A d \in Devices : e \notin Seen(d)
    /\ \A d, c \in Devices, e \in Edits : e \in Seen(d) /\ e \in Seen(c) => d = c

\* The target is drifted as long as an edit is open.
OpenDrifts == srv.open # None => srv.sync = "drifted"

\* A baseline that isn't a run was pulled or overwrote with.
BaselineAccepted ==
    /\ srv.file \in Edits => srv.file \in accepted
    /\ \A d \in Devices : dev[d].file \in Edits => dev[d].file \in accepted

\* A device judges and writes only while its own edit isn't before a
\* person.
NotAsked ==
    \A d \in Devices : dev[d].pc \in {"judge", "write"} => srv.open \notin Seen(d) \cap Edits

\* What a device is about to write over is given up, and not held.
GivenUp(d) ==
    dev[d].pc = "write" /\ dev[d].disk \in Edits =>
        /\ dev[d].disk \in accepted
        /\ ~(srv.file = dev[d].disk /\ srv.hold = "waiting")

EditInv ==
    /\ EditsApart /\ OpenDrifts /\ BaselineAccepted /\ NotAsked
    /\ \A d \in Devices : GivenUp(d)

----------------------------------------------------------------------------
\* Types

LEMMA ContentsTypes ==
    /\ Runs \subseteq Contents /\ Edits \subseteq Contents
    /\ 0 \notin Contents /\ None \notin Contents \cup {0} /\ None \notin Nat
    /\ 0 .. MaxRuns \subseteq Contents \cup {0}
    /\ Runs \subseteq Nat /\ 0 .. MaxRuns \subseteq Nat /\ MaxRuns \in Nat
    /\ Edits \cap (0 .. MaxRuns) = {} /\ Edits \cap Nat = {}
    /\ \A n \in 0 .. MaxRuns : n # 0 => n \in Runs
BY DeliveryAssumption DEF Contents, Runs

\* A row whose state is settled is a row.
LEMMA SettledRow ==
    ASSUME NEW row \in Row
    PROVE  settledState(row) \in {"off", "compiling", "pending", "in_sync", "drifted"}
BY DEF settledState, Row

LEMMA MarkedRow ==
    ASSUME NEW row \in Row, NEW next \in {"same", "new"}
    PROVE  markDirty(row, next) \in Row
BY DEF markDirty, Row

\* A file is judged by what it is.
LEMMA Judged ==
    ASSUME NEW d \in Devices, NEW latest, NEW j \in judgeFile(d, latest)
    PROVE  /\ j \in {"absent", "current", "ours", "hand_edit"}
           /\ j = "hand_edit" => disk[d] # 0
           /\ j = "current" => disk[d] = latest
           /\ j = "ours" => disk[d] \in knownHashes(d) \cup Nat
BY DEF judgeFile, Answers

LEMMA ReportingType ==
    ASSUME Typed, NEW d \in Devices, disk[d] # 0
    PROVE  Reporting(d) \in Work /\ Idle(d) \in Work
<1>1. dev[d] \in Work /\ disk[d] \in Contents \cup {0} /\ 0 \in 0 .. MaxRuns
  BY ContentsTypes DEF Typed, TypeOK
<1> QED
  BY <1>1 DEF Reporting, Idle, Work

LEMMA TypedInit == Init => Typed
<1> SUFFICES ASSUME Init PROVE Typed
  OBVIOUS
<1>1. 0 \in 0 .. MaxRuns /\ Left = [edits : SUBSET Edits, resolves : Nat, trouble : Nat]
  BY ContentsTypes DEF Left
<1>2. srv \in Row
  BY <1>1 DEF Init, Row
<1>3. Nothing \in Mine /\ Unpolled \in Work
  BY <1>1 DEF Nothing, Mine, Unpolled, Work
<1>4. mine \in [Devices -> Mine] /\ dev \in [Devices -> Work]
  BY <1>3 DEF Init
<1>5. left \in Left
  BY <1>1, DeliveryAssumption DEF Init
<1>6. \A d \in Devices : Working(d)
  BY DEF Init, Working, Unpolled
<1> QED
  BY <1>2, <1>4, <1>5, <1>6 DEF Typed, TypeOK, Init, Left

\* What a person or the compiler does to the target.
TargetSteps ==
    Change \/ Compiled \/ Decide \/ \E mode \in {"pull", "overwrite", "stop"} : resolveDrift(mode)

LEMMA TargetTypes ==
    ASSUME Typed, TargetSteps
    PROVE  Typed'
<1>t. srv \in Row /\ left \in Left /\ 0 \in 0 .. MaxRuns
  BY ContentsTypes DEF Typed, TypeOK
<1>u. UNCHANGED <<disk, mine, dev, claimed>>
  BY DEF TargetSteps, Change, Compiled, Decide, resolveDrift, device
<1>1. CASE Change \/ Decide
  <2>1. [srv EXCEPT !.hold = "decided"] \in Row
    BY <1>t DEF Row
  <2>2. srv' \in Row /\ UNCHANGED <<accepted, left>>
    BY <1>1, <1>t, <2>1, MarkedRow DEF Change, Decide
  <2>3. srv'.last = srv.last
    BY <1>1, <1>t DEF Change, Decide, markDirty, Row
  <2> QED
    BY <1>u, <2>2, <2>3 DEF Typed, TypeOK, Working
<1>2. CASE Compiled
  <2> DEFINE row == [srv EXCEPT !.next = "none",
                                !.last = IF srv.next = "new" /\ @ < MaxRuns THEN @ + 1 ELSE @]
  <2>1. row \in Row /\ (srv.last # 0 => row.last # 0)
    <3> DEFINE last == IF srv.next = "new" /\ srv.last < MaxRuns THEN srv.last + 1 ELSE srv.last
    <3>1. srv.last \in 0 .. MaxRuns /\ last \in 0 .. MaxRuns /\ (srv.last # 0 => last # 0)
      BY <1>t, ContentsTypes DEF Row
    <3>2. row = [srv EXCEPT !.next = "none", !.last = last]
      BY <1>t DEF Row
    <3> HIDE DEF last, row
    <3> QED
      BY <1>t, <3>1, <3>2 DEF Row
  <2>2. settledState(row) \in {"off", "compiling", "pending", "in_sync", "drifted"}
    BY <2>1, SettledRow
  <2>3. srv' = [row EXCEPT !.sync = IF @ = "compiling" THEN settledState(row) ELSE @]
    BY <1>2 DEF Compiled
  <2> HIDE DEF row
  <2>4. srv' \in Row /\ srv'.last = row.last
    BY <2>1, <2>2, <2>3 DEF Row
  <2>5. UNCHANGED <<accepted, left>>
    BY <1>2 DEF Compiled
  <2> QED
    BY <1>u, <2>1, <2>4, <2>5 DEF Typed, TypeOK, Working
<1>3. ASSUME NEW mode \in {"pull", "overwrite", "stop"}, resolveDrift(mode)
      PROVE  Typed'
  <2> DEFINE closed == [srv EXCEPT !.open = None, !.version = @ + 1]
             taken == [closed EXCEPT !.file = srv.open, !.sync = "in_sync",
                                     !.run = IF mode = "overwrite" THEN 0 ELSE @]
             row == [taken EXCEPT !.sync = settledState(taken)]
  <2>1. srv.open \in Contents
    <3>1. srv.open # None
      BY <1>3 DEF resolveDrift
    <3> QED
      BY <1>t, <3>1 DEF Row
  <2>2. closed \in Row /\ closed.last = srv.last
    <3>1. srv.version + 1 \in Nat /\ None \in Contents \cup {None}
      BY <1>t DEF Row
    <3>2. closed = [srv EXCEPT !.open = None, !.version = srv.version + 1]
      BY <1>t DEF Row
    <3> HIDE DEF closed
    <3> QED
      BY <1>t, <3>1, <3>2 DEF Row
  <2>3. taken \in Row /\ taken.last = srv.last
    <3> HIDE DEF closed
    <3> QED
      BY <1>t, <2>1, <2>2 DEF Row
  <2>4. row \in Row /\ row.last = srv.last
    <3> HIDE DEF taken
    <3>1. settledState(taken) \in {"off", "compiling", "pending", "in_sync", "drifted"}
      BY <2>3, SettledRow
    <3> QED
      BY <2>3, <3>1 DEF Row
  <2>5. /\ mode = "stop" => srv' = [closed EXCEPT !.sync = "off"]
        /\ mode = "overwrite" => srv' = markDirty([row EXCEPT !.hold = "none"], "same")
        /\ mode = "pull" => \E hold \in {"none", "waiting"} : srv' = [row EXCEPT !.hold = hold]
    BY <1>3 DEF resolveDrift
  <2> HIDE DEF closed, taken, row
  <2>6. [closed EXCEPT !.sync = "off"] \in Row
    BY <2>2 DEF Row
  <2>7. \A hold \in {"none", "waiting"} : [row EXCEPT !.hold = hold] \in Row
    BY <2>4 DEF Row
  <2>8. srv' \in Row
    BY <2>5, <2>6, <2>7, MarkedRow
  <2>9. srv'.last = srv.last
    BY <2>2, <2>4, <2>5 DEF Row, markDirty
  <2>10. accepted' \subseteq Contents
    BY <1>3, <2>1 DEF resolveDrift, Typed, TypeOK
  <2>11. left' \in Left /\ left'.edits = left.edits
    BY <1>3, <1>t DEF resolveDrift, Left
  <2> QED
    BY <1>u, <2>8, <2>9, <2>10, <2>11 DEF Typed, TypeOK, Working
<1> QED
  BY <1>1, <1>2, <1>3 DEF TargetSteps

\* A step of one device that leaves the target's runs there, and gives the
\* device a record that is one.
LEMMA DeviceTyped ==
    ASSUME Typed, NEW d \in Devices, NEW new \in Work, dev' = [dev EXCEPT ![d] = new],
           new.pc = "judge" => srv.last # 0,
           new.pc \in {"write", "ack"} => new.run # 0,
           new.pc = "report" => new.disk # 0,
           srv' \in Row, srv'.last = srv.last,
           disk' \in [Devices -> Contents \cup {0}], mine' \in [Devices -> Mine],
           claimed' \subseteq Devices \X Nat \X Contents, left' \in Left, UNCHANGED accepted
    PROVE  Typed'
<1>1. dev' \in [Devices -> Work] /\ accepted' \subseteq Contents /\ left'.edits \subseteq Edits
  BY DEF Typed, TypeOK, Left
<1>2. ASSUME NEW c \in Devices PROVE Working(c)'
  <2>1. dev'[c] = IF c = d THEN new ELSE dev[c]
    BY DEF Typed, TypeOK
  <2>2. Working(c)
    BY DEF Typed
  <2> QED
    BY <2>1, <2>2 DEF Working
<1> QED
  BY <1>1, <1>2 DEF Typed, TypeOK

LEMMA SyncTypes ==
    ASSUME Typed, NEW d \in Devices, Sync(d)
    PROVE  Typed'
<1> DEFINE new == [pc |-> IF Settled(d) THEN "idle" ELSE "judge", run |-> 0, disk |-> 0,
                   sync |-> IF Shown \in {"off", "drifted"} THEN Shown ELSE "other",
                   last |-> srv.last, version |-> srv.version, file |-> srv.file]
<1>1. srv \in Row /\ 0 \in 0 .. MaxRuns
  BY ContentsTypes DEF Typed, TypeOK
<1>2. new \in Work
  BY <1>1 DEF Row, Work
<1>3. new.pc = "judge" => srv.last # 0
  BY DEF Settled
<1>4. new.pc \in {"idle", "judge"}
  OBVIOUS
<1>5. dev' = [dev EXCEPT ![d] = new] /\ UNCHANGED <<srv, claimed, disk, mine, accepted, left>>
  BY DEF Sync
<1> HIDE DEF new
<1> QED
  BY <1>1, <1>2, <1>3, <1>4, <1>5, DeviceTyped DEF Typed, TypeOK

\* What a device is when it has gone idle, reports or would report.
LEMMA QuietTypes ==
    ASSUME Typed, NEW d \in Devices, dev' = [dev EXCEPT ![d] = Idle(d)] \/
               (disk[d] # 0 /\ dev' = [dev EXCEPT ![d] = Reporting(d)]),
           srv' \in Row, srv'.last = srv.last, mine' \in [Devices -> Mine],
           claimed' \subseteq Devices \X Nat \X Contents, left' \in Left, UNCHANGED <<disk, accepted>>
    PROVE  Typed'
<1>1. dev[d] \in Work /\ disk[d] \in Contents \cup {0} /\ 0 \in 0 .. MaxRuns
      /\ disk' \in [Devices -> Contents \cup {0}]
  BY ContentsTypes DEF Typed, TypeOK
<1>2. Idle(d) \in Work /\ Idle(d).pc = "idle"
  BY <1>1 DEF Idle, Work
<1>3. CASE dev' = [dev EXCEPT ![d] = Idle(d)]
  BY <1>1, <1>2, <1>3, DeviceTyped
<1>4. CASE disk[d] # 0 /\ dev' = [dev EXCEPT ![d] = Reporting(d)]
  <2>1. Reporting(d) \in Work
    BY <1>4, ReportingType
  <2>2. Reporting(d).pc \in {"idle", "report"} /\ (Reporting(d).pc = "report" => Reporting(d).disk # 0)
    BY <1>1, <1>2, <1>4 DEF Reporting, Work
  <2> QED
    BY <1>1, <1>4, <2>1, <2>2, DeviceTyped
<1> QED
  BY <1>3, <1>4

LEMMA JudgeTypes ==
    ASSUME Typed, NEW d \in Devices, Judge(d) \/ HoldWrite(d) \/ Check(d)
    PROVE  Typed'
<1>1. srv \in Row /\ dev[d] \in Work /\ disk[d] \in Contents \cup {0} /\ 0 \in 0 .. MaxRuns
      /\ disk \in [Devices -> Contents \cup {0}] /\ mine \in [Devices -> Mine]
      /\ claimed \subseteq Devices \X Nat \X Contents /\ left \in Left /\ srv.last \in 0 .. MaxRuns
  BY ContentsTypes DEF Typed, TypeOK, Row
<1>2. UNCHANGED <<srv, claimed, disk, mine, accepted, left>>
  BY DEF Judge, HoldWrite, Check
<1>3. CASE dev' = [dev EXCEPT ![d] = Idle(d)] \/ (disk[d] # 0 /\ dev' = [dev EXCEPT ![d] = Reporting(d)])
  BY <1>1, <1>2, <1>3, QuietTypes
<1>4. CASE Judge(d) /\ ~Held
  <2>1. PICK j \in judgeFile(d, srv.last) :
          dev' = [dev EXCEPT ![d] =
              IF j = "hand_edit" THEN Reporting(d)
              ELSE [@ EXCEPT !.pc = IF j = "current" THEN "ack" ELSE "write",
                             !.run = srv.last, !.disk = IF j = "current" THEN 0 ELSE disk[d]]]
    BY <1>4 DEF Judge
  <2>2. CASE j = "hand_edit"
    <3>1. disk[d] # 0
      BY <2>2, Judged
    <3> QED
      BY <1>3, <2>1, <2>2, <3>1
  <2>3. CASE j # "hand_edit"
    <3> DEFINE new == [dev[d] EXCEPT !.pc = IF j = "current" THEN "ack" ELSE "write",
                           !.run = srv.last, !.disk = IF j = "current" THEN 0 ELSE disk[d]]
    <3>1. new \in Work /\ new.pc \in {"write", "ack"} /\ new.run = srv.last
      BY <1>1 DEF Work
    <3>2. srv.last # 0
      BY <1>4 DEF Judge, Typed, Working
    <3>3. dev' = [dev EXCEPT ![d] = new]
      BY <2>1, <2>3
    <3> HIDE DEF new
    <3> QED
      BY <1>1, <1>2, <3>1, <3>2, <3>3, DeviceTyped
  <2> QED
    BY <2>2, <2>3
<1>5. CASE Judge(d) /\ Held
  BY <1>3, <1>5 DEF Judge
<1>6. CASE HoldWrite(d)
  <2>1. PICK j \in judgeFile(d, dev[d].run) :
          dev' = [dev EXCEPT ![d] = IF j = "hand_edit" THEN Reporting(d) ELSE Idle(d)]
    BY <1>6 DEF HoldWrite
  <2> QED
    BY <1>3, <2>1, Judged
<1>7. CASE Check(d)
  <2>1. PICK j \in judgeFile(d, dev[d].last) : j = "hand_edit" /\ dev' = [dev EXCEPT ![d] = Reporting(d)]
    BY <1>7 DEF Check
  <2> QED
    BY <1>3, <2>1, Judged
<1> QED
  BY <1>4, <1>5, <1>6, <1>7

LEMMA WriteTypes ==
    ASSUME Typed, NEW d \in Devices, Write(d)
    PROVE  Typed'
<1>1. srv \in Row /\ dev[d] \in Work /\ mine[d] \in Mine /\ dev[d].pc = "write"
      /\ disk \in [Devices -> Contents \cup {0}] /\ mine \in [Devices -> Mine]
      /\ claimed \subseteq Devices \X Nat \X Contents /\ left \in Left
  BY DEF Typed, TypeOK, Write
<1>2. dev[d].run \in Runs /\ dev[d].run # 0
  BY <1>1, ContentsTypes DEF Typed, Working, Work
<1>3. disk' \in [Devices -> Contents \cup {0}]
  BY <1>1, <1>2, ContentsTypes DEF Write
<1>4. mine' \in [Devices -> Mine]
  <2>1. mine[d].wrote \cup {dev[d].run} \in SUBSET Runs
    BY <1>1, <1>2 DEF Mine
  <2>2. [mine[d] EXCEPT !.wrote = @ \cup {dev[d].run}, !.told = None, !.at = 0] \in Mine
    BY <1>1, <2>1 DEF Mine
  <2> QED
    BY <1>1, <2>2 DEF Write
<1>5. [dev[d] EXCEPT !.pc = "ack", !.disk = 0] \in Work
  BY <1>1 DEF Work
<1>6. dev' = [dev EXCEPT ![d] = [dev[d] EXCEPT !.pc = "ack", !.disk = 0]]
  BY <1>1 DEF Write, Typed, TypeOK
<1>7. /\ [dev[d] EXCEPT !.pc = "ack", !.disk = 0].pc = "ack"
      /\ [dev[d] EXCEPT !.pc = "ack", !.disk = 0].run = dev[d].run
  BY <1>1 DEF Work
<1>8. UNCHANGED <<srv, claimed, accepted, left>>
  BY DEF Write
<1> QED
  BY <1>1, <1>2, <1>3, <1>4, <1>5, <1>6, <1>7, <1>8, DeviceTyped

\* What happens beside is paid from the bound.
LEMMA LeftTypes ==
    ASSUME left \in Left
    PROVE  /\ \A kind : Happens(kind) => left' \in Left
           /\ \A outcome : Spends(outcome) => left' \in Left
           /\ \A e : left' = [left EXCEPT !.edits = @ \ {e}] => left' \in Left
           /\ \A outcome : Spends(outcome) => left'.edits = left.edits
<1>1. ASSUME NEW kind, Happens(kind) PROVE left' \in Left /\ left'.edits = left.edits
  BY <1>1 DEF Happens, May, Left
<1>2. ASSUME NEW e, left' = [left EXCEPT !.edits = @ \ {e}] PROVE left' \in Left
  BY <1>2 DEF Left
<1> QED
  BY <1>1, <1>2 DEF Spends

\* A delivery that counts is a row's.
LEMMA DeliveredRow ==
    ASSUME Typed, NEW d \in Devices, dev[d].run # 0, recordDelivery(d)
    PROVE  /\ srv' \in Row /\ srv'.last = srv.last /\ srv'.open = srv.open
           /\ \/ UNCHANGED srv
              \/ /\ srv'.run = dev[d].run /\ srv'.run >= srv.run
                 /\ srv'.file = dev[d].run /\ srv'.hold = "none"
                 /\ srv.sync \in {"off", "drifted"} => srv'.sync = srv.sync
<1> DEFINE run == dev[d].run
           row == [srv EXCEPT !.run = run, !.file = run, !.hold = "none"]
<1>1. srv \in Row /\ run \in 0 .. MaxRuns /\ run \in Contents \cup {0} /\ srv.run \in 0 .. MaxRuns
  BY ContentsTypes DEF Typed, TypeOK, Work, Row
<1>2. row \in Row /\ row.last = srv.last /\ row.open = srv.open /\ row.sync = srv.sync
      /\ row.run = run /\ row.file = run /\ row.hold = "none"
  <2> HIDE DEF run
  <2> QED
    BY <1>1 DEF Row
<1>3. settledState(row) \in {"off", "compiling", "pending", "in_sync", "drifted"}
  BY <1>2, SettledRow
<1>4. srv' = srv \/ (~Late(run) /\ srv' = [row EXCEPT !.sync = settledState(row)])
  BY DEF recordDelivery
<1>5. row.sync \in {"off", "drifted"} => settledState(row) = row.sync
  BY DEF settledState
<1>6. CASE ~Late(run) /\ srv' = [row EXCEPT !.sync = settledState(row)]
  <2> HIDE DEF row
  <2>1. srv' \in Row /\ srv'.last = row.last /\ srv'.open = row.open
        /\ srv'.run = row.run /\ srv'.file = row.file /\ srv'.hold = row.hold
        /\ srv'.sync = settledState(row)
    BY <1>2, <1>3, <1>6 DEF Row
  <2>2. run >= srv.run
    BY <1>1, <1>6, ContentsTypes DEF Late
  <2> QED
    BY <1>2, <1>5, <2>1, <2>2
<1> QED
  BY <1>1, <1>4, <1>6

LEMMA AckTypes ==
    ASSUME Typed, NEW d \in Devices, Ack(d)
    PROVE  Typed'
<1>1. srv \in Row /\ dev[d] \in Work /\ mine[d] \in Mine /\ left \in Left
      /\ mine \in [Devices -> Mine] /\ claimed \subseteq Devices \X Nat \X Contents
      /\ dev[d].run \in 0 .. MaxRuns /\ dev[d].run # 0
  BY DEF Typed, TypeOK, Ack, Working, Work
<1>2. srv' \in Row /\ srv'.last = srv.last
  BY <1>1, DeliveredRow DEF Ack
<1>3. left' \in Left
  BY <1>1, LeftTypes DEF Ack
<1>4. mine' \in [Devices -> Mine]
  <2>1. [mine[d] EXCEPT !.here = dev[d].run] \in Mine
    BY <1>1 DEF Mine
  <2> QED
    BY <1>1, <2>1 DEF Ack
<1>5. dev' = [dev EXCEPT ![d] = Idle(d)] /\ UNCHANGED <<claimed, disk, accepted>>
  BY DEF Ack
<1> QED
  BY <1>1, <1>2, <1>3, <1>4, <1>5, QuietTypes

\* An observation that is recorded is a row's, and opens its edit.
LEMMA ObservedRow ==
    ASSUME Typed, NEW d \in Devices, dev[d].pc = "report", recordObservation(d)
    PROVE  /\ srv' \in Row /\ srv'.last = srv.last
           /\ claimed' \subseteq Devices \X Nat \X Contents
           /\ \/ UNCHANGED srv
              \/ /\ srv'.open = dev[d].disk /\ srv'.sync = "drifted" /\ srv.sync # "off"
                 /\ srv'.file = srv.file /\ srv'.run = srv.run /\ srv'.hold = srv.hold
                 /\ dev[d].disk # srv.file
<1> DEFINE content == dev[d].disk
           key == <<d, dev[d].version, content>>
<1>1. srv \in Row /\ content \in Contents /\ dev[d].version \in Nat
  BY DEF Typed, TypeOK, Work, Working
<1>2. srv.version + 1 \in Nat /\ claimed \subseteq Devices \X Nat \X Contents
  BY <1>1 DEF Row, Typed, TypeOK
<1>3. CASE UNCHANGED <<srv, claimed>>
  BY <1>1, <1>2, <1>3
<1>4. CASE ~(key \in claimed \/ srv.sync = "off" \/ content \in {srv.file, srv.last})
  <2>1. /\ claimed' = claimed \cup {key} /\ srv.sync # "off" /\ content # srv.file
        /\ srv' = [srv EXCEPT !.open = content, !.sync = "drifted", !.version = srv.version + 1]
    BY <1>4, <1>1 DEF recordObservation, Row
  <2>2. claimed' \subseteq Devices \X Nat \X Contents
    BY <1>1, <1>2, <2>1
  <2> HIDE DEF content
  <2>3. srv' \in Row /\ srv'.last = srv.last /\ srv'.open = content /\ srv'.sync = "drifted"
        /\ srv'.file = srv.file /\ srv'.run = srv.run /\ srv'.hold = srv.hold
    BY <1>1, <1>2, <2>1 DEF Row
  <2> QED
    BY <2>1, <2>2, <2>3 DEF content
<1> QED
  BY <1>3, <1>4 DEF recordObservation

LEMMA ReportTypes ==
    ASSUME Typed, NEW d \in Devices, Report(d)
    PROVE  Typed'
<1>1. srv \in Row /\ dev[d] \in Work /\ mine[d] \in Mine /\ left \in Left
      /\ mine \in [Devices -> Mine] /\ claimed \subseteq Devices \X Nat \X Contents
      /\ dev[d].pc = "report" /\ dev[d].disk \in Contents
  BY DEF Typed, TypeOK, Report, Working, Work
<1>2. srv' \in Row /\ srv'.last = srv.last /\ claimed' \subseteq Devices \X Nat \X Contents
  BY <1>1, ObservedRow DEF Report
<1>3. left' \in Left
  BY <1>1, LeftTypes DEF Report
<1>4. mine' \in [Devices -> Mine]
  <2>1. srv'.version \in Nat
    BY <1>2 DEF Row
  <2>2. [mine[d] EXCEPT !.told = dev[d].disk, !.at = srv'.version] \in Mine
    BY <1>1, <2>1 DEF Mine
  <2> QED
    BY <1>1, <2>2 DEF Report
<1>5. dev' = [dev EXCEPT ![d] = Idle(d)] /\ UNCHANGED <<disk, accepted>>
  BY DEF Report
<1> QED
  BY <1>2, <1>3, <1>4, <1>5, QuietTypes

LEMMA OutsideTypes ==
    ASSUME Typed, NEW d \in Devices,
           (\E e \in Edits : Save(d, e)) \/ Git(d) \/ Crash(d)
    PROVE  Typed'
<1>1. srv \in Row /\ left \in Left /\ disk \in [Devices -> Contents \cup {0}]
      /\ mine \in [Devices -> Mine] /\ mine[d] \in Mine /\ 0 \in 0 .. MaxRuns
      /\ claimed \subseteq Devices \X Nat \X Contents /\ srv.last \in 0 .. MaxRuns
  BY ContentsTypes DEF Typed, TypeOK, Row
<1>2. CASE (\E e \in Edits : Save(d, e)) \/ Git(d)
  <2>1. left' \in Left /\ UNCHANGED <<srv, claimed, mine, dev, accepted>>
    BY <1>1, <1>2, LeftTypes DEF Save, Git
  <2>2. 1 .. srv.last \subseteq Contents
    BY <1>1, ContentsTypes DEF Runs
  <2>3. disk' \in [Devices -> Contents \cup {0}]
    BY <1>1, <1>2, <2>2, ContentsTypes DEF Save, Git
  <2>4. \A c \in Devices : Working(c)'
    BY <2>1 DEF Typed, Working
  <2>5. left'.edits \subseteq Edits
    BY <2>1 DEF Left
  <2> QED
    BY <2>1, <2>3, <2>4, <2>5 DEF Typed, TypeOK
<1>3. CASE Crash(d)
  <2>1. Unpolled \in Work /\ Unpolled.pc = "idle"
    BY <1>1, ContentsTypes DEF Unpolled, Work
  <2>2. Kept(d) \subseteq Mine
    BY <1>1 DEF Kept, Mine
  <2>3. mine' \in [Devices -> Mine]
    BY <1>1, <1>3, <2>2 DEF Crash
  <2>4. left' \in Left
    BY <1>1, <1>3, LeftTypes DEF Crash
  <2> QED
    BY <1>1, <1>3, <2>1, <2>3, <2>4, DeviceTyped DEF Crash
<1> QED
  BY <1>2, <1>3

LEMMA TypedNext == Typed /\ [Next]_vars => Typed'
<1> SUFFICES ASSUME Typed, [Next]_vars PROVE Typed'
  OBVIOUS
<1>1. CASE UNCHANGED vars
  BY <1>1 DEF vars, Typed, TypeOK, Working
<1>2. CASE Next
  BY <1>2, TargetTypes, SyncTypes, JudgeTypes, WriteTypes, AckTypes, ReportTypes, OutsideTypes
     DEF Next, TargetSteps, Delivering
<1> QED
  BY <1>1, <1>2

\* Every variable has its type in every state.
THEOREM TypeCorrect == Spec => []TypeOK
<1>1. Typed => TypeOK
  BY DEF Typed
<1> QED
  BY <1>1, TypedInit, TypedNext, PTL DEF Spec

----------------------------------------------------------------------------
\* No hand edit is written over

\* People and the compiler change the baseline only to the edit that was
\* open, which they give up by it, and open none.
LEMMA TargetEdits ==
    ASSUME Typed, TargetSteps, OpenDrifts
    PROVE  /\ UNCHANGED <<disk, dev>> /\ left'.edits = left.edits
           /\ accepted \subseteq accepted' /\ srv'.open \in {srv.open, None}
           /\ \/ srv'.file = srv.file /\ (srv'.hold = "waiting" => srv.hold = "waiting")
              \/ srv'.file = srv.open /\ srv.open # None /\ srv.open \in accepted'
           /\ OpenDrifts'
<1>t. srv \in Row /\ left \in Left
  BY DEF Typed, TypeOK
<1>1. CASE Change
  <2>1. srv' = markDirty(srv, "new")
    BY <1>1 DEF Change
  <2>2. srv'.file = srv.file /\ srv'.hold = srv.hold /\ srv'.open = srv.open
        /\ (srv.sync = "drifted" => srv'.sync = "drifted")
    BY <1>t, <2>1 DEF markDirty, Row
  <2> QED
    BY <1>1, <2>2 DEF Change, device, OpenDrifts
<1>2. CASE Decide
  <2> DEFINE row == [srv EXCEPT !.hold = "decided"]
  <2>1. row.file = srv.file /\ row.hold = "decided" /\ row.open = srv.open /\ row.sync = srv.sync /\ row \in Row
    BY <1>t DEF Row
  <2>2. srv' = row \/ srv' = markDirty(row, "new")
    BY <1>2 DEF Decide
  <2> HIDE DEF row
  <2>3. srv'.file = srv.file /\ srv'.hold = "decided" /\ srv'.open = srv.open
        /\ (srv.sync = "drifted" => srv'.sync = "drifted")
    BY <2>1, <2>2 DEF markDirty, Row
  <2> QED
    BY <1>2, <2>3 DEF Decide, device, OpenDrifts
<1>3. CASE Compiled
  <2> DEFINE row == [srv EXCEPT !.next = "none",
                                !.last = IF srv.next = "new" /\ @ < MaxRuns THEN @ + 1 ELSE @]
  <2>1. row.file = srv.file /\ row.hold = srv.hold /\ row.open = srv.open /\ row.sync = srv.sync
        /\ DOMAIN row = DOMAIN srv
    BY <1>t DEF Row
  <2>2. srv' = [row EXCEPT !.sync = IF @ = "compiling" THEN settledState(row) ELSE @]
    BY <1>3 DEF Compiled
  <2> HIDE DEF row
  <2>3. srv'.file = srv.file /\ srv'.hold = srv.hold /\ srv'.open = srv.open
        /\ (srv.sync = "drifted" => srv'.sync = "drifted")
    BY <1>t, <2>1, <2>2 DEF Row
  <2> QED
    BY <1>3, <2>3 DEF Compiled, device, OpenDrifts
<1>4. ASSUME NEW mode \in {"pull", "overwrite", "stop"}, resolveDrift(mode)
      PROVE  /\ srv'.open = None /\ UNCHANGED <<disk, dev>> /\ left'.edits = left.edits
             /\ accepted \subseteq accepted'
             /\ \/ srv'.file = srv.file /\ srv'.hold = srv.hold
                \/ srv'.file = srv.open /\ srv.open # None /\ srv.open \in accepted'
  <2> DEFINE closed == [srv EXCEPT !.open = None, !.version = @ + 1]
             taken == [closed EXCEPT !.file = srv.open, !.sync = "in_sync",
                                     !.run = IF mode = "overwrite" THEN 0 ELSE @]
             row == [taken EXCEPT !.sync = settledState(taken)]
  <2>1. closed.file = srv.file /\ closed.hold = srv.hold /\ closed.open = None /\ DOMAIN closed = DOMAIN srv
    BY <1>t DEF Row
  <2>2. taken.file = srv.open /\ taken.open = None /\ DOMAIN taken = DOMAIN srv
    <3> HIDE DEF closed
    <3> QED
      BY <1>t, <2>1 DEF Row
  <2>3. row.file = srv.open /\ row.open = None /\ DOMAIN row = DOMAIN srv
    <3> HIDE DEF taken
    <3> QED
      BY <1>t, <2>2 DEF Row
  <2>4. /\ srv.open # None
        /\ mode = "stop" => srv' = [closed EXCEPT !.sync = "off"]
        /\ mode = "overwrite" => srv' = markDirty([row EXCEPT !.hold = "none"], "same")
        /\ mode = "pull" => \E hold \in {"none", "waiting"} : srv' = [row EXCEPT !.hold = hold]
    BY <1>4 DEF resolveDrift
  <2>5. accepted' = IF mode = "stop" THEN accepted ELSE accepted \cup {srv.open}
    BY <1>4 DEF resolveDrift
  <2>6. UNCHANGED <<disk, dev>> /\ left'.edits = left.edits
    BY <1>4, <1>t DEF resolveDrift, device, Left
  <2> HIDE DEF closed, taken, row
  <2>7. CASE mode = "stop"
    <3>1. srv'.file = srv.file /\ srv'.hold = srv.hold /\ srv'.open = None
      BY <1>t, <2>1, <2>4, <2>7 DEF Row
    <3> QED
      BY <2>5, <2>6, <2>7, <3>1
  <2>8. CASE mode = "overwrite"
    <3>1. srv'.file = srv.open /\ srv'.open = None
      BY <1>t, <2>3, <2>4, <2>8 DEF Row, markDirty
    <3> QED
      BY <2>4, <2>5, <2>6, <2>8, <3>1
  <2>9. CASE mode = "pull"
    <3>1. srv'.file = srv.open /\ srv'.open = None
      BY <1>t, <2>3, <2>4, <2>9 DEF Row
    <3> QED
      BY <2>4, <2>5, <2>6, <2>9, <3>1
  <2> QED
    BY <2>7, <2>8, <2>9
<1>5. CASE \E mode \in {"pull", "overwrite", "stop"} : resolveDrift(mode)
  BY <1>4, <1>5 DEF OpenDrifts
<1> QED
  BY <1>1, <1>2, <1>3, <1>5 DEF TargetSteps

LEMMA TargetKeeps ==
    ASSUME Typed, TargetSteps, EditInv
    PROVE  EditInv'
<1>1. /\ UNCHANGED <<disk, dev>> /\ left'.edits = left.edits
      /\ accepted \subseteq accepted' /\ srv'.open \in {srv.open, None}
      /\ \/ srv'.file = srv.file /\ (srv'.hold = "waiting" => srv.hold = "waiting")
         \/ srv'.file = srv.open /\ srv.open # None /\ srv.open \in accepted'
      /\ OpenDrifts'
  BY TargetEdits DEF EditInv
<1>2. left.edits \subseteq Edits /\ None \notin Edits
  BY DeliveryAssumption DEF Typed, TypeOK
<1>3. EditsApart'
  BY <1>1, <1>2 DEF EditInv, EditsApart, Seen
<1>4. BaselineAccepted'
  BY <1>1 DEF EditInv, BaselineAccepted
<1>5. NotAsked'
  BY <1>1, <1>2 DEF EditInv, NotAsked, Seen
<1>6. ASSUME NEW d \in Devices PROVE GivenUp(d)'
  <2>1. GivenUp(d) /\ (dev[d].pc = "write" /\ dev[d].disk \in Edits => srv.open # dev[d].disk)
    BY DEF EditInv, NotAsked, Seen
  <2> QED
    BY <1>1, <2>1 DEF GivenUp
<1> QED
  BY <1>1, <1>3, <1>4, <1>5, <1>6 DEF EditInv

LEMMA SyncKeeps ==
    ASSUME Typed, NEW d \in Devices, Sync(d), EditInv
    PROVE  EditInv'
<1>1. dev[d].pc = "idle" /\ UNCHANGED <<srv, disk, accepted, left>>
  BY DEF Sync
<1>2. /\ \A c \in Devices \ {d} : dev'[c] = dev[c]
      /\ dev'[d].disk = 0 /\ dev'[d].file = srv.file /\ dev'[d].pc \in {"idle", "judge"}
      /\ dev'[d].pc = "judge" => Shown \notin {"off", "drifted", "held"}
  BY DEF Sync, Settled, Typed, TypeOK
<1>3. 0 \notin Edits /\ left.edits \subseteq Edits /\ None \notin Edits
  BY DeliveryAssumption DEF Typed, TypeOK
<1>4. \A c \in Devices : Seen(c)' \cap Edits \subseteq Seen(c)
  BY <1>1, <1>2, <1>3 DEF Seen
<1>5. EditsApart'
  BY <1>1, <1>3, <1>4 DEF EditInv, EditsApart
<1>6. BaselineAccepted'
  BY <1>1, <1>2 DEF EditInv, BaselineAccepted
<1>7. NotAsked'
  <2>1. dev'[d].pc = "judge" => srv.open = None
    BY <1>2 DEF EditInv, OpenDrifts, Shown
  <2> QED
    BY <1>1, <1>2, <1>3, <1>4, <2>1 DEF EditInv, NotAsked
<1>8. \A c \in Devices : GivenUp(c)'
  BY <1>1, <1>2 DEF EditInv, GivenUp
<1> QED
  BY <1>1, <1>5, <1>6, <1>7, <1>8 DEF EditInv, OpenDrifts

\* A device goes idle, reports what it sees, or acknowledges.
LEMMA QuietKeeps ==
    ASSUME Typed, NEW d \in Devices, EditInv, NEW new, dev' = [dev EXCEPT ![d] = new],
           new.pc \in {"idle", "report", "ack"}, new.disk \in {0, disk[d], dev[d].disk},
           new.file \in {dev[d].file, 0},
           UNCHANGED <<srv, disk, accepted>>, left'.edits = left.edits
    PROVE  EditInv'
<1>1. \A c \in Devices : dev'[c] = IF c = d THEN new ELSE dev[c]
  BY DEF Typed, TypeOK
<1>2. 0 \notin Edits /\ left.edits \subseteq Edits
  BY DeliveryAssumption DEF Typed, TypeOK
<1>3. \A c \in Devices : Seen(c)' \cap Edits \subseteq Seen(c)
  BY <1>1, <1>2 DEF Seen
<1>4. EditsApart'
  BY <1>2, <1>3 DEF EditInv, EditsApart
<1>5. BaselineAccepted'
  BY <1>1, <1>2 DEF EditInv, BaselineAccepted
<1>6. NotAsked'
  BY <1>1, <1>3 DEF EditInv, NotAsked
<1>7. \A c \in Devices : GivenUp(c)'
  BY <1>1 DEF EditInv, GivenUp
<1> QED
  BY <1>4, <1>5, <1>6, <1>7 DEF EditInv, OpenDrifts

\* A device judges its edit Memax's only when it was the baseline as polled.
LEMMA JudgeKeeps ==
    ASSUME Typed, NEW d \in Devices, EditInv, Judge(d)
    PROVE  EditInv'
<1>1. dev[d] \in Work /\ mine[d] \in Mine /\ srv \in Row /\ dev[d].pc = "judge"
      /\ UNCHANGED <<srv, disk, accepted, left>>
  BY DEF Typed, TypeOK, Judge
<1>2. Idle(d).pc = "idle" /\ Idle(d).disk = 0 /\ Idle(d).file = dev[d].file
  BY <1>1 DEF Idle, Work
<1>3. Reporting(d).pc \in {"idle", "report"} /\ Reporting(d).disk \in {0, disk[d]}
      /\ Reporting(d).file = dev[d].file
  BY <1>1, <1>2 DEF Reporting, Work
<1>4. CASE Held
  BY <1>1, <1>2, <1>4, QuietKeeps DEF Judge
<1>5. CASE ~Held
  <2>1. PICK j \in judgeFile(d, srv.last) :
          dev' = [dev EXCEPT ![d] =
              IF j = "hand_edit" THEN Reporting(d)
              ELSE [dev[d] EXCEPT !.pc = IF j = "current" THEN "ack" ELSE "write",
                                  !.run = srv.last, !.disk = IF j = "current" THEN 0 ELSE disk[d]]]
    BY <1>1, <1>5 DEF Judge, Typed, TypeOK
  <2>2. CASE j = "hand_edit"
    BY <1>1, <1>3, <2>1, <2>2, QuietKeeps
  <2>3. CASE j # "hand_edit"
    <3> DEFINE new == [dev[d] EXCEPT !.pc = IF j = "current" THEN "ack" ELSE "write",
                           !.run = srv.last, !.disk = IF j = "current" THEN 0 ELSE disk[d]]
    <3>1. /\ new.pc = (IF j = "current" THEN "ack" ELSE "write") /\ new.file = dev[d].file
          /\ new.disk = IF j = "current" THEN 0 ELSE disk[d]
      BY <1>1 DEF Work
    <3>2. dev' = [dev EXCEPT ![d] = new]
      BY <2>1, <2>3
    <3> HIDE DEF new
    <3>3. CASE j = "current"
      BY <1>1, <3>1, <3>2, <3>3, QuietKeeps
    <3>4. CASE j # "current"
      <4>1. \A c \in Devices : dev'[c] = IF c = d THEN new ELSE dev[c]
        BY <3>2 DEF Typed, TypeOK
      <4>2. new.pc = "write" /\ new.disk = disk[d] /\ new.file = dev[d].file
        BY <3>1, <3>4
      <4>3. \A c \in Devices : Seen(c)' \subseteq Seen(c)
        BY <1>1, <4>1, <4>2 DEF Seen
      <4>4. disk[d] \in Edits => disk[d] \in accepted
        <5>1. SUFFICES ASSUME disk[d] \in Edits PROVE disk[d] \in accepted
          OBVIOUS
        <5>2. j \in {"absent", "ours"} /\ disk[d] # 0
          BY <2>3, <3>4, <5>1, Judged, ContentsTypes
        <5>3. j = "ours" /\ disk[d] \in knownHashes(d) \cup Nat
          <6>1. j # "absent"
            BY <5>2 DEF judgeFile
          <6> QED
            BY <5>2, <6>1, Judged
        <5>4. disk[d] = dev[d].file
          BY <1>1, <5>1, <5>3, ContentsTypes DEF knownHashes, Mine, Work
        <5> QED
          BY <5>1, <5>4 DEF EditInv, BaselineAccepted
      <4>5. EditsApart'
        BY <1>1, <4>3 DEF EditInv, EditsApart
      <4>6. BaselineAccepted'
        BY <1>1, <4>1, <4>2 DEF EditInv, BaselineAccepted
      <4>7. NotAsked'
        BY <1>1, <4>1, <4>2, <4>3 DEF EditInv, NotAsked
      <4>8. \A c \in Devices : GivenUp(c)'
        BY <1>1, <1>5, <4>1, <4>2, <4>4 DEF EditInv, GivenUp, Held
      <4> QED
        BY <1>1, <4>5, <4>6, <4>7, <4>8 DEF EditInv, OpenDrifts
    <3> QED
      BY <3>3, <3>4
  <2> QED
    BY <2>2, <2>3
<1> QED
  BY <1>4, <1>5

LEMMA HoldKeeps ==
    ASSUME Typed, NEW d \in Devices, EditInv, HoldWrite(d) \/ Check(d)
    PROVE  EditInv'
<1>1. dev[d] \in Work /\ UNCHANGED <<srv, disk, accepted, left>>
  BY DEF Typed, TypeOK, HoldWrite, Check
<1>2. Idle(d).pc = "idle" /\ Idle(d).disk = 0 /\ Idle(d).file = dev[d].file
  BY <1>1 DEF Idle, Work
<1>3. Reporting(d).pc \in {"idle", "report"} /\ Reporting(d).disk \in {0, disk[d]}
      /\ Reporting(d).file = dev[d].file
  BY <1>1, <1>2 DEF Reporting, Work
<1>4. PICK new \in {Idle(d), Reporting(d)} : dev' = [dev EXCEPT ![d] = new]
  BY DEF HoldWrite, Check
<1> QED
  BY <1>1, <1>2, <1>3, <1>4, QuietKeeps

LEMMA WriteKeeps ==
    ASSUME Typed, NEW d \in Devices, EditInv, Write(d)
    PROVE  EditInv'
<1>1. dev[d] \in Work /\ UNCHANGED <<srv, accepted, left>>
  BY DEF Typed, TypeOK, Write
<1>2. \A c \in Devices : /\ dev'[c].pc = (IF c = d THEN "ack" ELSE dev[c].pc)
                         /\ dev'[c].disk = (IF c = d THEN 0 ELSE dev[c].disk)
                         /\ dev'[c].file = dev[c].file
                         /\ disk'[c] = IF c = d THEN dev[d].run ELSE disk[c]
  BY DEF Write, Typed, TypeOK, Work
<1>3. 0 \notin Edits /\ dev[d].run \notin Edits /\ left.edits \subseteq Edits
  BY <1>1, ContentsTypes DEF Work, Typed, TypeOK
<1>4. \A c \in Devices : Seen(c)' \cap Edits \subseteq Seen(c)
  BY <1>2, <1>3 DEF Seen
<1>5. EditsApart'
  BY <1>1, <1>3, <1>4 DEF EditInv, EditsApart
<1>6. BaselineAccepted'
  BY <1>1, <1>2 DEF EditInv, BaselineAccepted
<1>7. NotAsked'
  BY <1>1, <1>2, <1>4 DEF EditInv, NotAsked
<1>8. \A c \in Devices : GivenUp(c)'
  BY <1>1, <1>2 DEF EditInv, GivenUp
<1> QED
  BY <1>1, <1>5, <1>6, <1>7, <1>8 DEF EditInv, OpenDrifts

LEMMA AckKeeps ==
    ASSUME Typed, NEW d \in Devices, EditInv, Ack(d)
    PROVE  EditInv'
<1>1. srv \in Row /\ dev[d] \in Work /\ left \in Left /\ dev[d].run # 0 /\ dev[d].run \notin Edits
  BY ContentsTypes DEF Typed, TypeOK, Ack, Working, Work
<1>2. dev' = [dev EXCEPT ![d] = Idle(d)] /\ UNCHANGED <<disk, accepted>> /\ left'.edits = left.edits
  BY <1>1, LeftTypes DEF Ack
<1>3. Idle(d).pc = "idle" /\ Idle(d).disk = 0 /\ Idle(d).file = dev[d].file
  BY <1>1 DEF Idle, Work
<1>4. CASE UNCHANGED srv
  BY <1>2, <1>3, <1>4, QuietKeeps
<1>5. ASSUME srv'.open = srv.open, srv'.file = dev[d].run, srv'.hold = "none",
             srv.sync \in {"off", "drifted"} => srv'.sync = srv.sync
      PROVE  EditInv'
  <2>1. \A c \in Devices : dev'[c] = IF c = d THEN Idle(d) ELSE dev[c]
    BY <1>2 DEF Typed, TypeOK
  <2>2. 0 \notin Edits /\ left.edits \subseteq Edits
    BY ContentsTypes DEF Typed, TypeOK
  <2>3. \A c \in Devices : Seen(c)' \cap Edits \subseteq Seen(c)
    BY <1>2, <1>3, <2>1, <2>2 DEF Seen
  <2>4. EditsApart' /\ OpenDrifts'
    BY <1>2, <1>5, <2>2, <2>3 DEF EditInv, EditsApart, OpenDrifts
  <2>5. BaselineAccepted'
    BY <1>1, <1>2, <1>3, <1>5, <2>1 DEF EditInv, BaselineAccepted
  <2>6. NotAsked'
    BY <1>3, <1>5, <2>1, <2>3 DEF EditInv, NotAsked
  <2>7. \A c \in Devices : GivenUp(c)'
    BY <1>2, <1>3, <1>5, <2>1 DEF EditInv, GivenUp
  <2> QED
    BY <2>4, <2>5, <2>6, <2>7 DEF EditInv
<1> QED
  BY <1>1, <1>4, <1>5, DeliveredRow DEF Ack

\* A device reports only what is on its own disk.
LEMMA ReportKeeps ==
    ASSUME Typed, NEW d \in Devices, EditInv, Report(d)
    PROVE  EditInv'
<1>1. srv \in Row /\ dev[d] \in Work /\ left \in Left /\ dev[d].pc = "report"
  BY DEF Typed, TypeOK, Report
<1>2. dev' = [dev EXCEPT ![d] = Idle(d)] /\ UNCHANGED <<disk, accepted>> /\ left'.edits = left.edits
  BY <1>1, LeftTypes DEF Report
<1>3. Idle(d).pc = "idle" /\ Idle(d).disk = 0 /\ Idle(d).file = dev[d].file
  BY <1>1 DEF Idle, Work
<1>4. CASE UNCHANGED srv
  BY <1>2, <1>3, <1>4, QuietKeeps
<1>5. ASSUME srv'.open = dev[d].disk, srv'.sync = "drifted", srv'.file = srv.file, srv'.hold = srv.hold
      PROVE  EditInv'
  <2>1. \A c \in Devices : dev'[c] = IF c = d THEN Idle(d) ELSE dev[c]
    BY <1>2 DEF Typed, TypeOK
  <2>2. 0 \notin Edits /\ left.edits \subseteq Edits
    BY ContentsTypes DEF Typed, TypeOK
  <2>3. \A c \in Devices : Seen(c)' \cap Edits \subseteq Seen(c)
    BY <1>2, <1>3, <2>1, <2>2 DEF Seen
  <2>4. EditsApart'
    <3>1. \A e \in left.edits : e # dev[d].disk
      BY DEF EditInv, EditsApart, Seen
    <3> QED
      BY <1>2, <1>5, <2>2, <2>3, <3>1 DEF EditInv, EditsApart
  <2>5. BaselineAccepted'
    BY <1>2, <1>3, <1>5, <2>1 DEF EditInv, BaselineAccepted
  <2>6. NotAsked'
    <3>1. \A c \in Devices \ {d} : dev[d].disk \notin Seen(c) \cap Edits
      BY DEF EditInv, EditsApart, Seen
    <3> QED
      BY <1>3, <1>5, <2>1, <2>3, <3>1 DEF NotAsked
  <2>7. \A c \in Devices : GivenUp(c)'
    BY <1>2, <1>3, <1>5, <2>1 DEF EditInv, GivenUp
  <2> QED
    BY <1>5, <2>4, <2>5, <2>6, <2>7 DEF EditInv, OpenDrifts
<1> QED
  BY <1>1, <1>4, <1>5, ObservedRow DEF Report

LEMMA SaveKeeps ==
    ASSUME Typed, NEW d \in Devices, EditInv, NEW e \in Edits, Save(d, e)
    PROVE  EditInv'
<1>1. e \in left.edits /\ UNCHANGED <<srv, dev, accepted>>
      /\ \A c \in Devices : disk'[c] = IF c = d THEN e ELSE disk[c]
  BY DEF Save, Typed, TypeOK
<1>2. left'.edits = left.edits \ {e}
  BY DEF Save, Typed, Left
<1>3. \A c \in Devices : Seen(c)' \subseteq IF c = d THEN Seen(d) \cup {e} ELSE Seen(c)
  BY <1>1 DEF Seen
<1>4. srv.open # e /\ \A c \in Devices : e \notin Seen(c)
  BY <1>1 DEF EditInv, EditsApart
<1>5. EditsApart'
  BY <1>1, <1>2, <1>3, <1>4 DEF EditInv, EditsApart
<1>6. NotAsked'
  BY <1>1, <1>3, <1>4 DEF EditInv, NotAsked
<1> QED
  BY <1>1, <1>5, <1>6 DEF EditInv, OpenDrifts, BaselineAccepted, GivenUp

LEMMA OutsideKeeps ==
    ASSUME Typed, NEW d \in Devices, EditInv, Git(d) \/ Crash(d)
    PROVE  EditInv'
<1>1. left'.edits = left.edits /\ UNCHANGED <<srv, accepted>>
  BY DEF Git, Crash, Happens, May, Typed, Left
<1>2. CASE Git(d)
  <2>1. PICK k \in 1 .. srv.last : disk' = [disk EXCEPT ![d] = k]
    BY <1>2 DEF Git
  <2>2. k \notin Edits /\ left.edits \subseteq Edits
    BY ContentsTypes DEF Typed, TypeOK, Row
  <2>3. UNCHANGED dev /\ \A c \in Devices : Seen(c)' \cap Edits \subseteq Seen(c)
    BY <1>2, <2>1, <2>2 DEF Git, Seen, Typed, TypeOK
  <2>4. EditsApart'
    BY <1>1, <2>2, <2>3 DEF EditInv, EditsApart
  <2>5. NotAsked'
    BY <1>1, <2>3 DEF EditInv, NotAsked
  <2> QED
    BY <1>1, <2>3, <2>4, <2>5 DEF EditInv, OpenDrifts, BaselineAccepted, GivenUp
<1>3. CASE Crash(d)
  <2>1. Unpolled.pc = "idle" /\ Unpolled.disk = 0 /\ Unpolled.file = 0
    BY DEF Unpolled
  <2>2. dev' = [dev EXCEPT ![d] = Unpolled] /\ UNCHANGED disk
    BY <1>3 DEF Crash
  <2> QED
    BY <1>1, <2>1, <2>2, QuietKeeps
<1> QED
  BY <1>2, <1>3

LEMMA EditInit == Init => EditInv
<1> SUFFICES ASSUME Init PROVE EditInv
  OBVIOUS
<1>1. 0 \notin Edits /\ None \notin Edits
  BY DeliveryAssumption
<1>2. \A d \in Devices : Seen(d) = {0} /\ dev[d].pc = "idle" /\ dev[d].file = 0
  BY DEF Init, Seen, Unpolled
<1>3. srv.open = None /\ srv.file = 0 /\ left.edits = Edits
  BY DEF Init
<1> QED
  BY <1>1, <1>2, <1>3 DEF EditInv, EditsApart, OpenDrifts, BaselineAccepted, NotAsked, GivenUp

LEMMA EditNext == Typed /\ EditInv /\ [Next]_vars => EditInv'
<1> SUFFICES ASSUME Typed, EditInv, [Next]_vars PROVE EditInv'
  OBVIOUS
<1>1. CASE UNCHANGED vars
  BY <1>1 DEF vars, EditInv, EditsApart, Seen, OpenDrifts, BaselineAccepted, NotAsked, GivenUp
<1>2. CASE Next
  BY <1>2, TargetKeeps, SyncKeeps, JudgeKeeps, HoldKeeps, WriteKeeps, AckKeeps, ReportKeeps,
     SaveKeeps, OutsideKeeps DEF Next, TargetSteps, Delivering
<1> QED
  BY <1>1, <1>2

\* Only the device's write ends in an acknowledgement.
LEMMA OnlyWrites ==
    ASSUME Typed, [Next]_vars, NEW d \in Devices, dev[d].pc = "write", dev'[d].pc = "ack"
    PROVE  Write(d)
<1>1. \A c \in Devices : dev[c] \in Work
  BY DEF Typed, TypeOK
<1>2. UNCHANGED dev => FALSE
  OBVIOUS
<1>3. ASSUME NEW c \in Devices, NEW new, dev' = [dev EXCEPT ![c] = new], new.pc # "ack"
      PROVE  FALSE
  BY <1>3 DEF Typed, TypeOK
<1>4. \A c \in Devices : Idle(c).pc = "idle" /\ Reporting(c).pc \in {"idle", "report"}
  BY <1>1 DEF Idle, Reporting, Work
<1>5. Unpolled.pc = "idle"
  BY DEF Unpolled
<1>6. ASSUME NEW c \in Devices, Sync(c) \/ Judge(c) PROVE FALSE
  <2>1. dev[c].pc # "write" /\ \A b \in Devices \ {c} : dev'[b] = dev[b]
    BY <1>6 DEF Sync, Judge, Typed, TypeOK
  <2> QED
    BY <2>1
<1>7. ASSUME NEW c \in Devices, Check(c) \/ HoldWrite(c) PROVE FALSE
  <2>1. PICK new \in {Idle(c), Reporting(c)} : dev' = [dev EXCEPT ![c] = new]
    BY <1>7 DEF Check, HoldWrite
  <2> QED
    BY <1>3, <1>4, <2>1
<1>8. ASSUME NEW c \in Devices, Ack(c) \/ Report(c) \/ Crash(c) PROVE FALSE
  BY <1>3, <1>4, <1>5, <1>8 DEF Ack, Report, Crash
<1>9. ASSUME NEW c \in Devices, Write(c) PROVE c = d
  <2>1. \A b \in Devices \ {c} : dev'[b] = dev[b]
    BY <1>9 DEF Write, Typed, TypeOK
  <2> QED
    BY <2>1
<1>10. Next
  BY <1>2 DEF vars
<1> QED
  BY <1>2, <1>6, <1>7, <1>8, <1>9, <1>10 DEF Next, Delivering, Change, Compiled, Decide, resolveDrift,
     device, Save, Git

\* Memax never writes over a hand edit: only over one a person gave up, and
\* not while the lines pulled from it wait in Review (plan.ts, files.ts).
THEOREM EditsAreKept == Spec => NoEditLost
<1>1. ASSUME Typed, EditInv, [Next]_vars, NEW d \in Devices,
             disk[d] \in Edits, dev[d].pc = "write", dev'[d].pc = "ack"
      PROVE  disk[d] \in accepted /\ ~(srv.file = disk[d] /\ srv.hold = "waiting")
  <2>1. Write(d)
    BY <1>1, OnlyWrites
  <2>2. disk[d] = dev[d].disk
    BY <2>1 DEF Write, Replaces
  <2> QED
    BY <1>1, <2>2 DEF EditInv, GivenUp
<1>2. Typed /\ EditInv /\ [Next]_vars =>
          [\A d \in Devices : disk[d] \in Edits /\ disk'[d] # disk[d] /\ dev[d].pc = "write" /\ dev'[d].pc = "ack" =>
              disk[d] \in accepted /\ ~(srv.file = disk[d] /\ srv.hold = "waiting")]_vars
  BY <1>1
<1> QED
  BY <1>2, TypedInit, TypedNext, EditInit, EditNext, PTL DEF Spec, NoEditLost

----------------------------------------------------------------------------
\* The baseline

LEMMA TargetRuns ==
    ASSUME Typed, TargetSteps
    PROVE  srv'.run \in {0, srv.run}
<1>t. srv \in Row
  BY DEF Typed, TypeOK
<1>1. CASE Change \/ Decide
  <2> DEFINE row == [srv EXCEPT !.hold = "decided"]
  <2>1. row.run = srv.run /\ row \in Row
    BY <1>t DEF Row
  <2>2. srv' \in {row, markDirty(row, "new"), markDirty(srv, "new")}
    BY <1>1 DEF Change, Decide
  <2> HIDE DEF row
  <2> QED
    BY <1>t, <2>1, <2>2 DEF markDirty, Row
<1>2. CASE Compiled
  <2> DEFINE row == [srv EXCEPT !.next = "none",
                                !.last = IF srv.next = "new" /\ @ < MaxRuns THEN @ + 1 ELSE @]
  <2>1. row.run = srv.run /\ DOMAIN row = DOMAIN srv
    BY <1>t DEF Row
  <2>2. srv' = [row EXCEPT !.sync = IF @ = "compiling" THEN settledState(row) ELSE @]
    BY <1>2 DEF Compiled
  <2> HIDE DEF row
  <2> QED
    BY <1>t, <2>1, <2>2 DEF Row
<1>3. ASSUME NEW mode \in {"pull", "overwrite", "stop"}, resolveDrift(mode)
      PROVE  srv'.run \in {0, srv.run}
  <2> DEFINE closed == [srv EXCEPT !.open = None, !.version = @ + 1]
             taken == [closed EXCEPT !.file = srv.open, !.sync = "in_sync",
                                     !.run = IF mode = "overwrite" THEN 0 ELSE @]
             row == [taken EXCEPT !.sync = settledState(taken)]
  <2>1. closed.run = srv.run /\ DOMAIN closed = DOMAIN srv
    BY <1>t DEF Row
  <2>2. taken.run \in {0, srv.run} /\ DOMAIN taken = DOMAIN srv
    <3> HIDE DEF closed
    <3> QED
      BY <1>t, <2>1 DEF Row
  <2>3. row.run \in {0, srv.run} /\ DOMAIN row = DOMAIN srv
    <3> HIDE DEF taken
    <3> QED
      BY <1>t, <2>2 DEF Row
  <2>4. /\ mode = "stop" => srv' = [closed EXCEPT !.sync = "off"]
        /\ mode = "overwrite" => srv' = markDirty([row EXCEPT !.hold = "none"], "same")
        /\ mode = "pull" => \E hold \in {"none", "waiting"} : srv' = [row EXCEPT !.hold = hold]
    BY <1>3 DEF resolveDrift
  <2> HIDE DEF closed, taken, row
  <2> QED
    BY <1>t, <2>1, <2>3, <2>4 DEF Row, markDirty
<1> QED
  BY <1>1, <1>2, <1>3 DEF TargetSteps

\* A late acknowledgement never moves the baseline to an older run, in
\* whatever order devices answer and answers are lost (recordDelivery).
THEOREM BaselineForward == Spec => BaselineNeverBack
<1>1. ASSUME Typed, [Next]_vars, srv.run # 0, srv'.run # 0
      PROVE  srv'.run >= srv.run
  <2>1. srv.run \in Nat
    BY <1>1, ContentsTypes DEF Typed, TypeOK, Row
  <2>2. CASE TargetSteps
    BY <1>1, <2>1, <2>2, TargetRuns
  <2>3. CASE UNCHANGED srv
    BY <2>1, <2>3
  <2>4. ASSUME NEW d \in Devices, Ack(d) PROVE srv'.run >= srv.run
    <3>1. dev[d].run # 0
      BY <1>1, <2>4 DEF Typed, Working, Ack
    <3>2. UNCHANGED srv \/ recordDelivery(d)
      BY <2>4 DEF Ack
    <3> QED
      BY <1>1, <2>3, <3>1, <3>2, DeliveredRow
  <2>5. ASSUME NEW d \in Devices, Report(d) PROVE srv'.run = srv.run
    BY <1>1, <2>5, ObservedRow DEF Report
  <2> QED
    <3>1. srv'.run = srv.run => srv'.run >= srv.run
      BY <2>1
    <3>2. \/ TargetSteps \/ UNCHANGED srv
          \/ \E d \in Devices : Ack(d) \/ Report(d)
      BY <1>1 DEF Next, TargetSteps, Delivering, Sync, Check, Judge, HoldWrite, Write, Save, Git,
         Crash, vars
    <3> QED
      BY <2>2, <2>3, <2>4, <2>5, <3>1, <3>2
<1>2. Typed /\ [Next]_vars => [srv.run # 0 /\ srv'.run # 0 => srv'.run >= srv.run]_vars
  BY <1>1
<1> QED
  BY <1>2, TypedInit, TypedNext, PTL DEF Spec, BaselineNeverBack

============================================================================

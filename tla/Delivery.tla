------------------------------ MODULE Delivery ------------------------------
(***************************************************************************)
(* One compiled file, from the server to the disks it is kept on (the      *)
(* daemon's delivery: packages/cli/src/lib/daemon; the server's side of    *)
(* it: internal/ledger/targets.go, drift.go, holds.go).                    *)
(*                                                                         *)
(* Each device polls the target, previews its latest run, judges the file  *)
(* on its disk, writes only over what Memax wrote, and acknowledges. What  *)
(* it doesn't know it reports as a hand edit: the target is drifted until  *)
(* a person pulls, overwrites or stops it. Nothing is locked across these  *)
(* steps: people save, git brings other files, other devices deliver and   *)
(* people decide between any two.                                          *)
(*                                                                         *)
(* A content of the file is a run's number, an edit, or 0 while there is   *)
(* no file. Edits differ from each other and from what is compiled.        *)
(***************************************************************************)
EXTENDS Naturals, FiniteSets

CONSTANTS
    Devices,     \* the devices the repository is linked on
    Editors,     \* those of them people edit the file on
    Edits,       \* what people save over the file, each once
    None,        \* no content
    Trouble,     \* what may happen beside: "crash", "lost", "git"
    MaxRuns,     \* bound: runs that write other bytes
    MaxResolves, \* bound: hand edits people resolve
    MaxTrouble   \* bound: crashes, lost answers and files git brings

ASSUME DeliveryAssumption ==
    /\ Editors \subseteq Devices
    /\ {MaxRuns, MaxResolves, MaxTrouble} \subseteq Nat
    /\ Edits \cap Nat = {} /\ None \notin Edits \cup Nat
    /\ Trouble \subseteq {"crash", "lost", "git"}

VARIABLES
    srv,      \* the target's row: see Row
    claimed,  \* the keys of the observations recorded
    disk,     \* each device's file
    mine,     \* what each device keeps: see Mine
    dev,      \* each device's work: see Work
    accepted, \* history: the edits people pulled or overwrote
    left      \* what remains of the bounds

vars == <<srv, claimed, disk, mine, dev, accepted, left>>
device == <<disk, mine, dev>>

Runs == 1 .. MaxRuns
Contents == Runs \cup Edits

\* last: the latest run. next: what the compile under way would make. run
\* and file: the baseline, the run delivered (0: not said) and what is
\* believed on disk. hold: the proposals of the baseline, if it was pulled.
\* open: the edit waiting for a person.
Row == [last : 0 .. MaxRuns, next : {"none", "same", "new"},
        sync : {"off", "compiling", "pending", "in_sync", "drifted"}, version : Nat,
        run : 0 .. MaxRuns, file : Contents \cup {0}, hold : {"none", "waiting", "decided"},
        open : Contents \cup {None}]

\* wrote: the hashes written. here: the run acknowledged. told, at: the edit
\* last reported and the target's version after it.
Mine == [wrote : SUBSET Runs, here : 0 .. MaxRuns, told : Contents \cup {None}, at : Nat]

\* What a device is doing, and the target as it last polled it.
Work == [pc : {"idle", "judge", "write", "ack", "report"}, run : 0 .. MaxRuns,
         disk : Contents \cup {0},
         sync : {"unknown", "off", "drifted", "other"},
         last : 0 .. MaxRuns, version : Nat, file : Contents \cup {0}]

Unpolled == [pc |-> "idle", run |-> 0, disk |-> 0, sync |-> "unknown", last |-> 0,
             version |-> 0, file |-> 0]
Nothing == [wrote |-> {}, here |-> 0, told |-> None, at |-> 0]

Init ==
    /\ srv = [last |-> 0, next |-> "new", sync |-> "compiling", version |-> 1, run |-> 0, file |-> 0,
              hold |-> "none", open |-> None]
    /\ claimed = {}
    /\ disk = [d \in Devices |-> 0]
    /\ mine = [d \in Devices |-> Nothing]
    /\ dev = [d \in Devices |-> Unpolled]
    /\ accepted = {}
    /\ left = [edits |-> Edits, resolves |-> MaxResolves, trouble |-> MaxTrouble]

May(kind) == kind \in Trouble /\ left.trouble > 0
Happens(kind) == May(kind) /\ left' = [left EXCEPT !.trouble = @ - 1]

----------------------------------------------------------------------------
\* The target

\* Where row stands once its counters and its delivery are known.
settledState(row) ==
    IF row.sync \in {"off", "drifted"} THEN row.sync
    ELSE IF row.next # "none" THEN "compiling"
    ELSE IF row.run # 0 /\ row.run = row.last THEN "in_sync" ELSE "pending"

markDirty(row, next) ==
    IF row.sync = "off" THEN row
    ELSE [row EXCEPT !.next = IF @ = "new" THEN @ ELSE next,
                     !.sync = IF @ \in {"in_sync", "pending"} THEN "compiling" ELSE @]

\* The state shown for it: a pull's file is held while its proposals wait,
\* and due again once they are decided.
Shown ==
    IF srv.sync \in {"off", "drifted"} THEN srv.sync
    ELSE IF srv.hold = "waiting" THEN "held"
    ELSE IF srv.hold = "decided" /\ srv.sync = "in_sync" THEN "pending" ELSE srv.sync

\* The record changes what the target says.
Change ==
    /\ srv.last < MaxRuns /\ srv.sync # "off" /\ srv.next = "none"
    /\ srv' = markDirty(srv, "new")
    /\ UNCHANGED <<claimed, device, accepted, left>>

\* The compile lands: a run of other bytes, or the same and nothing new.
Compiled ==
    /\ srv.next # "none" /\ srv.sync # "off"
    /\ LET row == [srv EXCEPT !.next = "none",
                              !.last = IF srv.next = "new" /\ @ < MaxRuns THEN @ + 1 ELSE @]
       IN  srv' = [row EXCEPT !.sync = IF @ = "compiling" THEN settledState(row) ELSE @]
    /\ UNCHANGED <<claimed, device, accepted, left>>

\* A person settles the open edit: it becomes the baseline, unless the
\* target stops. An overwrite forgets which run is delivered and compiles
\* again; a pull's proposals hold the file until they are decided.
resolveDrift(mode) ==
    /\ srv.open # None /\ left.resolves > 0
    /\ LET closed == [srv EXCEPT !.open = None, !.version = @ + 1]
           taken == [closed EXCEPT !.file = srv.open, !.sync = "in_sync",
                                   !.run = IF mode = "overwrite" THEN 0 ELSE @]
           row == [taken EXCEPT !.sync = settledState(taken)]
       IN  CASE mode = "stop" -> srv' = [closed EXCEPT !.sync = "off"]
             [] mode = "overwrite" -> srv' = markDirty([row EXCEPT !.hold = "none"], "same")
             [] mode = "pull" -> \E hold \in {"none", "waiting"} : srv' = [row EXCEPT !.hold = hold]
    /\ accepted' = IF mode = "stop" THEN accepted ELSE accepted \cup {srv.open}
    /\ left' = [left EXCEPT !.resolves = @ - 1]
    /\ UNCHANGED <<claimed, device>>

\* The pull's proposals are all rejected, or one is kept.
Decide ==
    /\ srv.hold = "waiting"
    /\ LET row == [srv EXCEPT !.hold = "decided"]
       IN  srv' = row \/ (srv.last < MaxRuns /\ srv' = markDirty(row, "new"))
    /\ UNCHANGED <<claimed, device, accepted, left>>

----------------------------------------------------------------------------
\* A device: poll, judge, write, acknowledge

Idle(d) == [dev[d] EXCEPT !.pc = "idle", !.run = 0, !.disk = 0]

\* A pull holds the file, by the target the preview comes with.
Held == srv.hold = "waiting"

\* Mutant: a run that is here and delivered is never due again.
SettledHere(d) ==
    \/ Shown \in {"off", "drifted", "held"} \/ srv.last = 0
    \/ mine[d].here = srv.last /\ srv.run = srv.last

\* There is nothing to do while a person has the target, or when its latest
\* run is here, delivered, and not due over a pulled edit.
Settled(d) ==
    \/ Shown \in {"off", "drifted", "held"} \/ srv.last = 0
    \/ mine[d].here = srv.last /\ srv.run = srv.last /\ Shown # "pending"

\* The target is polled.
Sync(d) ==
    /\ dev[d].pc = "idle"
    /\ dev' = [dev EXCEPT ![d] = [pc |-> IF Settled(d) THEN "idle" ELSE "judge", run |-> 0, disk |-> 0,
                                  sync |-> IF Shown \in {"off", "drifted"} THEN Shown ELSE "other",
                                  last |-> srv.last, version |-> srv.version, file |-> srv.file]]
    /\ UNCHANGED <<srv, claimed, disk, mine, accepted, left>>

\* What is known offhand to be Memax's: what this device wrote, the
\* baseline, the latest run.
knownHashes(d) == mine[d].wrote \cup {dev[d].file, dev[d].last}

\* The rest is asked of the target's runs: the answer may be a minute old,
\* and leave the last ones out.
Answers == 1 .. srv.last

\* Mutant: a file that is not there is not told apart.
JudgeAbsent(d, latest) ==
    IF disk[d] = latest THEN {"current"}
    ELSE IF disk[d] \in knownHashes(d) \ {0} THEN {"ours"}
    ELSE {IF disk[d] \in 1 .. known THEN "ours" ELSE "hand_edit" : known \in Answers}

\* What the file is, beside the run that should be there.
judgeFile(d, latest) ==
    IF disk[d] = 0 THEN {"absent"}
    ELSE IF disk[d] = latest THEN {"current"}
    ELSE IF disk[d] \in knownHashes(d) THEN {"ours"}
    ELSE {IF disk[d] \in 1 .. known THEN "ours" ELSE "hand_edit" : known \in Answers}

\* Reported already, and not resolved since.
Told(d) ==
    /\ mine[d].told = disk[d]
    /\ dev[d].sync = "drifted" \/ mine[d].at = dev[d].version

Reporting(d) ==
    IF Told(d) THEN Idle(d) ELSE [dev[d] EXCEPT !.pc = "report", !.disk = disk[d]]

\* The run is previewed, and the file read and judged: over what is absent
\* or Memax's it is written, what is a person's is reported.
Judge(d) ==
    /\ dev[d].pc = "judge"
    /\ IF Held
         THEN dev' = [dev EXCEPT ![d] = Idle(d)]
         ELSE \E j \in judgeFile(d, srv.last) :
                dev' = [dev EXCEPT ![d] =
                    IF j = "hand_edit" THEN Reporting(d)
                    ELSE [@ EXCEPT !.pc = IF j = "current" THEN "ack" ELSE "write",
                                   !.run = srv.last, !.disk = IF j = "current" THEN 0 ELSE disk[d]]]
    /\ UNCHANGED <<srv, claimed, disk, mine, accepted, left>>

\* Mutant: the file is replaced without reading it again.
ReplacesUnread(d) == TRUE

\* The run replaces the file, if it is still what was read.
Replaces(d) == disk[d] = dev[d].disk

Write(d) ==
    /\ dev[d].pc = "write" /\ Replaces(d)
    /\ disk' = [disk EXCEPT ![d] = dev[d].run]
    /\ mine' = [mine EXCEPT ![d].wrote = @ \cup {dev[d].run}, ![d].told = None, ![d].at = 0]
    /\ dev' = [dev EXCEPT ![d].pc = "ack", ![d].disk = 0]
    /\ UNCHANGED <<srv, claimed, accepted, left>>

\* Someone saved in between: whatever is there stays, and is judged afresh.
HoldWrite(d) ==
    /\ dev[d].pc = "write" /\ ~Replaces(d)
    /\ \E j \in judgeFile(d, dev[d].run) :
          dev' = [dev EXCEPT ![d] = IF j = "hand_edit" THEN Reporting(d) ELSE Idle(d)]
    /\ UNCHANGED <<srv, claimed, disk, mine, accepted, left>>

\* Mutant: the acknowledgement that came last counts.
LateNever(run) == FALSE

\* An acknowledgement of an older run than the baseline's.
Late(run) == srv.run > run

\* The server takes the run as delivered: an older one than the baseline's
\* or the same again changes nothing. (So the key it is sent under is left
\* out: sent again, it finds itself delivered.)
recordDelivery(d) ==
    LET run == dev[d].run
        row == [srv EXCEPT !.run = run, !.file = run, !.hold = "none"]
    IN  srv' = IF Late(run) \/ (srv.run = run /\ srv.file = run) THEN srv
               ELSE [row EXCEPT !.sync = settledState(row)]

\* A run is not delivered over a held file.
Refused(d) == srv.hold = "waiting" /\ ~Late(dev[d].run)

\* A command's request or its answer may be lost.
Outcomes == {"answered"} \cup (IF May("lost") THEN {"unsent", "unanswered"} ELSE {})
Spends(outcome) == IF outcome = "answered" THEN UNCHANGED left ELSE Happens("lost")

\* Mutant: what was sent is noted before it is answered.
NotesSent(outcome) == TRUE

\* A device notes only what was answered.
Notes(outcome) == outcome = "answered"

Ack(d) ==
    /\ dev[d].pc = "ack"
    /\ \E outcome \in Outcomes :
          /\ Spends(outcome)
          /\ IF outcome = "unsent" \/ Refused(d) THEN UNCHANGED srv ELSE recordDelivery(d)
          /\ mine' = IF Notes(outcome) /\ ~Refused(d) THEN [mine EXCEPT ![d].here = dev[d].run] ELSE mine
    /\ dev' = [dev EXCEPT ![d] = Idle(d)]
    /\ UNCHANGED <<claimed, disk, accepted>>

----------------------------------------------------------------------------
\* A device: hand edits

\* A watcher's event or a rescan: the file is judged by the target as it was
\* last polled.
Check(d) ==
    /\ dev[d].pc = "idle" /\ dev[d].sync \notin {"unknown", "off"} /\ dev[d].last > 0
    /\ \E j \in judgeFile(d, dev[d].last) :
          /\ j = "hand_edit" /\ ~Told(d)
          /\ dev' = [dev EXCEPT ![d] = Reporting(d)]
    /\ UNCHANGED <<srv, claimed, disk, mine, accepted, left>>

\* The server records the edit, in place of the one that was open, unless
\* the target is off, the content is the baseline's or the latest run's, or
\* it was recorded under this key (report.ts: per version polled).
recordObservation(d) ==
    LET content == dev[d].disk
        key == <<d, dev[d].version, content>>
    IN  IF key \in claimed \/ srv.sync = "off" \/ content \in {srv.file, srv.last}
          THEN UNCHANGED <<srv, claimed>>
          ELSE /\ claimed' = claimed \cup {key}
               /\ srv' = [srv EXCEPT !.open = content, !.sync = "drifted", !.version = @ + 1]

Report(d) ==
    /\ dev[d].pc = "report"
    /\ \E outcome \in Outcomes :
          /\ Spends(outcome)
          /\ IF outcome = "unsent" THEN UNCHANGED <<srv, claimed>> ELSE recordObservation(d)
          /\ mine' = IF Notes(outcome) THEN [mine EXCEPT ![d].told = dev[d].disk, ![d].at = srv'.version]
                     ELSE mine
    /\ dev' = [dev EXCEPT ![d] = Idle(d)]
    /\ UNCHANGED <<disk, accepted>>

----------------------------------------------------------------------------
\* People, git and crashes

Save(d, e) ==
    /\ d \in Editors /\ e \in left.edits
    /\ left' = [left EXCEPT !.edits = @ \ {e}]
    /\ disk' = [disk EXCEPT ![d] = e]
    /\ UNCHANGED <<srv, claimed, mine, dev, accepted>>

\* A pull or a branch switch brings a run's file.
Git(d) ==
    /\ Happens("git")
    /\ \E k \in 1 .. srv.last : k # disk[d] /\ disk' = [disk EXCEPT ![d] = k]
    /\ UNCHANGED <<srv, claimed, mine, dev, accepted>>

\* What a device may have kept: its state file is written a moment after it
\* changes, so a crash may lose the last run written and what was told.
Kept(d) ==
    LET older == {k \in mine[d].wrote : \E n \in mine[d].wrote : k < n}
    IN  {mine[d], [wrote |-> older, here |-> IF mine[d].here \in older THEN mine[d].here ELSE 0,
                   told |-> None, at |-> 0]}

\* The daemon stops between two steps and starts from its state file.
Crash(d) ==
    /\ Happens("crash")
    /\ \E kept \in Kept(d) : mine' = [mine EXCEPT ![d] = kept]
    /\ dev' = [dev EXCEPT ![d] = Unpolled]
    /\ UNCHANGED <<srv, claimed, disk, accepted>>

----------------------------------------------------------------------------
Delivering(d) == Judge(d) \/ Write(d) \/ HoldWrite(d) \/ Ack(d) \/ Report(d)

Next ==
    \/ Change \/ Compiled \/ Decide
    \/ \E mode \in {"pull", "overwrite", "stop"} : resolveDrift(mode)
    \/ \E d \in Devices :
          \/ Sync(d) \/ Check(d) \/ Delivering(d)
          \/ \E e \in Edits : Save(d, e)
          \/ Git(d) \/ Crash(d)

Spec == Init /\ [][Next]_vars

\* A queued compile runs; a daemon ends what it began, and polls and rescans
\* its files in turn (RepoDelivery.serial is first come, first served).
\* Nobody has to resolve an edit or decide a proposal.
Fairness ==
    /\ WF_vars(Compiled)
    /\ \A d \in Devices : WF_vars(Delivering(d)) /\ SF_vars(Sync(d)) /\ WF_vars(Check(d))

FairSpec == Spec /\ Fairness

----------------------------------------------------------------------------
\* What is promised

\* Every variable has its type.
TypeOK ==
    /\ srv \in Row
    /\ disk \in [Devices -> Contents \cup {0}]
    /\ mine \in [Devices -> Mine]
    /\ dev \in [Devices -> Work]
    /\ accepted \subseteq Contents
    /\ claimed \subseteq Devices \X Nat \X Contents
    /\ left.edits \subseteq Edits

\* Memax never writes over a hand edit (plan.ts): only over one a person
\* gave up, and not while its pulled lines wait in Review.
NoEditLost ==
    [][\A d \in Devices : disk[d] \in Edits /\ disk'[d] # disk[d] /\ dev[d].pc = "write" /\ dev'[d].pc = "ack" =>
          disk[d] \in accepted /\ ~(srv.file = disk[d] /\ srv.hold = "waiting")]_vars

\* A late acknowledgement of an older run never moves the baseline back
\* (recordDelivery), while the target knows which run is delivered.
BaselineNeverBack == [][srv.run # 0 /\ srv'.run # 0 => srv'.run >= srv.run]_vars

\* A hand edit that stays is brought before a person, whatever is lost or
\* forgotten on the way and whichever device reports first.
EditAsked ==
    \A d \in Devices, e \in Edits :
        disk[d] = e /\ e \notin accepted ~> disk[d] # e \/ e \in accepted \/ srv.open # None \/ srv.sync = "off"

\* A run that is due is delivered.
DueIsDelivered == Shown = "pending" ~> Shown # "pending"

\* What a person has settled is not asked about again (drift.go: an
\* overwritten file becomes the baseline Memax may write over).
AskedOnce == srv.open \notin accepted
=============================================================================

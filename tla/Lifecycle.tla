----------------------------- MODULE Lifecycle -----------------------------
(***************************************************************************)
(* What the record promises of each memory, whatever the commands do: the  *)
(* state machine of ledger/lifecycle/lifecycle.go, as the database guards  *)
(* it (the trigger v2.memories_lifecycle_guard, migration 052).  A write   *)
(* outside it is refused by the database and fails the command.            *)
(***************************************************************************)
EXTENDS Naturals, Sequences

CONSTANTS Memories, Standing

VARIABLES
    life,       \* each memory's lifecycle; "none" before it exists
    conflict,   \* its conflict flag
    version,    \* its current version
    stream      \* its receipts: who, what, and the command it is of or undoes

vars == <<life, conflict, version, stream>>

Newest(s) == s[Len(s)]

\* v2.lifecycle_transition_allowed, for a move
Verb(from, to) ==
    \/ <<from, to>> \in
          {<<"none", "proposed">>, <<"none", "kept">>, <<"proposed", "kept">>, <<"proposed", "rejected">>,
           <<"proposed", "merged">>, <<"merged", "proposed">>, <<"kept", "faded">>, <<"faded", "kept">>}
    \/ from # "none" /\ to = "forgotten"

\* v2.lifecycle_undo_allowed, beside the receipt of an undo; a kept memory
\* is only withdrawn by undoing the command that created it.
Undone(m) ==
    /\ <<life[m], life'[m]>> \in {<<"kept", "proposed">>, <<"rejected", "proposed">>, <<"kept", "rejected">>}
    /\ Newest(stream'[m]).act = "undid"
    /\ <<life[m], life'[m]>> = <<"kept", "rejected">> => Newest(stream'[m]).of = stream[m][1].cmd

\* v2.lifecycle_return_allowed: the judge puts back what an agent just wrote.
Returned(m) ==
    /\ life[m] = "kept" /\ life'[m] = "proposed"
    /\ conflict'[m]
    /\ version'[m] = version[m]
    /\ Len(stream'[m]) = Len(stream[m]) + 1
    /\ Newest(stream'[m]).act = "returned" /\ Newest(stream'[m]).by = "memax"
    /\ Newest(stream[m]).by = "agent" /\ Newest(stream[m]).act \in {"kept", "edited"}

Init ==
    /\ life = [m \in Memories |-> IF m \in Standing THEN "kept" ELSE "none"]
    /\ conflict = [m \in Memories |-> FALSE]
    /\ version = [m \in Memories |-> IF m \in Standing THEN 1 ELSE 0]
    /\ stream = [m \in Memories |->
                    IF m \in Standing THEN <<[cmd |-> 0, by |-> "person", act |-> "kept", of |-> 0]>> ELSE <<>>]

\* The trigger fires when the lifecycle moves and on any change of a
\* forgotten memory.  Only proposals and kept memories carry a flag; no
\* memory changes without a receipt, and receipts stay.
Guarded(m) ==
    /\ IF life[m] # life'[m]
       THEN life[m] # "forgotten" /\ (Verb(life[m], life'[m]) \/ Undone(m) \/ Returned(m))
       ELSE life[m] = "forgotten" => stream'[m] = stream[m]
    /\ conflict'[m] => life'[m] \in {"proposed", "kept"}
    /\ stream[m] = SubSeq(stream'[m], 1, Len(stream[m]))
    /\ stream'[m] = stream[m] =>
           <<life[m], conflict[m], version[m]>> = <<life'[m], conflict'[m], version'[m]>>

Next == \A m \in Memories : Guarded(m)

Spec == Init /\ [][Next]_vars
=============================================================================

------------------------------ MODULE MCRecord ------------------------------
(***************************************************************************)
(* Instances of Record for TLC: d1, d2 and d3 are decisions, f1 and f2     *)
(* facts; a configuration takes the memories it needs.                     *)
(***************************************************************************)
EXTENDS Record

CONSTANTS d1, d2, d3, f1, f2

Flags(m, ds) == \E j \in jobs : j.mem = m /\ \E t \in ds : JudgeFlag(j, ds, t, FALSE)

\* One history, too long to be found by searching: two Undos make a memory's
\* later resolution the last change that counts, and undoing that one moves
\* a kept memory to rejected (RecordTrigger.cfg).
Scripted ==
    \/ Now = 1 /\ Propose(d2, "agent")
    \/ Now = 2 /\ Keep(d2)
    \/ Now = 3 /\ Propose(f1, "agent")
    \/ Now = 4 /\ Propose(f2, "agent")
    \/ Now = 5 /\ Flags(f1, {d1, d2})
    \/ Now = 6 /\ Flags(f2, {d2})
    \/ Now = 7 /\ ResolveBoth(f2, d2)
    \/ Now = 8 /\ ResolveForDecision(f1, d1)
    \/ Now = 9 /\ Undo(2)
    \/ Now = 10 /\ Undo(8)
    \/ Now = 11 /\ Reject(d2)
    \/ Now = 12 /\ ResolveForDecision(f1, d2)
    \/ Now = 13 /\ Undo(11)
    \/ Now = 14 /\ Undo(7)
    \/ Now = 15 /\ ResolveBoth(f2, d2)
    \/ Now = 16 /\ Undo(12)

ScriptedSpec == Init /\ [][Scripted]_vars
=============================================================================

----------------------------- MODULE Generation -----------------------------
(***************************************************************************)
(* What compiling promises a target: every change bumps its generation,    *)
(* the compiled generation follows, never ahead and never back, and while  *)
(* the target stays on it does not stay behind.                            *)
(***************************************************************************)
EXTENDS Naturals

VARIABLES
    on,        \* the target compiles
    dirty,     \* the generation the record is at
    compiled   \* the generation its files are at

vars == <<on, dirty, compiled>>

Init == on = TRUE /\ dirty = 1 /\ compiled = 0

Bump == on /\ dirty' = dirty + 1 /\ UNCHANGED <<on, compiled>>
Stop == on /\ on' = FALSE /\ UNCHANGED <<dirty, compiled>>
Resume == ~on /\ on' = TRUE /\ dirty' = dirty + 1 /\ UNCHANGED compiled

\* A compile lands on a generation past the one the files were at.
CatchUp ==
    /\ on
    /\ compiled' \in compiled + 1 .. dirty
    /\ UNCHANGED <<on, dirty>>

Next == Bump \/ Stop \/ Resume \/ CatchUp

Safe == Init /\ [][Next]_vars
Spec == Safe /\ WF_vars(CatchUp)
=============================================================================

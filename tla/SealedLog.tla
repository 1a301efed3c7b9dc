----------------------------- MODULE SealedLog -----------------------------
(***************************************************************************)
(* What the receipt chain promises whoever keeps one of its signed         *)
(* checkpoints: a space's log of sealed receipts only grows, at its end,   *)
(* and no receipt is ever in a log twice.                                  *)
(***************************************************************************)
EXTENDS Naturals, Sequences

CONSTANTS Spaces, Receipts

VARIABLE log   \* the receipts sealed so far in each space, in order

\* Every receipt of s is at one place of it.
NoRepeat(s) == \A i, j \in DOMAIN s : s[i] = s[j] => i = j

Init == log = [sp \in Spaces |-> <<>>]

\* One checkpoint: at least one receipt goes on the end of one log.
Extend(sp) ==
    /\ Len(log'[sp]) > Len(log[sp])
    /\ \A i \in DOMAIN log'[sp] : log'[sp][i] \in Receipts
    /\ SubSeq(log'[sp], 1, Len(log[sp])) = log[sp]
    /\ NoRepeat(log'[sp])
    /\ \A other \in Spaces \ {sp} : log'[other] = log[other]

Next == \E sp \in Spaces : Extend(sp)

Spec == Init /\ [][Next]_log
============================================================================

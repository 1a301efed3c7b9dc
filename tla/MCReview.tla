------------------------------ MODULE MCReview ------------------------------
(***************************************************************************)
(* Instances of Review for TLC: a queue of two proposals, or of one.       *)
(***************************************************************************)
EXTENDS Review

CONSTANTS m1, m2

TwoCards == <<m1, m2>>
Some == {<<"keep", m1>>, <<"keep", m2>>, <<"edit", m1>>, <<"reject", m2>>, <<"row", m2>>, <<"undo", m1>>, <<"undo", m2>>}

OneCard == <<m1>>
KeepOne == {<<"keep", m1>>, <<"undo", m1>>}
=============================================================================

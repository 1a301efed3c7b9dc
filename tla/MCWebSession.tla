----------------------------- MODULE MCWebSession -----------------------------
(***************************************************************************)
(* Instances of WebSession for TLC: two requests at a time, two processes. *)
(***************************************************************************)
EXTENDS WebSession, TLC

CONSTANTS q1, q2, i1, i2, s1, s2

Every == {"api", "me", "exchange", "logout", "impersonate", "stop"}
Perms == Permutations({q1, q2}) \cup Permutations({i1, i2})
=============================================================================

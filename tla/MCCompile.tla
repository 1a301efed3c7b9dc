----------------------------- MODULE MCCompile -----------------------------
(***************************************************************************)
(* Compile on a small space.                                               *)
(***************************************************************************)
EXTENDS Compile

Everything == {"error", "refuse", "crash", "lost"}
Nothing == {}
=============================================================================

----------------------------- MODULE MCMainLoop -----------------------------
(***************************************************************************)
(* TLC instance of MainLoop, with the times of the program: 61 overflows   *)
(* for a second, and 500 ms are a little more than 30 of them.             *)
(***************************************************************************)
EXTENDS MainLoop

MCErrors == {"e1", "e2"}
MCValues == {<<0, 0>>, <<1, 1>>}
=============================================================================

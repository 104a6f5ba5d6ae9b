------------------------------ MODULE MCShell -------------------------------
(***************************************************************************)
(* TLC instance of Shell: lines of up to two keys.                         *)
(***************************************************************************)
EXTENDS Shell

MCKeys == {"l", "o", "?"}
MCBlocks == {"b1", "b2", "b3"}
=============================================================================

----------------------------- MODULE MCConsole ------------------------------
(***************************************************************************)
(* Console.tla for TLC: a ring that two keys fill, two bytes waiting, and  *)
(* lines of no and of up to two characters.                                *)
(***************************************************************************)
EXTENDS Console

MCLens == {0, 3}
=============================================================================

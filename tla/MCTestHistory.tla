--------------------------- MODULE MCTestHistory ---------------------------
(***************************************************************************)
(* A small instance of TestHistory for TLC.                                *)
(***************************************************************************)
EXTENDS TestHistory, MCGuard

=============================================================================

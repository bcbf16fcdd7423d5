---------------------------- MODULE MCSubprocess ----------------------------
(* Values of the constants of Subprocess for TLC.                           *)
EXTENDS Subprocess

CONSTANTS m1, e1

OneMember  == {m1}
OneEscapee == {e1}
==============================================================================

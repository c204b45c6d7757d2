-------------------------- MODULE MCNumberSequence --------------------------
(* Small instances of NumberSequence for TLC.                              *)
EXTENDS NumberSequence, TLC

CONSTANTS x1, x2, r1, r2, r3

MCRows == {x1, x2}
MCCallers == {r1, r2, r3}
=============================================================================

----------------------------- MODULE MCM68kStack -----------------------------
(* Two stack pointer values tell a kept value from a lost one.             *)
EXTENDS M68kStack

CONSTANTS noRead

MCVals == {0, 1}
=============================================================================

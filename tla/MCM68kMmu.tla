------------------------------ MODULE MCM68kMmu ------------------------------
(* Page tables for the 68040 walk.  The user root table RU maps index 0   *)
(* to pointer table PA and leaves index 1 invalid; the supervisor root RS  *)
(* shares PA and maps index 1 to PB through a write-protected descriptor.  *)
(* PA index 1 points at a table outside memory (the load fails).  Page     *)
(* table GA holds a resident page, a supervisor-only page, an indirect     *)
(* descriptor into GB and an invalid one; GB a page at an odd frame, a     *)
(* write-protected page and the target of the indirection.  The guest has  *)
(* walked RU, RS and PA before (their U bits are set); RS index 1 and PB   *)
(* are still unused.  MOVEC writes DTT1, the second data register tried.   *)
EXTENDS M68kMmu, TLC

D(t, a, wp, s) == [type |-> t, addr |-> a, u |-> FALSE, m |-> FALSE, wp |-> wp, s |-> s]
Used(d) == [d EXCEPT !.u = TRUE]

MCMemInit ==
  (<<"RU", 0>> :> Used(D("table", "PA", FALSE, FALSE))) @@
  (<<"RU", 1>> :> D("invalid", 0, FALSE, FALSE)) @@
  (<<"RS", 0>> :> Used(D("table", "PA", FALSE, FALSE))) @@
  (<<"RS", 1>> :> D("table", "PB", TRUE, FALSE)) @@
  (<<"PA", 0>> :> Used(D("table", "GA", FALSE, FALSE))) @@
  (<<"PA", 1>> :> D("table", "GX", FALSE, FALSE)) @@
  (<<"PB", 0>> :> D("table", "GB", FALSE, FALSE)) @@
  (<<"PB", 1>> :> D("invalid", 0, FALSE, FALSE)) @@
  (<<"GA", 0>> :> D("resident", 6, FALSE, FALSE)) @@
  (<<"GA", 1>> :> D("resident", 3, FALSE, TRUE)) @@
  (<<"GA", 2>> :> D("indirect", <<"GB", 3>>, FALSE, FALSE)) @@
  (<<"GA", 3>> :> D("invalid", 0, FALSE, FALSE)) @@
  (<<"GB", 0>> :> D("resident", 9, FALSE, FALSE)) @@
  (<<"GB", 1>> :> D("resident", 4, TRUE, FALSE)) @@
  (<<"GB", 2>> :> D("invalid", 0, FALSE, FALSE)) @@
  (<<"GB", 3>> :> D("resident", 12, FALSE, FALSE))

MCUrpInit == "RU"
MCSrpInit == "RS"

(* A context switch reloads each root pointer with its own table.         *)
MCRootVals == [r \in {"SRP", "URP"} |-> IF r = "SRP" THEN {MCSrpInit} ELSE {MCUrpInit}]

(* TC.E set, with 4K or with 8K pages.                                     *)
MCTcVals == {[enabled |-> TRUE, page8k |-> FALSE], [enabled |-> TRUE, page8k |-> TRUE]}

(* A supervisor-only, write-protected window on top byte 10 (root index   *)
(* 1, pointer index 0), and the register cleared again.                    *)
MCTtrVals == {Off, [enabled |-> TRUE, sfield |-> 1, base |-> 2, mask |-> 0, wp |-> TRUE]}

MCAccessVAs == {2, 9}
MCAccessSizes == {4}
MCMovecTtrRegs == {"DTT1"}

(* TC.E clear as well, for PTEST with translation disabled.               *)
MCTcValsOff == MCTcVals \cup {[enabled |-> FALSE, page8k |-> FALSE]}

(* 8K pages only, for the debug translation.                               *)
MCTcVals8K == {[enabled |-> TRUE, page8k |-> TRUE]}
====

----------------------------- MODULE BankedStack -----------------------------
(***************************************************************************)
(* What the m68k architecture promises of its stack pointers: there is one *)
(* stack pointer per bank (user, master/supervisor, interrupt), the mode   *)
(* (SR and, on ColdFire, CACR) selects the active bank, and A7 *is* the    *)
(* active bank's stack pointer.  Changing mode changes which bank A7       *)
(* names and nothing else; writing A7 or writing a bank by name (MOVEC)    *)
(* changes that bank; reading a bank by name returns its value.            *)
(***************************************************************************)
CONSTANTS Banks, Vals, NoRead

VARIABLES
  stacks,    \* the stack pointer of every bank
  active,    \* the bank A7 names
  lastRead   \* the value the last read by name returned

vars == <<stacks, active, lastRead>>

Init ==
  /\ stacks \in [Banks -> Vals]
  /\ active \in Banks
  /\ lastRead = NoRead

(* A mode change: A7 now names bank b.                                     *)
Switch(b) ==
  /\ active' = b
  /\ UNCHANGED <<stacks, lastRead>>

(* An instruction writes A7.                                               *)
WriteActive(v) ==
  /\ stacks' = [stacks EXCEPT ![active] = v]
  /\ UNCHANGED <<active, lastRead>>

(* A write of bank b by name.                                              *)
WriteBank(b, v) ==
  /\ stacks' = [stacks EXCEPT ![b] = v]
  /\ UNCHANGED <<active, lastRead>>

(* A read of bank b by name.                                               *)
ReadBank(b) ==
  /\ lastRead' = stacks[b]
  /\ UNCHANGED <<stacks, active>>

Next ==
  \/ \E b \in Banks : Switch(b)
  \/ \E v \in Vals : WriteActive(v)
  \/ \E b \in Banks, v \in Vals : WriteBank(b, v)
  \/ \E b \in Banks : ReadBank(b)

Spec == Init /\ [][Next]_vars

=============================================================================

------------------------------ MODULE M68kStack ------------------------------
(***************************************************************************)
(* Stack-pointer banking of the m68k CPU (target/m68k/helper.c): A7 lives  *)
(* in env->aregs[7], the inactive banks in env->sp[], and env->current_sp  *)
(* says which bank aregs[7] stands for.  m68k_switch_sp saves A7 into the  *)
(* current bank and loads the bank the mode selects; it runs after every   *)
(* SR write (cpu_m68k_set_sr) and CACR write (movec).  MOVEC to and from   *)
(* USP/MSP/ISP (680x0) access env->sp[] directly.                          *)
(*                                                                         *)
(* The module is shown to implement BankedStack, in which A7 is the active *)
(* bank's stack pointer itself.                                            *)
(***************************************************************************)
CONSTANTS
  Vals,         \* stack pointer values
  NoRead,       \* lastRead before any read
  MovecActive   \* whether guest code may MOVEC the bank that is active

Banks == {"USP", "SSP", "ISP"}   \* M68K_USP, M68K_SSP (master), M68K_ISP

\* M68K_FEATURE_M68000 (the 680x0 family) or a ColdFire core
Features == {"M68000", "ColdFire"}

VARIABLES
  feature,     \* the CPU family
  srS, srM,    \* SR_S and SR_M of env->sr
  cacrEusp,    \* M68K_CACR_EUSP of env->cacr
  a7,          \* env->aregs[7]
  sp,          \* env->sp[]
  current_sp,  \* env->current_sp
  lastRead     \* value returned by the last m68k_movec_from of a bank

vars == <<feature, srS, srM, cacrEusp, a7, sp, current_sp, lastRead>>

(* The bank the mode selects, lines 201-213.                               *)
NewSp(f, s, m, eusp) ==
  IF f = "M68000"
  THEN IF s THEN (IF m THEN "SSP" ELSE "ISP") ELSE "USP"
  ELSE IF s /\ eusp THEN "SSP" ELSE "USP"

(* Mutant: A7 not saved into the bank it stood for before switching.       *)
SwitchSpNoSave(s, m, eusp) ==
  LET nb == NewSp(feature, s, m, eusp)
  IN  /\ UNCHANGED sp
      /\ a7' = sp[nb]
      /\ current_sp' = nb

(* m68k_switch_sp with the SR/CACR bits the caller has just stored: save   *)
(* A7 into the current bank, load the selected bank into A7.               *)
SwitchSp(s, m, eusp) ==
  LET nb    == NewSp(feature, s, m, eusp)
      saved == [sp EXCEPT ![current_sp] = a7]
  IN  /\ sp' = saved
      /\ a7' = saved[nb]
      /\ current_sp' = nb

(* cpu_m68k_set_sr (HELPER(set_sr), the move to SR and the exception      *)
(* entry and return paths): store SR, then switch stacks.                  *)
SetSR(s, m) ==
  /\ srS' = s /\ srM' = m
  /\ SwitchSp(s, m, cacrEusp)
  /\ UNCHANGED <<feature, cacrEusp, lastRead>>

(* Mutant: CACR stored without switching stacks.                           *)
CfMovecToCACRNoSwitch(e) ==
  /\ feature = "ColdFire" /\ srS
  /\ cacrEusp' = e
  /\ UNCHANGED <<sp, a7, current_sp>>
  /\ UNCHANGED <<feature, srS, srM, lastRead>>

(* HELPER(cf_movec_to), case M68K_CR_CACR (MOVEC is privileged: the       *)
(* translator only emits it in supervisor mode).                           *)
CfMovecToCACR(e) ==
  /\ feature = "ColdFire" /\ srS
  /\ cacrEusp' = e
  /\ SwitchSp(srS, srM, e)
  /\ UNCHANGED <<feature, srS, srM, lastRead>>

(* HELPER(m68k_movec_to), case M68K_CR_CACR: the value masked by the CPU   *)
(* model (the EUSP bit survives only some masks; the 680x0 bank choice     *)
(* ignores it), then a stack switch.                                       *)
M68kMovecToCACR(e) ==
  /\ feature = "M68000" /\ srS
  /\ cacrEusp' = e
  /\ SwitchSp(srS, srM, e)
  /\ UNCHANGED <<feature, srS, srM, lastRead>>

(* HELPER(m68k_movec_to), cases M68K_CR_USP/MSP/ISP: env->sp[b] = val.    *)
M68kMovecToSP(b, v) ==
  /\ feature = "M68000" /\ srS
  /\ MovecActive \/ b # current_sp
  /\ sp' = [sp EXCEPT ![b] = v]
  /\ UNCHANGED <<feature, srS, srM, cacrEusp, a7, current_sp, lastRead>>

(* HELPER(m68k_movec_from), cases M68K_CR_USP/MSP/ISP: return env->sp[b]. *)
M68kMovecFromSP(b) ==
  /\ feature = "M68000" /\ srS
  /\ MovecActive \/ b # current_sp
  /\ lastRead' = sp[b]
  /\ UNCHANGED <<feature, srS, srM, cacrEusp, a7, sp, current_sp>>

(* Guest code writing A7 (push, pop, move to A7, uc_reg_write).            *)
WriteA7(v) ==
  /\ a7' = v
  /\ UNCHANGED <<feature, srS, srM, cacrEusp, sp, current_sp, lastRead>>

Init ==
  /\ feature \in Features
  /\ srS \in BOOLEAN /\ srM \in BOOLEAN /\ cacrEusp \in BOOLEAN
  /\ a7 \in Vals
  /\ sp \in [Banks -> Vals]
  /\ current_sp = NewSp(feature, srS, srM, cacrEusp)
  /\ lastRead = NoRead

Next ==
  \/ \E s, m \in BOOLEAN : SetSR(s, m)
  \/ \E e \in BOOLEAN : CfMovecToCACR(e) \/ M68kMovecToCACR(e)
  \/ \E b \in Banks, v \in Vals : M68kMovecToSP(b, v)
  \/ \E b \in Banks : M68kMovecFromSP(b)
  \/ \E v \in Vals : WriteA7(v)

Spec == Init /\ [][Next]_vars

TypeOK ==
  /\ feature \in Features /\ srS \in BOOLEAN /\ srM \in BOOLEAN
  /\ cacrEusp \in BOOLEAN /\ a7 \in Vals /\ sp \in [Banks -> Vals]
  /\ current_sp \in Banks /\ lastRead \in Vals \cup {NoRead}

(***************************************************************************)
(* Properties.                                                             *)
(***************************************************************************)

(* After every SR or CACR write, A7 stands for the bank the new mode       *)
(* selects: m68k_switch_sp ran with the bits already stored.               *)
StackMatchesMode == current_sp = NewSp(feature, srS, srM, cacrEusp)

(* The refinement mapping: the architectural stack pointer of a bank is   *)
(* A7 for the bank A7 stands for and env->sp[] for the others.             *)
Abstract == INSTANCE BankedStack
              WITH stacks <- [b \in Banks |-> IF b = current_sp THEN a7
                                                                 ELSE sp[b]],
                   active <- current_sp

(* Every sequence of SR writes, CACR writes, A7 writes and MOVECs of the   *)
(* stack pointers is one the architecture allows: no bank loses a value it *)
(* was given and a MOVEC read returns the bank's current value.            *)
Refines == Abstract!Spec

=============================================================================

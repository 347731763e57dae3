----------------------------- MODULE CallFrame -----------------------------
(***************************************************************************)
(* The stack frame of the ppc backend's prologue and epilogue              *)
(* (tcg/ppc/tcg-target.inc.c, tcg_target_qemu_prologue) and the DWARF     *)
(* call-frame information tcg_register_jit hands to the debugger, for each *)
(* host ABI the #if chain of lines 2283-2307 selects.                      *)
(*                                                                         *)
(* Offsets are in bytes, relative to R1 after the prologue's STDU/STWU.    *)
(* The sizes CPU_TEMP_BUF_NLONGS and TCG_STATIC_CALL_ARGS_SIZE come from   *)
(* tcg.h, which is not in the repository: they are constants.  sizeof(long) *)
(* is SZR on every ABI here (LP64 and ILP32).                              *)
(***************************************************************************)
EXTENDS Integers, Sequences, SequencesExt

CONSTANTS
  CpuTempBufNLongs,    \* CPU_TEMP_BUF_NLONGS
  StaticCallArgsSize   \* TCG_STATIC_CALL_ARGS_SIZE

(* Lines 2283-2307, in words of SZR bytes: the link area, the slot of the *)
(* caller's frame where LR is saved, and TCG_TARGET_CALL_STACK_OFFSET      *)
(* (the link area, and under _CALL_AIX eight more words of parameter save  *)
(* area).  bits is TCG_TARGET_REG_BITS.                                    *)
AbiTable ==
  [AIX64    |-> [bits |-> 64, link |-> 6, lr |-> 1, callStack |-> 6 + 8],
   ELFv2    |-> [bits |-> 64, link |-> 4, lr |-> 1, callStack |-> 4],
   SysV32   |-> [bits |-> 32, link |-> 2, lr |-> 1, callStack |-> 2],
   Darwin32 |-> [bits |-> 32, link |-> 6, lr |-> 2, callStack |-> 6]]

Abis    == DOMAIN AbiTable
ElfAbis == Abis \ {"Darwin32"}                 \* #ifdef __ELF__, line 3800

SZR(abi)                          == AbiTable[abi].bits \div 8
LINK_AREA_SIZE(abi)               == AbiTable[abi].link * SZR(abi)
LR_OFFSET(abi)                    == AbiTable[abi].lr * SZR(abi)
TCG_TARGET_CALL_STACK_OFFSET(abi) == AbiTable[abi].callStack * SZR(abi)
TCG_TARGET_STACK_ALIGN            == 16

(* tcg_target_callee_save_regs, lines 158-180: R11 first on Darwin, then   *)
(* R14 .. R31.                                                             *)
tcg_target_callee_save_regs(abi) ==
  (IF abi = "Darwin32" THEN <<11>> ELSE <<>>) \o [i \in 1 .. 18 |-> 13 + i]

CPU_TEMP_BUF_SIZE(abi) == CpuTempBufNLongs * SZR(abi)
REG_SAVE_SIZE(abi)     == Len(tcg_target_callee_save_regs(abi)) * SZR(abi)

(* Mutant: the outgoing stack arguments left out of the frame.             *)
FrameSizeNoCallArgs(abi) ==
  LET x == TCG_TARGET_CALL_STACK_OFFSET(abi) + CPU_TEMP_BUF_SIZE(abi)
             + REG_SAVE_SIZE(abi) + TCG_TARGET_STACK_ALIGN - 1
  IN  x - (x % TCG_TARGET_STACK_ALIGN)

(* Lines 2312-2317: the sum rounded down, by & -TCG_TARGET_STACK_ALIGN,    *)
(* after adding TCG_TARGET_STACK_ALIGN - 1, i.e. rounded up.               *)
FRAME_SIZE(abi) ==
  LET x == TCG_TARGET_CALL_STACK_OFFSET(abi) + StaticCallArgsSize
             + CPU_TEMP_BUF_SIZE(abi) + REG_SAVE_SIZE(abi)
             + TCG_TARGET_STACK_ALIGN - 1
  IN  x - (x % TCG_TARGET_STACK_ALIGN)

REG_SAVE_BOT(abi) == FRAME_SIZE(abi) - REG_SAVE_SIZE(abi)

(* tcg_set_frame(s, TCG_REG_CALL_STACK, REG_SAVE_BOT - CPU_TEMP_BUF_SIZE,   *)
(* CPU_TEMP_BUF_SIZE), line 2332: the spill area of the generated code.   *)
TempBuf(abi) ==
  [start |-> REG_SAVE_BOT(abi) - CPU_TEMP_BUF_SIZE(abi), size |-> CPU_TEMP_BUF_SIZE(abi)]

(* The prologue's stores, lines 2337-2344: the back chain at 0 (STDU/STWU *)
(* R1,-FRAME_SIZE(R1)), callee-saved register i (from 0) at               *)
(* REG_SAVE_BOT + i * SZR and LR, through R0, at FRAME_SIZE + LR_OFFSET,   *)
(* in the caller's frame.                                                  *)
PrologueSlot(abi, i) == REG_SAVE_BOT(abi) + i * SZR(abi)
PrologueLrSlot(abi)  == FRAME_SIZE(abi) + LR_OFFSET(abi)

(* Mutant: the epilogue reloading register i from the slot of i + 1.       *)
EpilogueSlotOffByOne(abi, i) == REG_SAVE_BOT(abi) + (i + 1) * SZR(abi)

(* The epilogue's loads, lines 2356-2360, and the ADDI that pops the frame *)
(* (line 2362).                                                            *)
EpilogueSlot(abi, i) == REG_SAVE_BOT(abi) + i * SZR(abi)
EpilogueLrSlot(abi)  == FRAME_SIZE(abi) + LR_OFFSET(abi)

(***************************************************************************)
(* The debug frame, lines 3800-3848.                                       *)
(***************************************************************************)

(* .cie.data_align: sleb128 -SZR in one byte, (-SZR & 0x7f).               *)
CieDataAlign(abi) == (-SZR(abi)) % 128

(* .fde_def_cfa: DW_CFA_def_cfa r1, uleb128 FRAME_SIZE in two bytes.       *)
FdeDefCfa(abi) ==
  << 12, 1, (FRAME_SIZE(abi) % 128) + 128, (FRAME_SIZE(abi) \div 128) % 256 >>

(* Mutant: the LR offset factored without its sign.                        *)
LrFactoredUnsigned(abi) == (LR_OFFSET(abi) \div SZR(abi)) % 128

(* .fde_reg_ofs[2]: (LR_OFFSET / -SZR) & 0x7f, a one-byte sleb128.  The   *)
(* division is exact.                                                      *)
LrFactored(abi) == (-(LR_OFFSET(abi) \div SZR(abi))) % 128

(* fde_reg_ofs: DW_CFA_offset_extended_sf for LR (column 65), then the     *)
(* pairs tcg_register_jit writes (lines 3841-3844): 0x80 + reg and the      *)
(* uint8_t (FRAME_SIZE - (REG_SAVE_BOT + i * SZR)) / SZR.                   *)
FdeRegOfsPair(abi, i) ==
  << 128 + tcg_target_callee_save_regs(abi)[i + 1],
     ((FRAME_SIZE(abi) - (REG_SAVE_BOT(abi) + i * SZR(abi))) \div SZR(abi)) % 256 >>

FdeRegOfs(abi) ==
  << 17, 65, LrFactored(abi) >>
    \o FlattenSeq([i \in 1 .. Len(tcg_target_callee_save_regs(abi)) |->
                     FdeRegOfsPair(abi, i - 1)])

(***************************************************************************)
(* What a DWARF unwinder makes of those bytes (DWARF 4, 6.4.2 and 7.6):    *)
(* the reference the properties compare the frame with.                    *)
(***************************************************************************)

RECURSIVE ULebVal(_), ULebLen(_)
ULebVal(s) == IF Head(s) < 128 THEN Head(s) ELSE Head(s) - 128 + 128 * ULebVal(Tail(s))
ULebLen(s) == IF Head(s) < 128 THEN 1 ELSE 1 + ULebLen(Tail(s))

SLebVal(s) ==
  LET n == ULebLen(s)
  IN  IF (s[n] \div 64) % 2 = 1 THEN ULebVal(s) - 2 ^ (7 * n) ELSE ULebVal(s)

(* The register rules after the CFA program prog: the CFA register and     *)
(* offset, and loc[r], the offset from the CFA where register r is saved.  *)
SaveRule(st, r, ofs) ==
  [st EXCEPT !.loc = [x \in DOMAIN st.loc \cup {r} |-> IF x = r THEN ofs ELSE st.loc[x]]]

RECURSIVE RunCfi(_, _, _)
RunCfi(prog, align, st) ==
  IF prog = <<>> THEN st
  ELSE
    LET op == Head(prog)
        a  == Tail(prog)
    IN  CASE op = 12 ->                                     \* DW_CFA_def_cfa
               LET b == SubSeq(a, ULebLen(a) + 1, Len(a))
               IN  RunCfi(SubSeq(b, ULebLen(b) + 1, Len(b)), align,
                          [st EXCEPT !.cfaReg = ULebVal(a), !.cfaOfs = ULebVal(b)])
          [] op = 17 ->                          \* DW_CFA_offset_extended_sf
               LET b == SubSeq(a, ULebLen(a) + 1, Len(a))
               IN  RunCfi(SubSeq(b, ULebLen(b) + 1, Len(b)), align,
                          SaveRule(st, ULebVal(a), SLebVal(b) * align))
          [] op \div 64 = 2 ->                                \* DW_CFA_offset
               RunCfi(SubSeq(a, ULebLen(a) + 1, Len(a)), align,
                      SaveRule(st, op % 64, ULebVal(a) * align))

Unwind(abi) ==
  RunCfi(FdeDefCfa(abi) \o FdeRegOfs(abi), SLebVal(<< CieDataAlign(abi) >>),
         [cfaReg |-> -1, cfaOfs |-> 0, loc |-> [r \in {} |-> 0]])

(* The unwinder's reading of each ELF host's debug frame, a constant.      *)
UnwindTable == [abi \in ElfAbis |-> Unwind(abi)]

(***************************************************************************)
(* What the frame must satisfy; LdstCodegen's UnwindExact and FrameFits    *)
(* check them together with the live frame.                                *)
(***************************************************************************)

(* The unwind information agrees with the prologue on every ELF host: the  *)
(* CFA is R1 + FRAME_SIZE, and LR and each callee-saved register are found  *)
(* exactly where the prologue stored them.  It depends on the sign of the  *)
(* factored LR offset, on dividing by SZR and on FRAME_SIZE fitting the two *)
(* bytes of its uleb128.  A constant, evaluated once.                      *)
DebugFrameAgrees ==
  \A abi \in ElfAbis :
    /\ UnwindTable[abi].cfaReg = 1
    /\ UnwindTable[abi].cfaOfs = FRAME_SIZE(abi)
    /\ DOMAIN UnwindTable[abi].loc = {65} \cup Range(tcg_target_callee_save_regs(abi))
    /\ FRAME_SIZE(abi) + UnwindTable[abi].loc[65] = PrologueLrSlot(abi)
    /\ \A i \in DOMAIN tcg_target_callee_save_regs(abi) :
         FRAME_SIZE(abi) + UnwindTable[abi].loc[tcg_target_callee_save_regs(abi)[i]]
           = PrologueSlot(abi, i - 1)

(* On every ABI the frame holds, without overlap and in this order from R1, *)
(* the link area, the outgoing stack arguments tcg_reg_alloc_call stores  *)
(* from TCG_TARGET_CALL_STACK_OFFSET, the spill area of tcg_set_frame and  *)
(* the register save area, which ends at FRAME_SIZE; FRAME_SIZE is a       *)
(* multiple of the stack alignment and fits the signed 16-bit displacement *)
(* of STDU/STWU.  A constant, evaluated once.                              *)
FrameLayoutFits ==
  \A abi \in Abis :
    /\ LINK_AREA_SIZE(abi) <= TCG_TARGET_CALL_STACK_OFFSET(abi)
    /\ TCG_TARGET_CALL_STACK_OFFSET(abi) + StaticCallArgsSize <= TempBuf(abi).start
    /\ TempBuf(abi).start + TempBuf(abi).size <= REG_SAVE_BOT(abi)
    /\ REG_SAVE_BOT(abi) + REG_SAVE_SIZE(abi) = FRAME_SIZE(abi)
    /\ FRAME_SIZE(abi) % TCG_TARGET_STACK_ALIGN = 0
    /\ FRAME_SIZE(abi) < 2 ^ 15
====

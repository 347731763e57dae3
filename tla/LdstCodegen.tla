----------------------------- MODULE LdstCodegen -----------------------------
(***************************************************************************)
(* The guarded memory-access pipeline of the ppc64 backend                 *)
(* (tcg/ppc/tcg-target.inc.c), for one translation block:                  *)
(*                                                                         *)
(*  - the main pass (tcg_out_qemu_ld / tcg_out_qemu_st) lowers each guest  *)
(*    load/store to a TLB compare, a branch-and-link to a not yet emitted  *)
(*    slow path, the fast-path host access, and records a slow-path label  *)
(*    (add_qemu_ldst_label) whose resume address is the next instruction;  *)
(*  - the finalize pass emits one stub per label                           *)
(*    (tcg_out_qemu_ld_slow_path / tcg_out_qemu_st_slow_path): it patches  *)
(*    the branch, marshals the helper arguments, calls the helper and      *)
(*    branches back to the resume address;                                 *)
(*  - the generated block is then executed, again and again, by the vCPU   *)
(*    thread against a software TLB that the helper may refill.            *)
(*                                                                         *)
(* The code buffer is a sequence of abstract instructions, one per host    *)
(* instruction that matters to control or data flow; a multi-instruction   *)
(* sequence with one effect (the TLB read, a call) is one entry.  Branch   *)
(* reach is counted in these entries.                                      *)
(***************************************************************************)
EXTENDS Integers, Sequences, Functions, CallFrame

CONSTANTS
  OpStreams,   \* the IR op streams a block may have (sequences of ops)
  Addrs,       \* guest addresses (model values), each inside one page
  Vals,        \* values of guest memory
  Junk,        \* the content of a register nobody defined
  Reach14,     \* reach of a REL14 conditional branch, in code entries
  FillLen      \* code entries a non-memory op emits

(* Registers.  R3-R7 are argument registers of the helper call, R12 is     *)
(* TCG_REG_TMP1 (ELFv2), R0 the scratch, R27 TCG_AREG0 (env).  AllocRegs   *)
(* are the registers of the model that tcg_target_init leaves available    *)
(* and unreserved (R0 and TMP1 are reserved, AREG0 is env's), so the 'r'   *)
(* output of qemu_ld may be R3 or R4 and only 'L'/'S' keep them out.       *)
AllocRegs == {"R3", "R4", "R5", "R6", "R7", "R14"}
Regs      == {"R0", "R12", "R27"} \cup AllocRegs
Clobbered == {"R0", "R3", "R4", "R5", "R6", "R7", "R12"} \* call-clobbered

(* target_parse_constraint, 'L' (qemu_ld) and 'S' (qemu_st) under          *)
(* CONFIG_SOFTMMU, restricted to the registers of the model.               *)
ConstraintL == AllocRegs \ {"R3", "R4", "R5"}
ConstraintS == AllocRegs \ {"R3", "R4", "R5", "R6"}

(* An op of the stream: a guest load or store with its operand registers,  *)
(* the guest address and (for a store) the value, or a non-memory op.      *)
Ops == [kind : {"ld"}, data : AllocRegs, addr : ConstraintL, a : Addrs]
         \cup [kind : {"st"}, data : ConstraintS, addr : ConstraintS,
               a : Addrs, v : Vals]
         \cup [kind : {"other"}]

\* a store's value and address are different temps in different registers
MemOps == {op \in Ops : op.kind = "st" => op.data # op.addr}

ASSUME OpStreams \subseteq Seq(MemOps)
ASSUME Junk \notin Vals \cup Addrs
ASSUME Reach14 \in Nat /\ FillLen \in Nat

VARIABLES
  hookmem,   \* tcg_uc_has_hookmem(s): a memory hook is registered
  guest32,   \* TARGET_LONG_BITS == 32 (address zero-extended into R4)
  ops,       \* the op stream of the block
  phase,     \* "gen" (main pass), "fin" (slow paths), "run", "failed"
  next,      \* main pass: next op; finalize: next label
  code,      \* the code buffer
  labels,    \* the TCGLabelQemuLdst records, in creation order
  pc,        \* execution: index of the next code entry
  regs,      \* execution: register contents
  lr,        \* execution: the link register
  creq,      \* execution: CR7[EQ] after the last TLB compare
  tlb,       \* execution: guest addresses the TLB maps (comparator valid)
  mem,       \* execution: guest memory
  cur,       \* execution: the op whose code is running, 0 before the first
  accesses,  \* execution: guest addresses the current op accessed, in order
  resumed,   \* execution: TRUE once control reached the op's resume address
  sp,        \* execution: R1
  stack      \* execution: the stack words written so far, by address

vars == <<hookmem, guest32, ops, phase, next, code, labels, pc, regs, lr,
          creq, tlb, mem, cur, accesses, resumed, sp, stack>>
genVars == <<hookmem, guest32, ops>>
runVars == <<pc, regs, lr, creq, tlb, mem, cur, accesses, resumed, sp, stack>>

(***************************************************************************)
(* Main pass.                                                              *)
(***************************************************************************)

(* The code the register allocator emits before the op to place its       *)
(* operands (outside this file); one entry.                                *)
SetupInsn(i) == [k |-> "setup", op |-> i]

(* tcg_out_tlb_read returns the register holding the address for the fast *)
(* path: R4, into which a 32-bit guest address has been zero-extended, or  *)
(* addrlo itself.                                                          *)
TlbAddrReg(areg) == IF guest32 THEN "R4" ELSE areg

(* Mutant: add_qemu_ldst_label called before the fast-path access is      *)
(* emitted, so the resume address is the access itself.                    *)
GuardedAccessEarlyLabel(i, op, fast) ==
  LET lptr == Len(code) + 3
  IN  /\ code' = code \o << SetupInsn(i),
                             [k |-> "tlb", op |-> i, areg |-> op.addr],
                             [k |-> "bcl", cond |-> ~hookmem, tgt |-> lptr],
                             fast >>
      /\ labels' = Append(labels,
                     [is_ld |-> op.kind = "ld", op |-> i, data |-> op.data,
                      addr |-> TlbAddrReg(op.addr), raddr |-> Len(code) + 4,
                      lptr |-> lptr])

(* The code common to tcg_out_qemu_ld and tcg_out_qemu_st for op i         *)
(* (CONFIG_SOFTMMU, 64-bit host): the TLB compare, the branch-and-link to  *)
(* the slow path (conditional on CR7[EQ] unless a memory hook forces the   *)
(* slow path; emitted with a zero displacement, i.e. to itself), the       *)
(* fast-path access through R3 (the addend), then add_qemu_ldst_label with *)
(* the next entry as resume address and the branch as label_ptr.           *)
GuardedAccess(i, op, fast) ==
  LET lptr == Len(code) + 3
  IN  /\ code' = code \o << SetupInsn(i),
                             [k |-> "tlb", op |-> i, areg |-> op.addr],
                             [k |-> "bcl", cond |-> ~hookmem, tgt |-> lptr],
                             fast >>
      /\ labels' = Append(labels,
                     [is_ld |-> op.kind = "ld", op |-> i, data |-> op.data,
                      addr |-> TlbAddrReg(op.addr), raddr |-> Len(code) + 5,
                      lptr |-> lptr])

(* tcg_out_qemu_ld: the fast path loads datalo from R3 + addrlo.           *)
QemuLd(i, op) ==
  GuardedAccess(i, op, [k |-> "ldx", dst |-> op.data,
                        areg |-> TlbAddrReg(op.addr)])

(* tcg_out_qemu_st: the fast path stores datalo to R3 + addrlo.            *)
QemuSt(i, op) ==
  GuardedAccess(i, op, [k |-> "stx", src |-> op.data,
                        areg |-> TlbAddrReg(op.addr)])

(* A non-memory op: FillLen entries that do not touch the operands.       *)
OtherOp ==
  /\ code' = code \o [n \in 1 .. FillLen |-> [k |-> "nop"]]
  /\ UNCHANGED labels

(* tcg_out_op for the next op of the stream; exit_tb after the last one.  *)
GenOp ==
  /\ phase = "gen"
  /\ next <= Len(ops)
  /\ CASE ops[next].kind = "ld" -> QemuLd(next, ops[next])
       [] ops[next].kind = "st" -> QemuSt(next, ops[next])
       [] OTHER                 -> OtherOp
  /\ next' = next + 1
  /\ UNCHANGED <<phase>> /\ UNCHANGED genVars /\ UNCHANGED runVars

GenExit ==
  /\ phase = "gen"
  /\ next = Len(ops) + 1
  /\ code' = Append(code, [k |-> "exit"])
  /\ phase' = "fin"
  /\ next' = 1
  /\ UNCHANGED labels /\ UNCHANGED genVars /\ UNCHANGED runVars

(***************************************************************************)
(* Finalize pass.                                                          *)
(***************************************************************************)

(* patch_reloc of the branch at lptr to the entry at target: R_PPC_REL24   *)
(* (B, reach never exceeded inside a block) when a memory hook is set,     *)
(* R_PPC_REL14 (BC) otherwise, which fails when the displacement does not  *)
(* fit (reloc_pc14).                                                       *)
PatchFits(lptr, target) == hookmem \/ target - lptr <= Reach14

(* Mutant: the argument register not advanced after the address, so oi    *)
(* overwrites it and the return address lands one register early.         *)
LdSlowPathStubNoArgInc(lb) ==
  << [k |-> "mov", dst |-> "R3", src |-> "R27"],
     [k |-> "mov", dst |-> "R4", src |-> lb.addr],
     [k |-> "movi", dst |-> "R4", val |-> lb.op],
     [k |-> "mflr", dst |-> "R5"],
     [k |-> "call", ld |-> TRUE],
     [k |-> "mov", dst |-> lb.data, src |-> "R3"],
     [k |-> "b", tgt |-> lb.raddr] >>

(* The stub of tcg_out_qemu_ld_slow_path after the patch: R3 = env, R4 =   *)
(* the address (already zero-extended into R4 for a 32-bit guest), R5 =   *)
(* oi, R6 = the return address read from LR (MFSPR), the helper call, the *)
(* result moved from R3 to datalo, and the branch back to raddr.           *)
LdSlowPathStub(lb) ==
  << [k |-> "mov", dst |-> "R3", src |-> "R27"],
     [k |-> "mov", dst |-> "R4", src |-> lb.addr],
     [k |-> "movi", dst |-> "R5", val |-> lb.op],
     [k |-> "mflr", dst |-> "R6"],
     [k |-> "call", ld |-> TRUE],
     [k |-> "mov", dst |-> lb.data, src |-> "R3"],
     [k |-> "b", tgt |-> lb.raddr] >>

(* The stub of tcg_out_qemu_st_slow_path after the patch: R3 = env, R4 =   *)
(* the address, R5 = datalo (zero-extended to the access size by RLDICL,   *)
(* a no-op on the values of the model), R6 = oi, R7 = LR, the call and the *)
(* branch back to raddr.                                                   *)
StSlowPathStub(lb) ==
  << [k |-> "mov", dst |-> "R3", src |-> "R27"],
     [k |-> "mov", dst |-> "R4", src |-> lb.addr],
     [k |-> "mov", dst |-> "R5", src |-> lb.data],
     [k |-> "movi", dst |-> "R6", val |-> lb.op],
     [k |-> "mflr", dst |-> "R7"],
     [k |-> "call", ld |-> FALSE],
     [k |-> "b", tgt |-> lb.raddr] >>

SlowPathStub(lb) == IF lb.is_ld THEN LdSlowPathStub(lb) ELSE StSlowPathStub(lb)

(* Mutant: the branch patched to the entry before the stub (the pointer   *)
(* taken after the first instruction of the stub was emitted, off by one). *)
SlowPathPatchOffByOne ==
  /\ phase = "fin"
  /\ next <= Len(labels)
  /\ LET lb == labels[next]
         target == Len(code)
     IN  IF PatchFits(lb.lptr, target)
         THEN /\ code' = [code EXCEPT ![lb.lptr].tgt = target]
                           \o SlowPathStub(lb)
              /\ next' = next + 1
              /\ UNCHANGED phase
         ELSE /\ phase' = "failed"
              /\ UNCHANGED <<code, next>>
  /\ UNCHANGED labels /\ UNCHANGED genVars /\ UNCHANGED runVars

(* tcg_out_ldst_finalize calling the slow-path generator for the next     *)
(* label, which first patches label_ptr to the current code pointer with  *)
(* REL24 or REL14 and returns false when that fails, failing the whole     *)
(* generation; then emits the stub.                                        *)
SlowPath ==
  /\ phase = "fin"
  /\ next <= Len(labels)
  /\ LET lb == labels[next]
         target == Len(code) + 1
     IN  IF PatchFits(lb.lptr, target)
         THEN /\ code' = [code EXCEPT ![lb.lptr].tgt = target]
                           \o SlowPathStub(lb)
              /\ next' = next + 1
              /\ UNCHANGED phase
         ELSE /\ phase' = "failed"
              /\ UNCHANGED <<code, next>>
  /\ UNCHANGED labels /\ UNCHANGED genVars /\ UNCHANGED runVars

(* All stubs emitted: the block is finished and cpu_exec may run it.      *)
Finish ==
  /\ phase = "fin"
  /\ next = Len(labels) + 1
  /\ phase' = "host"
  /\ UNCHANGED <<next, code, labels>> /\ UNCHANGED genVars
  /\ UNCHANGED runVars

(***************************************************************************)
(* The frame the block runs in (CallFrame, on an ELFv2 host).  cpu_exec,  *)
(* the caller, holds its own values in the callee-saved registers; of     *)
(* these the model has R14 (allocatable) and R27 (TCG_AREG0).  Its frame  *)
(* starts at CallerSp: the back chain and the words up to the parameter   *)
(* save area, of which a callee may write the CR and LR save words.       *)
(***************************************************************************)
HostAbi     == "ELFv2"
CallerSp    == 2 * FRAME_SIZE(HostAbi)
CallerRegs  == [R14 |-> -14, R27 |-> -27]     \* cpu_exec's values
RetAddr     == -1                            \* cpu_exec's return address
TbPtr       == -2                            \* the tb_ptr argument
SaveIndex   == [R14 |-> 0, R27 |-> 13]       \* in tcg_target_callee_save_regs
CallerFrame == {CallerSp + k * SZR(HostAbi) : k \in 0 .. 3}
CalleeOwned == {CallerSp + SZR(HostAbi), CallerSp + 2 * SZR(HostAbi)}
AbiLrSave   == 2 * SZR(HostAbi)              \* where a callee saves LR

Load(st, a)     == IF a \in DOMAIN st THEN st[a] ELSE Junk
Store(st, a, v) == [x \in DOMAIN st \cup {a} |-> IF x = a THEN v ELSE st[x]]

(* cpu_exec calling tcg_qemu_tb_exec(env, tb_ptr), and the prologue,       *)
(* lines 2335-2352: MFSPR R0,LR; STDU R1,-FRAME_SIZE(R1); the callee-saved *)
(* registers stored from REG_SAVE_BOT; R0 stored at FRAME_SIZE + LR_OFFSET; *)
(* env moved to TCG_AREG0, tb_ptr to CTR (and TCG_REG_TB); BCCTR to the     *)
(* block.  In between blocks cpu_exec keeps its own registers, and its     *)
(* call sets LR to its return address.                                     *)
Prologue ==
  LET nsp == sp - FRAME_SIZE(HostAbi)
      st1 == Store(stack, nsp, sp)
      st2 == Store(Store(st1, nsp + PrologueSlot(HostAbi, SaveIndex["R14"]), regs["R14"]),
                   nsp + PrologueSlot(HostAbi, SaveIndex["R27"]), regs["R27"])
  IN  /\ phase = "host"
      /\ stack' = Store(st2, nsp + PrologueLrSlot(HostAbi), RetAddr)
      /\ sp' = nsp
      /\ regs' = [regs EXCEPT !["R0"] = RetAddr, !["R3"] = "env", !["R4"] = TbPtr,
                              !["R27"] = "env"]
      /\ lr' = RetAddr
      /\ phase' = "run"
      /\ pc' = 1 /\ cur' = 0 /\ accesses' = <<>> /\ resumed' = FALSE
      /\ UNCHANGED <<next, code, labels, creq, tlb, mem>> /\ UNCHANGED genVars

(***************************************************************************)
(* Execution of the finished block by the vCPU thread.  The host address   *)
(* R3 + addr of the fast path is the guest address itself only when R3     *)
(* holds the addend that the TLB read loaded for that very address from a  *)
(* valid entry; anything else is a stray host access, recorded as "wild".  *)
(***************************************************************************)
Addend(a) == [addend |-> a]

HostTarget(r3, x) ==
  IF r3 = Addend(x) /\ x \in Addrs /\ tlb[x] THEN x ELSE "wild"

(* The index of the first entry of the code for op i.                      *)
OpStart(i) == CHOOSE n \in DOMAIN code : code[n] = SetupInsn(i)

(* The label of op i (one per memory op).                                  *)
LabelOf(i) == CHOOSE lb \in Range(labels) : lb.op = i

(* Moving to entry n; reaching the current op's resume address is noted.  *)
GoTo(n) ==
  /\ pc' = n
  /\ resumed' = (resumed \/ (cur # 0 /\ ops[cur].kind # "other"
                             /\ n = LabelOf(cur).raddr))

(* The code tcg_out_tlb_read emits, run on the address register areg: R3   *)
(* and R4 receive tlb_mask and tlb_table before addrlo is read; R3 ends    *)
(* as the addend of the indexed entry, R4 as the zero-extended address (32- *)
(* bit guest) or the table, TMP1 the comparator, R0 the masked address,    *)
(* CR7[EQ] the comparison (exact, by TlbCompare).                          *)
TlbRead(in) ==
  LET a == IF in.areg \in {"R3", "R4"} THEN Junk ELSE regs[in.areg]
  IN  /\ creq' = (a \in Addrs /\ tlb[a])
      /\ regs' = [regs EXCEPT !["R0"] = Junk, !["R12"] = Junk,
                               !["R3"] = Addend(a),
                               !["R4"] = IF guest32 THEN a ELSE Junk]
      /\ GoTo(pc + 1)
      /\ UNCHANGED <<lr, tlb, mem, cur, accesses>>

Exec(in) ==
  CASE in.k = "setup" ->
         \* the operands are in their registers when the op starts
         LET op == ops[in.op]
         IN  /\ regs' = IF op.kind = "st"
                          THEN [regs EXCEPT ![op.addr] = op.a, ![op.data] = op.v]
                          ELSE IF op.kind = "ld"
                          THEN [regs EXCEPT ![op.addr] = op.a]
                          ELSE regs
             /\ cur' = in.op /\ accesses' = <<>> /\ resumed' = FALSE
             /\ pc' = pc + 1
             /\ UNCHANGED <<lr, creq, tlb, mem>>
    [] in.k = "tlb" -> TlbRead(in)
    [] in.k = "bcl" ->
         \* BC (BO_COND_FALSE on CR7[EQ]) or B, both with LK: LR is set
         \* whether or not the branch is taken
         /\ lr' = pc + 1
         /\ GoTo(IF in.cond /\ creq THEN pc + 1 ELSE in.tgt)
         /\ UNCHANGED <<regs, creq, tlb, mem, cur, accesses>>
    [] in.k = "ldx" ->
         LET x == HostTarget(regs["R3"], regs[in.areg])
         IN  /\ regs' = [regs EXCEPT ![in.dst] = IF x = "wild" THEN Junk
                                                              ELSE mem[x]]
             /\ accesses' = Append(accesses, x)
             /\ GoTo(pc + 1)
             /\ UNCHANGED <<lr, creq, tlb, mem, cur>>
    [] in.k = "stx" ->
         LET x == HostTarget(regs["R3"], regs[in.areg])
         IN  /\ mem' = IF x = "wild" THEN mem ELSE [mem EXCEPT ![x] = regs[in.src]]
             /\ accesses' = Append(accesses, x)
             /\ GoTo(pc + 1)
             /\ UNCHANGED <<regs, lr, creq, tlb, cur>>
    [] in.k = "mov" ->
         /\ regs' = [regs EXCEPT ![in.dst] = regs[in.src]]
         /\ GoTo(pc + 1)
         /\ UNCHANGED <<lr, creq, tlb, mem, cur, accesses>>
    [] in.k = "movi" ->
         /\ regs' = [regs EXCEPT ![in.dst] = in.val]
         /\ GoTo(pc + 1)
         /\ UNCHANGED <<lr, creq, tlb, mem, cur, accesses>>
    [] in.k = "mflr" ->
         /\ regs' = [regs EXCEPT ![in.dst] = lr]
         /\ GoTo(pc + 1)
         /\ UNCHANGED <<lr, creq, tlb, mem, cur, accesses>>
    [] in.k = "b" ->
         /\ GoTo(in.tgt)
         /\ UNCHANGED <<regs, lr, creq, tlb, mem, cur, accesses>>
    [] in.k = "nop" ->
         /\ GoTo(pc + 1)
         /\ UNCHANGED <<regs, lr, creq, tlb, mem, cur, accesses>>

(* The helper (helper_le_ld/st_name, outside this backend) called with     *)
(* env in R3, the address in R4 and, for a store, the value in R5: it does *)
(* the access through the page walk, may refill the TLB entry, returns a   *)
(* loaded value in R3 and clobbers the other call-clobbered registers.     *)
CallHelper(in) ==
  LET x   == IF regs["R3"] = "env" /\ regs["R4"] \in Addrs
               THEN regs["R4"] ELSE "wild"
      res == IF in.ld /\ x # "wild" THEN mem[x] ELSE Junk
  IN  /\ \E fill \in BOOLEAN :
           tlb' = IF fill /\ x # "wild" THEN [tlb EXCEPT ![x] = TRUE] ELSE tlb
      /\ mem' = IF ~in.ld /\ x # "wild" THEN [mem EXCEPT ![x] = regs["R5"]]
                                         ELSE mem
      /\ regs' = [r \in Regs |-> IF r = "R3" THEN res
                                 ELSE IF r \in Clobbered THEN Junk ELSE regs[r]]
      /\ lr' = pc + 1
      /\ stack' = Store(stack, sp + AbiLrSave, pc + 1)
      /\ accesses' = Append(accesses, x)
      /\ GoTo(pc + 1)
      /\ UNCHANGED <<creq, cur>>

(* exit_tb: B to tb_ret_addr and the epilogue, lines 2354-2363: LR       *)
(* reloaded through R0 from FRAME_SIZE + LR_OFFSET, the callee-saved      *)
(* registers from REG_SAVE_BOT, R1 popped by ADDI, BCLR back to cpu_exec.  *)
(* Before cpu_exec runs the block again the TLB may lose any of its       *)
(* entries (tlb_flush, eviction on refill).                                *)
ExitTb ==
  LET r0 == Load(stack, sp + EpilogueLrSlot(HostAbi))
  IN  /\ phase = "run" /\ code[pc].k = "exit"
      /\ regs' = [r \in Regs |->
                    IF r \in DOMAIN SaveIndex
                      THEN Load(stack, sp + EpilogueSlot(HostAbi, SaveIndex[r]))
                    ELSE IF r = "R0" THEN r0 ELSE regs[r]]
      /\ lr' = r0
      /\ sp' = sp + FRAME_SIZE(HostAbi)
      /\ phase' = "host"
      /\ \E kept \in SUBSET {x \in Addrs : tlb[x]} :
           tlb' = [x \in Addrs |-> x \in kept]
      /\ UNCHANGED <<next, code, labels, pc, creq, mem, cur, accesses, resumed,
                     stack>> /\ UNCHANGED genVars

Step ==
  /\ phase = "run"
  /\ code[pc].k # "exit"
  /\ IF code[pc].k = "call" THEN CallHelper(code[pc])
                            ELSE Exec(code[pc]) /\ UNCHANGED stack
  /\ UNCHANGED <<phase, next, code, labels, sp>> /\ UNCHANGED genVars

Init ==
  /\ hookmem \in BOOLEAN
  /\ guest32 \in BOOLEAN
  /\ ops \in OpStreams
  /\ phase = "gen" /\ next = 1 /\ code = <<>> /\ labels = <<>>
  /\ pc = 1 /\ creq = FALSE
  /\ regs = [r \in Regs |-> IF r \in DOMAIN CallerRegs THEN CallerRegs[r] ELSE Junk]
  /\ lr = RetAddr /\ sp = CallerSp
  /\ stack = [a \in CallerFrame |-> "caller"]
  /\ tlb \in [Addrs -> BOOLEAN]
  /\ mem \in [Addrs -> Vals]
  /\ cur = 0 /\ accesses = <<>> /\ resumed = FALSE

Next == GenOp \/ GenExit \/ SlowPath \/ Finish \/ Prologue \/ Step \/ ExitTb

(* The vCPU thread runs generated code without pause, and generation runs  *)
(* to completion once started: weak fairness of every step.                *)
Spec == Init /\ [][Next]_vars /\ WF_vars(Next)

OpIndices == UNION {DOMAIN s : s \in OpStreams}

TypeOK ==
  /\ phase \in {"gen", "fin", "host", "run", "failed"}
  /\ DOMAIN regs = Regs
  /\ tlb \in [Addrs -> BOOLEAN] /\ mem \in [Addrs -> Vals]
  /\ cur \in {0} \cup OpIndices
  /\ accesses \in Seq(Addrs \cup {"wild"})
  /\ resumed \in BOOLEAN
  /\ sp \in {CallerSp, CallerSp - FRAME_SIZE(HostAbi)}

(***************************************************************************)
(* Properties.                                                             *)
(***************************************************************************)

(* The Resume contract of the two-pass generation: when control reaches    *)
(* the resume address of a guest load/store, whichever path it took (fast  *)
(* host access, or branch-and-link to the stub, helper call and branch     *)
(* back), the op has accessed its own guest address exactly once, a load's *)
(* data register holds the memory value and a store's value is in memory.  *)
ResumeContract ==
  (phase = "run" /\ resumed) =>
    LET op == ops[cur]
    IN  /\ accesses = <<op.a>>
        /\ op.kind = "ld" => regs[op.data] = mem[op.a]
        /\ op.kind = "st" => mem[op.a] = op.v

(* The arguments the slow-path stub hands to the helper: env, the guest    *)
(* address, for a store the value, the memop index oi and a return address *)
(* inside the op's own code (the helper maps it back to the guest          *)
(* instruction to restore state on a fault).                               *)
SlowPathCallArgs ==
  (phase = "run" /\ code[pc].k = "call") =>
    LET op == ops[cur]
        inOp(ra) == ra \in OpStart(cur) + 1 .. LabelOf(cur).raddr
    IN  /\ regs["R3"] = "env" /\ regs["R4"] = op.a
        /\ op.kind = "ld" => regs["R5"] = cur /\ inOp(regs["R6"])
        /\ op.kind = "st" => /\ regs["R5"] = op.v /\ regs["R6"] = cur
                             /\ inOp(regs["R7"])

(* Every guest load/store that starts eventually reaches its own resume    *)
(* address: the branch-and-link always lands on a stub that returns.       *)
OpCompletes ==
  \A i \in OpIndices :
    (phase = "run" /\ cur = i /\ ~resumed) ~> (cur = i /\ resumed)

(* Whenever cpu_exec has control, between two executions of the block,    *)
(* it finds what it had before the first: its callee-saved registers      *)
(* (R14, which the block's loads write, and R27, which the prologue sets  *)
(* to env), R1, LR (its return address, restored from the slot the        *)
(* prologue used) and its frame apart from the words a callee may write,  *)
(* although each helper call of the block saves its own LR into the       *)
(* block's frame.  The prologue and epilogue must agree on every offset.  *)
FrameRestored ==
  phase = "host" =>
    /\ sp = CallerSp /\ lr = RetAddr
    /\ \A r \in DOMAIN CallerRegs : regs[r] = CallerRegs[r]
    /\ \A a \in CallerFrame \ CalleeOwned : stack[a] = "caller"

(* HostUnwind is what a debugger reads from the ELFv2 debug frame.         *)
HostUnwind == Unwind(HostAbi)
CalleeSaveNum(r) == tcg_target_callee_save_regs(HostAbi)[SaveIndex[r] + 1]

(* A backtrace taken at any point of the block, helper calls included,     *)
(* recovers cpu_exec's frame: the debug frame tcg_register_jit registers   *)
(* agrees with the prologue on every ELF ABI, and on the live stack the    *)
(* CFA it gives is cpu_exec's R1 and the LR and callee-saved registers it  *)
(* locates hold cpu_exec's values, although the block's helper calls write *)
(* the frame's link area.                                                  *)
UnwindExact ==
  /\ DebugFrameAgrees
  /\ phase = "run" =>
       /\ sp + HostUnwind.cfaOfs = CallerSp
       /\ Load(stack, CallerSp + HostUnwind.loc[65]) = RetAddr
       /\ \A r \in DOMAIN SaveIndex :
            Load(stack, CallerSp + HostUnwind.loc[CalleeSaveNum(r)]) = CallerRegs[r]

(* The frame's areas never overlap on any ABI the #if chain selects, and   *)
(* R1 stays 16-byte aligned in cpu_exec and throughout the block, so every  *)
(* helper the block calls is entered with the stack the ABI requires.     *)
FrameFits ==
  /\ FrameLayoutFits
  /\ sp % TCG_TARGET_STACK_ALIGN = 0

(* Generation of a block never gives up: a branch to a slow path that does *)
(* not fit its short form is re-emitted in a longer form (spec 4.4, 7).    *)
GenerationSucceeds == phase # "failed"

=============================================================================

# TLA+ models of the unicorn ppc TCG backend and its neighbours

This directory holds TLA+ models of the code under `src/`. They are checked with TLC.
- `src/qemu/tcg/ppc/tcg-target.inc.c` is the PowerPC host backend of the TCG code generator, as built into unicorn.
- `src/qemu/target/m68k/helper.c` holds the m68k CPU helpers.
- `src/qemu/target/i386/unicorn.c` holds the i386 register access API.

Every model is translated from those files. `tla/PROJECT.json` maps each definition to the lines it models. Its `components`, `runs`, `mutants`, `findings` and `hazards` lists are the index of the project.

## 1. The system

### Parts and how they interact

The ppc backend turns the IR ops of one translation block (TB) into host code. It works in two passes; a third stage is the running code.

1. **Main pass.** The generic driver `tcg_gen_code` (in `tcg.c`, not in this repository) allocates registers for every op, then calls `tcg_out_op`. For a guest load or store, `tcg_out_op` calls `tcg_out_qemu_ld` or `tcg_out_qemu_st`. Each of these emits, in order:
   - the software-TLB lookup and compare (`tcg_out_tlb_read`);
   - a branch-and-link to a slow path that does not exist yet (`BC|LK`; `B|LK` when a memory hook is registered, `tcg_uc_has_hookmem`);
   - the fast-path host access through the TLB addend in R3.

   It then records a *slow-path label* (`add_qemu_ldst_label`). The label holds the branch's address (`label_ptr`) and the resume address `raddr`, which is the first instruction after the fast path.
2. **Finalize pass.** After the last op, `tcg_out_ldst_finalize` (generic) calls `tcg_out_qemu_ld_slow_path` or `tcg_out_qemu_st_slow_path` for each label in creation order. Each one:
   - patches the branch to the current code pointer (`patch_reloc`, REL14 or REL24), and gives up the whole block if the patch does not fit;
   - marshals the helper arguments: env, address, data, oi, and the return address read from LR;
   - calls the helper and moves a loaded result to the data register;
   - branches back to `raddr`.
3. **Execution.** The vCPU thread runs the block again and again. At each guest access, the TLB compare chooses between:
   - the direct host access (fast path);
   - the helper (slow path). The helper does the page walk, may refill the TLB, and returns to the code.

Supporting parts:
- the instruction encoder (`tcg_out_rlw`, `tcg_out_rld`, the opcode macros);
- the constant materializer (`tcg_out_movi_int`);
- the lowering of single ops (`tcg_out_op` and the helpers it calls: `tcg_out_andi32/64`, `mask_operand`, `tcg_out_zori32`, `tcg_out_mov`);
- the relocation functions (`reloc_pc14/24`, `patch_reloc`);
- the register constraints (`target_parse_constraint`, `tcg_target_op_def`);
- the call-clobber and reserved sets (`tcg_target_init`);
- TB linking (`goto_tb`, `tb_target_set_jmp_target`);
- instruction-cache maintenance (`flush_icache_range`);
- the prologue and epilogue;
- vector lowering.

The m68k helpers are called from code generated for an m68k guest:
- the status register and stack-pointer banking (`cpu_m68k_set_sr`, `m68k_switch_sp`, `movec`);
- the MAC unit;
- the MMU walk.

The i386 `reg_read`/`reg_write`/`reg_reset` functions are unicorn's API to the guest register file.

### Inventory: state, operations, hard behaviours, properties

| Component | State | Operations | What is hard | Properties |
|---|---|---|---|---|
| Guarded memory access (TLB compare) | address register, access size `s`, alignment `a`, comparator of the indexed slot, build widths | `tcg_out_tlb_read` (index, mask, ADDI crossing trick, rlwinm/rldicl/rldicr, cmp/cmplw/crand) | page-crossing unaligned accesses; 32-bit guest with junk high bits on a 64-bit host; flags in the comparator; another page of the same slot | FastPathExact |
| Guarded memory access (two passes plus execution) | code buffer, slow-path labels, registers, LR, CR7, TLB, guest memory | `tcg_out_qemu_ld/st`, `add_qemu_ldst_label`, `tcg_out_qemu_ld/st_slow_path`, `exit_tb`; run: TLB read, branch, fast access, stub, helper | interleaving of the fast path, the slow path and TLB refills across executions; clobbered argument registers; LR as the return address; resume address | ResumeContract, SlowPathCallArgs, OpCompletes; GenerationSucceeds is violated (see Further disagreements) |
| Label and relocation manager | the displacement fields of branches | `patch_reloc`, `reloc_pc14/24`, `tcg_out_bc`, `tcg_out_b` | REL14 reach; silent truncation in `reloc_pc14_val` | GenerationSucceeds (see Further disagreements); Labels module planned |
| Register and constraint model | constraint sets, reserved and clobbered registers | `target_parse_constraint`, `tcg_target_op_def`, `tcg_target_init` | a constraint that lets an operand land in a register the sequence clobbers | through SlowPathCallArgs and ResumeContract: with R3 and R4 allocatable, dropping R3 from `L` is caught |
| Constant materializer | a register and the emitted sequence | `tcg_out_movi_int`, `tcg_out_movi_one` | 16/32/64-bit boundaries, sign extension, TB-relative and pool forms | LoweringExact (op movi) |
| Op lowering | the operand registers, R0, TMP1, CA and the emitted sequence | `tcg_out_op` for and/andc/or/orc/xor/eqv, deposit, extract, bswap16/32/64, add2, sub2 | runs of ones and immediate halves; masks at the full width; an output that shares a register with an input still to be read | LoweringExact |
| TB linking | the 8-byte jump pair | `goto_tb`, `tb_target_set_jmp_target` | the patched pair fetched by another thread between the store and the flush; alignment of the pair (not modelled); ADDI+B versus ADDIS+ADDI (not modelled) | FetchCoherent (CacheFlush) |
| Icache flush | cache line sizes | `tcg_target_init`, `flush_icache_range` | swapped sizes; the icbi loop starts at the dcache-aligned address | FetchCoherent (CacheFlush); violated with unequal line sizes (run `cache_flush_mixed_lines`) |
| Vector lowering | none (pure) | `expand_vec_cmp`, `expand_vec_mul` | swap and invert of conditions | planned |
| m68k SR and stack banks | SR, A7, `sp[3]`, `current_sp`, CACR | `m68k_switch_sp`, `cpu_m68k_set_sr`, `movec` to/from | A7 caches the active bank; a `movec` to the active bank is lost | StackMatchesMode, Refines (refinement of BankedStack); violated when the active bank is moved |
| m68k condition codes | `cc_op`, `cc_x`, `cc_n`, `cc_z`, `cc_v`, `cc_c` | `COMPUTE_CCR`, `cpu_m68k_get_ccr`, `cpu_m68k_set_ccr`, `flush_flags` | lazy flags decoded per operation and size; sign and carry boundaries | CcrExact |
| m68k MAC | `macc[4]`, `macsr` | `set_macsr`, `mac_move`, `macmul*`, `macsat*`, `mac_set_flags`, `set_mac_ext*` (with `get_mac_ext*`, `get_macs` and `get_macf` as reads) | the mode re-encoding reads the old mode; saturation bounds and their sign; extension bytes split over two accumulators | ExtRoundTrip, SatNormalizes; ModeSwitchKeepsFields, SatKeepsSign, GetMacsSaturates and GetMacfSaturates are violated by code bugs (see Further disagreements) |
| m68k MMU (68040) | TC, URP, SRP, the four TTRs, MMUSR, SSW, AR, the descriptor tables, QEMU's TLB | `check_TTR`, `get_physical_address`, `m68k_cpu_tlb_fill`, `HELPER(ptest)`, `HELPER(pflush)`, `m68k_cpu_get_phys_page_debug`, `movec` to TC/MMUSR/SRP/URP/TTRs | early returns of a three-level walk; U/M history written before the WP and S checks; indirect page descriptors; 8K pages; TTRs tried before the tables; QEMU's TLB keeping what a walk granted | TranslateExact, AtcHistory; DirtyBeforeWritable, HistoryOnly, TlbCoherent (PTEST with TC.E clear) and DebugPageExact are violated (see Further disagreements) |
| i386 register API | `env->regs`, `env->eip`, CS selector and base | `reg_read`, `reg_write`, `reg_reset`, `x86_set_pc`, `x86_get_pc` | about 200 near-identical cases of sub-register views; 16-bit mode falling through to the 32-bit cases; the CS selector read as `int16_t` | GprViews (refinement of X86RegFile); PcReported (X86Pc.cfg, passes, not a run); SetPcStartsAtBegin violated |

## 2. Plan

The modules, most important behaviour first:

1. `PpcInsn` (done) holds the ISA semantics of rlwinm, rldicl, rldicr and addi, with widths as parameters.
2. `TlbCompare` (done) is the fast-path gate. It instances `PpcInsn`.
3. `LdstCodegen` (done) covers the two passes and the execution of a block. Its abstract TLB hit (`tlb[a]`) is the exact gate that `TlbCompare` checks.
4. `SlowPathArgs` (next) covers the register moves of the slow paths for 32-bit hosts: the datahi/addrhi pairs and `TCG_TARGET_CALL_ALIGN_ARGS`, under the `L`/`S` constraints.
5. `Labels` holds the generic label and relocation state machine (spec-modelled), with `tcg_out_bc`, `tcg_out_b` and `reloc_pc14_val` from the source. It gets an abstract specification of label patch completeness and a refinement check.
6. `MovI` (done) covers `tcg_out_movi_int` on scaled widths, checked against the constant it must produce.
7. `CacheFlush` (done) covers `flush_icache_range` with the sizes `tcg_target_init` stores.
8. `M68kStack` (done) covers the m68k SR, A7 and `movec`. It refines `BankedStack`, an abstract specification in which the active stack pointer is A7 itself.
9. `X86Regs` and `X86Pc` (done) cover the i386 register API: the GPR views against an abstract byte-view register file, and the PC with CS.
10. `M68kMac` (done) covers the ColdFire MAC unit, and `M68kCcr` (done) the lazy condition codes.
11. `PpcOps` (done) covers single ops of `tcg_out_op` executed on the host, `tcg_out_movi` among them.
12. `M68kMmu` (done) covers the 68040 MMU: the table walk, the TLB fill, PTEST, PFLUSH and the debug translation.
13. `Relink` and `VecCmp` come as the remaining sittings allow.

## 3. Modules and how they correspond to the code

### PpcInsn
Operators for what the rotate-and-mask and add-immediate instructions compute, on a register of `h` bits with a word of `w` bits, with IBM bit numbering:
- `RLWINM` (`tcg_out_rlw`): the rotated word, replicated on a 64-bit host;
- `RLDICL`, `RLDICR` (`tcg_out_rld`);
- `ADDI`.

Widths are parameters so that TLC can run the 64/32-bit formulas on 10/5-bit registers.

### TlbCompare
- `TlbCompareValue` is line-for-line the masking part of `tcg_out_tlb_read`, for both host widths and both guest widths.
- `TlbHit` is the compare that follows: a full compare; `cmplw` on the low word for a 32-bit guest on a 64-bit host; and two word compares plus `crand` for a 64-bit guest on a 32-bit host.
- `Comparators` gives what the indexed slot can hold: every page that indexes the same slot (`TlbIndex`), with or without a TLB flag bit, and the flushed value -1.
- A behaviour is one access: Init chooses the build, address, junk high word, size, alignment and comparator, and `Branch` takes the generated branch.

### LdstCodegen
The code buffer is a sequence of abstract entries, one per instruction that matters to control or data flow:
- `setup`, the register allocator's placement of the operands;
- `tlb`, the whole `tcg_out_tlb_read` sequence;
- `bcl`;
- `ldx`/`stx`;
- `mov`, `movi`, `mflr`, `call`, `b`;
- `nop` for padding;
- `exit`.

Main pass:
- `GenOp` is the `tcg_out_op` cases for `qemu_ld/st`. It calls `QemuLd` or `QemuSt`, which emit through `GuardedAccess`, the shared body of `tcg_out_qemu_ld/st` together with `add_qemu_ldst_label`. `OtherOp` is any other op, as padding.
- `GenExit` is `exit_tb`.

Finalize pass:
- `SlowPath` is one iteration of `tcg_out_ldst_finalize`. It contains the patch (`PatchFits`, i.e. `patch_reloc`) and the stub: `LdSlowPathStub` or `StSlowPathStub`.
- `Finish` ends generation.

Execution:
- `Step` runs one entry:
  - `TlbRead` gives the register effects of the TLB sequence: R3 and R4 are loaded before addrlo is read, R3 ends as the addend, R4 as the zero-extended address, and R0 and TMP1 are clobbered;
  - `CallHelper` is the softmmu helper;
  - `ExitTb` returns to `cpu_exec`, where TLB entries may be evicted, and runs the block again.
- The block is entered and left through the ELFv2 prologue and epilogue of `tcg_target_qemu_prologue`:
  - `Prologue` (lines 2321-2352) pushes the frame with the back chain, saves the callee-saved registers and LR at the slots `CallFrame` computes, sets AREG0 (R27) to env and jumps to the block;
  - `ExitTb` is the epilogue (lines 2354-2363): it reloads LR and the saved registers from the frame, pops it and returns to `cpu_exec` (phase `host`);
  - `CallHelper` stores its return address in the frame's link area (`AbiLrSave`), as the callee does under the ABI;
  - `sp` and `stack` are R1 and the words of the frame and of `cpu_exec`'s frame; R14 and R27 stand for the 18 callee-saved registers (R14 is allocatable, R27 is AREG0).
- `regs` ranges over the registers the sequence touches:
  - `R0`, `R12` (TMP1) and `R27` (AREG0), which `tcg_target_init` reserves;
  - the allocatable `R3`, `R4`, `R5`, `R6`, `R7`, `R14`. The `L`/`S` constraints keep R3-R5 (and R6 for a store) out of address and store operands, while a load's `r` output may be R3 or R4.
- `lr` and `creq` are LR and CR7[EQ].
- `accesses` logs the guest addresses the current op has touched. `"wild"` marks a host access through a wrong addend, or a helper call with a wrong address.

### CallFrame
Constant operators for the frame of `tcg_target_qemu_prologue` and the DWARF debug frame of `tcg_register_jit`, for each ABI of the `#if` chain at lines 2283-2307 (AIX, ELFv2, SysV 32-bit, Darwin):
- `AbiTable`, `SZR`, `LINK_AREA_SIZE`, `LR_OFFSET`, `TCG_TARGET_CALL_STACK_OFFSET`, `tcg_target_callee_save_regs`, `FRAME_SIZE`, `REG_SAVE_BOT` are the macros and the table;
- `TempBuf` is the spill area given to `tcg_set_frame`; `PrologueSlot`/`EpilogueSlot` and their LR forms are the offsets of the prologue's stores and the epilogue's loads;
- `CieDataAlign`, `FdeDefCfa`, `LrFactored`, `FdeRegOfs` and `FdeRegOfsPair` are the bytes of `debug_frame` and of the loop in `tcg_register_jit`.
`Unwind` is a reference: a small DWARF CFA interpreter (uleb128/sleb128 decoders, `DW_CFA_def_cfa`, `DW_CFA_offset`, `DW_CFA_offset_extended_sf`) that reads those bytes back the way a debugger does. `LdstCodegen` extends it and uses the ELFv2 values.

### MovI
`MoviInt` is `tcg_out_movi_int`: one `IF ... ELSE IF` arm per early return, in the code's order. `MoviOne` is `tcg_out_movi_one`, and `MemLongAddi` is the ADDI form of `tcg_out_mem_long` that loads a TB-relative address. Each operator returns a sequence of instruction records.
- The immediates are truncated to 16 bits as TAI/SAI encode them (`Imm`).
- `Uint32Form` is the condition of the addi+oris arm.
- `PoolLoad` is the `ld` from the constant pool. Its relocation is abstracted: the entry holds the constant.

`Run` executes a sequence with the ISA's meaning. addi/addis read RA = R0 as zero, and addis and addi sign-extend their immediates. Widths are scaled: 16/8/4 bits stand for 64/32/16. Every constant of the code is written in terms of them.

A behaviour is one `tcg_out_movi` call. Init chooses:
- the host width and the type;
- `ret`: R0, which makes `tcg_out_mem_long` use TMP1, or another GPR;
- the constant;
- the TB start;
- the junk in the other registers.

`Emit` generates the sequence and runs it. This state machine is used only by `MovI_wide.cfg` (see Further disagreements); the constant loads are checked by the `ppc_op_lowering` run of `PpcOps`, whose `MoviOp` calls the same `MoviInt`.

The last arm (the high word, shift, oris, ori) cannot be reached in this build: every caller passes `in_prologue = false`, and a 64-bit host always falls back to the pool. The model keeps the arm but never takes it.

### PpcOps
`PpcOps` extends `MovI` and models one op of `tcg_out_op` (or a `tcg_out_movi` call) at a time. Each handler is an operator that returns the instruction records the code emits:
- `LogicCode` is the and, andc, or, orc, xor and eqv cases. With a constant it calls `tcg_out_andi32`, `tcg_out_andi64` or `tcg_out_zori32`; with a register it emits the X-form insn.
- `mask_operand` and `mask64_operand` return whether a constant is a run of ones, with its MB and ME. `HighHalf` is the andis. test.
- `DepositCode`, `ExtractCode`, `Bswap16Code`, `Bswap32Code`, `Bswap64Code` (with `Word3`, gcc's three-insn bswap32), `Add2Code` and `Sub2Code` are the other cases. `Mov` is `tcg_out_mov` between GPRs.
- `ConstsFor`, `SImm` and `ZM` are the constants the constraints of `tcg_target_op_def` let through (`ri`, `rU`, `rI`, `rZ`, `rZM`).

`OpExec` gives each insn its ISA meaning on an h-bit host. It adds the logical ops, andi./andis., xori/xoris, rlwinm/rlwimi, rldimi and the carrying adds and subtracts (`CarryExec`, with CA) to MovI's `ExecInsn`.

A behaviour is one op. `OpsInit` chooses the host width, the TB start and the junk in the other registers. One action per handler (`MoviOp`, `LogicOp`, `DepositOp`, `ExtractOp`, `BswapOp`, `DoubleOp` for add2 and sub2) then:
- loads the operand registers R3-R5 with values;
- chooses the registers and constants of the op, with every aliasing the constraints allow (an output may share a register with an input);
- emits the sequence and runs it (`Lower`).

`want` records the result the TCG op defines, computed from the input values directly: bitwise operations, `(a & ~m) | ((b << ofs) & m)`, a shift and mask, byte reversal, and double-word addition or subtraction by halves.

The inputs follow what reaches the backend. or/xor with 0 and orc/eqv with -1 are turned into moves by `tcg/optimize.c`. extract_i32 with ofs = 0 becomes an andi in `tcg/tcg-op.c`. bswap16 (and bswap32_i64) are defined only for inputs whose high bytes are zero. None of these files is in this repository.

### CacheFlush
Memory is a run of instruction words with three views:
- `code`: what the writers stored, as the data cache sees it;
- `mem`: what has reached memory;
- `icache`: what instruction fetch holds.

`dline` and `iline` are the host's true block sizes. `dsize` and `isize` are the statics of `tcg-target.inc.c`.

The actions map to the code as follows:
- `TargetInit` is the two auxv reads of `tcg_target_init`.
- `FlushedMem` and `FlushedIcache` are the dcbst and icbi loops of `flush_icache_range`, with the code's `start1`, rounding and strides.
- `GenCode` is `tcg_gen_code` writing a block and flushing it. It is spec-modelled, since `tcg.c` is outside `src/`.
- `SetJmpStore` and `SetJmpFlush` are the two steps of `tb_target_set_jmp_target`: the atomic store of the new pair (one word on a 32-bit host), then its flush. Other threads can act between them.
- `Fetch`, `WriteBack` and `IcacheEvict` are the environment: other vCPU threads filling instruction blocks from memory, and the caches evicting.

### X86Macros, X86RegFile, X86Regs and X86Pc
`src/qemu/target/i386/unicorn.c` is Unicorn's x86 register API. `reg_read` and `reg_write` are one `switch (regid)` for the mode-independent registers, then a `switch (mode)`. In that switch `UC_MODE_16` handles a few segment registers and falls through to `UC_MODE_32`; `UC_MODE_64` has its own cases. Each case checks the size of the caller's value (`CHECK_REG_TYPE`) and copies between it and one field of `CPUX86State` through a `READ_*`/`WRITE_*` macro.

Widths are scaled: a byte is `ByteBits` bits, so a register is 8 bytes of 1 or 2 bits. Every relation between the views (AL is byte 0, AH byte 1, AX bytes 0-1, EAX 0-3, RAX 0-7) is kept.

- **X86Macros** gives the `READ_*`/`WRITE_*` macros (`Store`, `Load`) as their names and uses say. They are defined in `uc_priv.h`, which is not in this tree, and are marked `spec_modelled`.
- **X86RegFile** is the abstract specification. Each register is a row of bytes: 4 of them outside 64-bit mode, 8 in it. A name is a pair <<family, view>>, e.g. <<"A", "H">> for AH. The architecture says which names exist in each mode:
  - AH..DH only for the legacy four;
  - SPL..DIL and R8..R15 only in 64-bit mode.

  `Write(n, x)` makes the view hold x and keeps every other byte. `ReadResult(n)` is what a read returns. The call being made, `call`, is a variable of both modules, so the abstract step knows which name was written. Otherwise a zero-extending EAX write would pass for a RAX write.
- **X86Regs** is the implementation. Each group of cases is a table from name to macro:
  - `Write32Gpr` and `Read32Gpr` for the 32-bit EAX..DI cases;
  - `Write64Legacy` and `Read64Legacy` for the 64-bit RAX..DIL cases;
  - `Write64Ext` and `Read64Ext` for R8..R15B.

  The tables index `env->regs` by `Idx` (R_EAX = 0, R_ECX = 1, ...). `WriteTable(mode)` is the mode switch, including the fall-through. `RegWriteGpr` applies the table or returns `UC_ERR_ARG`. `reg_read` changes no state, so `RegReadGpr` is an operator, compared with the abstract read in every state. The refinement mapping `RegBytes` cuts `env->regs[i]` into the bytes the mode shows.
- **X86Pc** covers `env->eip` and the CS selector and base:
  - `RegWritePc` for the RIP/EIP/IP cases: outside 64-bit mode IP is assigned; in it, IP is merged by `WRITE_WORD`.
  - `RegWriteCs`: in 16-bit mode the 32-bit case loads selector and base = selector << 4, which is `cpu_x86_load_seg` in real mode (CR0 is zero after `reg_reset`). In 64-bit mode only the selector is stored. In 32-bit protected mode the load checks a GDT descriptor; this is not modelled, so the action is disabled there.
  - `SetPc` is `x86_set_pc` and `GetPc` is `x86_get_pc`.
  - The CPU fetches from `FetchAddr` = cs_base + eip.

### M68kMac

`M68kMac` is the ColdFire MAC/EMAC unit of `target/m68k/helper.c`. `macc` is `env->macc[]`, held as unsigned 64-bit patterns. `macsr` is the set of bits of `env->macsr` that are on: the modes FI, SU, RT and OMC, and the flags V, Z, N, EV and PAV0..PAV3.

The layout of an accumulator depends on the mode:
- in fractional mode (FI), bits 8..39 are the accumulator and bits 0..7 the low extension byte;
- in the integer modes, bits 0..31 are the accumulator and bits 32..39 the low extension byte;
- in both, bits 40..47 are the high extension byte.

`Decode` and `Encode` are the two halves of the loop of `set_macsr`. They translate this layout.

Each helper that changes state is an action with the helper's name:
- `SetMacsr`, `MacMove`;
- `MacMuls` and `MacMulu`, which set V;
- `Macsats`, `Macsatu` and `Macsatf`;
- `MacSetFlags`;
- `SetMacExtf`, `SetMacExts` and `SetMacExtu`.

Some helpers only return a value, so they are operators, like a register read:
- the products that `macmuls`, `macmulu` and `macmulf` hand to generated code (`MulsResult`, `MuluResult`, `MulfResult`);
- `GetMacExtf`, `GetMacExti` and `GetMacs`.

The accumulate (`macc += product`) is code that `translate.c` generates, and that file is not in this repository. The initial states therefore include accumulators the accumulate can leave: normal 48-bit values, and sums that have overflowed 48 bits upward or downward and are waiting for a saturation helper.

### M68kCcr

`M68kCcr` covers the lazy condition codes of `target/m68k/helper.c`. The variables `cc_op` and `cc_x` .. `cc_c` are the `env` fields. `cc_op` is a record of the operation kind and the size index `op - CC_OP_ADDB`. `COMPUTE_CCR` is the macro, `EXTSIGN` its sign extension, and `GetCcr` is `cpu_m68k_get_ccr`. The actions `SetCcr` and `FlushFlags` are `cpu_m68k_set_ccr` and `flush_flags`.

The operations that leave lazy flags are code that `translate.c` generates, and that file is not in the repository. `Execute` stores what `COMPUTE_CCR` expects of each `cc_op`:
- for ADD and SUB, the sign-extended result, the sign-extended source, and the carry or borrow in X;
- for CMP, the two sign-extended operands;
- for LOGIC, the result.

`Execute` also records in the ghost variable `arch` the flags the architecture defines for the operation (`ArchFlags`).

### M68kMmu

`M68kMmu` covers the 68040 MMU of `target/m68k/helper.c`. Its variables are `env->mmu.tcr` (`tcr`, the E and P bits), `urp`, `srp`, `ttr` (by MOVEC name), `mmusr`, `ssw` and `ar`, the descriptor tables in guest memory (`mem`) and QEMU's TLB (`tlb`, one entry per mmu_idx, since the model's entries for one index would all be for the accessed pages).

Addresses are 4K page numbers of 4 bits: the root index, the pointer index and two bits of 4K page index (one of 8K page index). A descriptor is a record of the fields the walk reads (type, address, U, M, WP, S); a table slot is `<<table, index>>`, and a slot outside `DOMAIN mem` is a load that fails (`txfail`).

- `check_TTR` and `TTR` are the function and the macro; `get_physical_address` returns a record of the result, the permissions, the memory and MMUSR as the walk leaves them. `TableLevel` is one root or pointer level (load, valid, U, WP), `PageLevel` the page level (indirection, `History`, frame, WP, S), `Fail` the `return -1` and `txfail` exits.
- The actions are `tlb_fill` (`m68k_cpu_tlb_fill`, with its probe and fault paths, SSW and AR), `ptest`, `pflush` (opmodes 0 and 1, and 2 and 3, are the same calls), `get_phys_page_debug`, and `MovecToTC`, `MovecToMMUSR` (with 0), `MovecToRootPtr` and `MovecToTTR`.
- `ArchTranslate` is the reference: the translation the tables and TTRs define, read in one piece with no history bits and no early returns. The ghost `exact` records whether every fill and PTEST (`exact.fill`) and every debug translation (`exact.debug`) has agreed with it. A TLB entry carries two ghost fields: the access that made it, and `stale`, set when TC, SRP, URP or a TTR is written afterwards (the guest must then PFLUSH; the code flushes nothing).
- `MmuView` leaves MMUSR, SSW, AR and `exact.debug` out of the states TLC tells apart: no guard, walk or checked property reads them.


`BankedStack` is the architectural promise:
- one stack pointer per bank;
- a mode change only changes which bank A7 names;
- writes and reads by name act on that bank.

`M68kStack` is the code. `feature` is the CPU family. `srS`, `srM` and `cacrEusp` are the SR and CACR bits that select the bank. `a7`, `sp` and `current_sp` are `env->aregs[7]`, `env->sp[]` and `env->current_sp`.

The actions map to the code as follows:
- `SwitchSp` is `m68k_switch_sp`.
- `SetSR` is `cpu_m68k_set_sr`, which calls `SwitchSp`.
- `CfMovecToCACR` and `M68kMovecToCACR` are the CACR cases of the two movec helpers. Both end in a switch.
- `M68kMovecToSP` and `M68kMovecFromSP` are the USP/MSP/ISP cases.
- `WriteA7` is any guest instruction or API call that writes A7.

MOVEC is guarded by supervisor mode, as the translator emits it only there.

The refinement mapping (`Abstract`) makes a bank's architectural stack pointer equal to `a7` for the bank `current_sp` names, and `sp[b]` for every other bank. `Refines` is `Abstract!Spec`, checked as a temporal property.

## 4. Runs

| Run | Module / cfg | Checks | Shows |
|---|---|---|---|
| `tlb_compare` | MCTlbCompare / TlbCompare.cfg | FastPathExact | For every address, size ≤ 8 bytes, alignment, comparator of the slot, junk high word and each of the four builds, the branch takes the fast path exactly when the entry caches the page with no flag, the access stays in the page, and it is aligned as required. 2.67M states. |
| `ldst_pipeline` | MCLdstCodegen / LdstCodegen.cfg | ResumeContract, SlowPathCallArgs, FrameRestored, UnwindExact, FrameFits, OpCompletes | Blocks of one or two memory ops (with a non-memory op as padding), every register assignment the constraints allow, with or without a memory hook, with a 32- or 64-bit guest, executed repeatedly while the helper refills and `cpu_exec` evicts TLB entries. They satisfy three things: every op accesses its own address exactly once before its resume address, with the right value; the helper gets env, address, value, oi and an in-op return address; every op resumes. Entered through the prologue and left through the epilogue, with helper calls writing the frame's link area in between, the block hands `cpu_exec` back its stack pointer, LR, callee-saved registers and frame (FrameRestored). UnwindExact: for every ELF ABI the CFA program of the debug frame unwinds to exactly the prologue's slots, and on the live stack, at every step of the block, the unwinder finds `cpu_exec`'s CFA, LR and callee-saved registers. FrameFits: for every ABI the link area, outgoing arguments, spill area and save area are disjoint, in order, aligned and within STDU's displacement, and R1 stays 16-byte aligned. Their per-ABI halves are zero-arity constants of `CallFrame` (`DebugFrameAgrees`, `FrameLayoutFits`), which TLC evaluates once. About 167,000 distinct states. |
| `ppc_op_lowering` | MCPpcOps / PpcOps.cfg | LoweringExact | On both host widths, every constant `tcg_out_movi` loads; and/andc with every 32-bit constant and with runs of ones, immediate halves and other 64-bit constants; or/orc/xor/eqv with every constant that reaches them; deposit and extract at every offset and length; bswap16/32/64; add2 and sub2 with every register aliasing of outputs and inputs, "I" constants and 0/-1 high parts. After the emitted code runs, each output holds the op's result and every register but R0, TMP1 and CA, TB included, is unchanged. 1.8M states. |
| `cache_flush` | MCCacheFlush / CacheFlush.cfg | FetchCoherent | On hosts with equal data and instruction block sizes (8 or 16 bytes), after any sequence of code generations, re-links, fetches by other threads and evictions, every flushed word is in memory and any instruction-cache copy of it is current. 20.6K states. |
| `cache_flush_mixed_lines` | MCCacheFlush / CacheFlush_mixed.cfg | FetchCoherent (violated) | With a data block of 8 and an instruction block of 16 bytes (or the reverse), the swapped auxv reads of `tcg_target_init` make one flush loop stride over whole blocks: a code bug, see the finding. |
| `m68k_stack` | MCM68kStack / M68kStack.cfg | StackMatchesMode, Refines | On 680x0 and ColdFire, every sequence of SR writes, CACR writes, A7 writes and MOVECs of inactive banks implements BankedStack, and A7 always stands for the bank the mode selects. |
| `m68k_movec_active` | MCM68kStack / M68kStack_movec.cfg | Refines (violated) | A MOVEC of the active bank reads a stale `env->sp[]` (or writes a copy that the next switch overwrites): a code bug, see the finding. |
| `m68k_ccr` | MCM68kCcr / M68kCcr.cfg | CcrExact | Over every interleaving of byte, word and long ADD, SUB, CMP and logic operations on every byte value and the boundary values of the wider sizes, CCR writes of all 32 flag combinations, and flushes, `cpu_m68k_get_ccr` returns the flags of the last operation. 36K states. |
| `x86_gpr_views` | MCX86Regs / X86Regs.cfg | GprViews | In 16-, 32- and 64-bit mode, for the families A (with AH), SP (SPL in 64-bit mode only) and R8 (64-bit only), every sequence of writes of values 0, 1 and all-ones through every name implements X86RegFile. In every state, every name reads back what the abstract register file holds, and a name the mode lacks is refused. 51.5K states. |
| `x86_setpc_begin` | MCX86Pc / X86Pc_setpc.cfg | SetPcStartsAtBegin (violated) | In 16-bit mode with a CS selector whose top bit is set (0x8000 and up, scaled to 8 of a 4-bit selector), `x86_set_pc(begin)` makes the CPU fetch from begin + 0x100000 (scaled: 512 for 256). A code bug; see the finding. |
| `m68k_mmu` | MCM68kMmu / M68kMmu.cfg | TranslateExact, AtcHistory | Over any sequence of TLB fills (every access kind, both mmu_idx, probing or not), PTESTs with every DFC, debug translations, PFLUSHes and MOVECs to TC (4K and 8K pages), SRP and URP (each reloaded with its own table), DTT1 and MMUSR, every fill and PTEST returns exactly what the tables and the TTRs define, and every live TLB entry made from the tables has U set along its path and M set if a store made it. 10K states. |
| `m68k_mac` | MCM68kMac / M68kMac.cfg | ExtRoundTrip, SatNormalizes | Over every interleaving of the MAC helpers, mode writes and extension writes, starting from normal and overflowed accumulators: an extension word written by `set_mac_extf` is read back by `get_mac_extf`, and one written by `set_mac_exts`/`extu` by `get_mac_exti`, and the accumulator fields of the pair are untouched. After every saturation helper, the accumulator is a sign-extended (or, for `macsatu`, zero-extended) 48-bit value. 151K states. |

Each property of a passing run has a mutant in PROJECT.json, a plausible slip in the mapped code, and TLC finds the property violated under it:
- the crossing ADDI left out;
- the label recorded before the fast-path access;
- the argument register not advanced after the address;
- the branch patched one entry short of its stub;
- add2's low output not moved to R0 when it shares a register with a register sixth operand;
- the dcbst loop's end rounded down instead of up;
- `m68k_switch_sp` without the save of A7;
- a ColdFire CACR write without the stack switch;
- EAX..EDI in 64-bit mode zero-extended (assigned) instead of merged by `WRITE_DWORD`;
- a write-protected root or pointer descriptor that drops PAGE_WRITE but does not end a store walk;
- a store walk that sets U but not M;
- `set_mac_exts` shifting the high half of the word by 32 instead of 16;
- `macsatu` without OMC storing the sum unmasked;
- CMP's carry in `COMPUTE_CCR` taken from a signed comparison.

### Further disagreements

Ten more properties are stated in the modules and are violated under the configurations below. They are not among the runs of PROJECT.json, which keeps one run per question and holds the three violations above. Each one is reproduced with `tlc -config <cfg> <MC module>`:
- **`LdstCodegen_reloc.cfg`, `GenerationSucceeds`.** The reach of REL14 is made shorter than the distance from a branch to its stub. `tcg_out_qemu_ld_slow_path` (line 2016, and the store version at line 2064) then returns false from `patch_reloc`, and the block's generation fails. The spec (4.4, 7) says a relocation overflow is recovered transparently by re-emitting a longer form. Only the generic driver's retry with a smaller block recovers.
- **`MovI_wide.cfg`, `WideConstMultiInsn`.** On a 64-bit host `USE_REG_TB` is always true, so `tcg_out_movi_int` loads a wide constant with one `ld` from the constant pool (lines 895-899). The scaled image of the spec's 0x123456789abcdef0 is 0x1234 on a 16-bit host. Spec section 8 says this case emits the multi-instruction fallback.
- **`M68kMac_ModeSwitchKeepsFields.cfg`, `ModeSwitchKeepsFields`.** `set_macsr` decodes each accumulator under the old mode and then encodes it by testing `env->macsr` again (lines 180 and 183), not `val`. The re-encoding is therefore the identity apart from sign extension. After switching FI off, the accumulator and its low extension byte are read in each other's place. The loop runs only when FI or SU changes, which shows it was meant to lay the values out for the new mode.
- **`M68kMac_SatKeepsSign.cfg`, `SatKeepsSign`.** `macsats` chooses the bound from the sign of the sum truncated to 48 bits (line 700, and `macsatf` at line 742), not from the sign of the sum. A positive sum just past 2^47 therefore saturates to 0xffffffff80000000 under OMC.
- **`M68kMac_GetMacsSaturates.cfg`, `GetMacsSaturates`.** `get_macs` shifts a `uint64_t` right by 61 (line 926). A negative accumulator below the 32-bit range therefore reads as 0x7ffffff8, not 0x80000000.
- **`M68kMac_GetMacfSaturates.cfg`, `GetMacfSaturates`.** In fractional mode under OMC, `get_macf` saturates a value that does not fit 32 bits to `(val >> 63) & 0x7fffffff` (line 905). `val` is a `uint64_t` that has already been shifted right by 8, so bit 63 is always clear. An accumulator past the 32-bit range in either direction therefore reads as 0, not 0x7fffffff or 0x80000000. The 16-bit branch (line 899) xors the bit with 0x7fff; this branch does not.

- **`M68kMmu_dirty.cfg`, `DirtyBeforeWritable`.** A load walk of a page whose descriptor is neither write-protected nor modified installs the TLB entry with PAGE_WRITE (line 530). Later stores hit QEMU's TLB and never walk, so M is never set. The 68040 searches the tables again on the first write through an ATC entry whose M bit is clear, so a guest's page-out code sees the page as clean.
- **`M68kMmu_indirect.cfg`, `HistoryOnly`.** Through an indirect page descriptor, the U/M update is stored at `entry`, the indirect descriptor's own address, as the target descriptor with the bits set (lines 383-400). The indirect descriptor becomes a private copy of the shared page descriptor, and the shared descriptor's U and M are never set.
- **`M68kMmu_ptest.cfg`, `TlbCoherent`.** With TC.E clear, `HELPER(ptest)` still walks the tables and installs the result in QEMU's TLB (line 1024). Until the next flush, accesses to that page use the table translation while translation is disabled.
- **`M68kMmu_debug.cfg`, `DebugPageExact`.** With 8K pages, `m68k_cpu_get_phys_page_debug` returns the 8K-aligned frame (line 468). For an address in the upper 4K half, a caller that adds the offset inside the 4K page reads the lower half.

`X86Pc.cfg` checks `PcReported`, which holds: after any sequence of CS, RIP/EIP/IP writes and `set_pc` calls, in every mode, `x86_get_pc` equals cs_base + eip. It is kept beside the runs; the run slot went to the MMU.

### Bounds and why they are enough
- **TlbCompare.** The word is 5 bits and the double word 10. A page is 4 bits, access sizes go up to 2^3 bytes, there is one flag bit just under the page bits, and the TLB has 2 slots. This keeps every relation of the code:
  - the size is below the page;
  - the flags lie between the alignment bits and the page bits;
  - the index bits lie inside the guest word;
  - two pages share a slot.

  Every address, size, alignment and comparator is enumerated.
- **LdstCodegen.**
  - Two guest addresses, so a refill by one op can turn the other's next access into a hit.
  - Two values, so a store changes what a load sees.
  - Blocks of at most two ops. Two labels exercise the ordering of stubs and of patches; the register variety is enumerated on one-op blocks, where the interaction of operand registers with R3-R7 happens.
  - `CPU_TEMP_BUF_NLONGS` and `TCG_STATIC_CALL_ARGS_SIZE` are tcg.h's 128 and 128 bytes, the real sizes, so FrameFits and UnwindExact are about the frame the build has (FRAME_SIZE is 1328 on ELFv2, over the one-byte uleb128).
  - The frame is dynamic only for ELFv2, the host the TLB sequence models; the other ABIs differ only in the constants, which the two constant properties check for all four.
  - REL14 reach of 12 entries in the passing run, 4 in the violation run, so that a padded block overflows.

- **MovI.** A 16-bit register with 8-bit words and 4-bit immediates keeps the order of the code's ranges: int16 < int32 < uint32 < int64. Every constant is enumerated. The TB starts 2^14+64 and -(2^14+128) put constants within 16 bits and within 32 bits of TB on both signs, so the TB-relative arms and the 0x4000 split happen.
- **PpcOps.** MovI's widths; a bswap "byte" is 2 bits, so rotates by 8, 16 and 24 and the byte masks keep their positions. Every 8-bit constant is tried for the 32-bit logical ops; the 64-bit ones get every run of ones (either way round), constants in each immediate half and four of no special form. The two operand values (all ones, and 0x1b72 with eight distinct-in-order 2-bit bytes) expose a dropped mask bit, a lost half and a wrong byte order; with all ones against 0 and the "I" constants -8..7, add2 and sub2 carry and borrow in both words. Three GPRs are enough for every aliasing of two outputs and up to four inputs.
- **CacheFlush.** A 24-byte buffer (6 words) with 8- and 16-byte blocks: flush ranges start and end inside blocks, one block holds several words, and there are several blocks. Two word values distinguish the new code from the old. Both patch widths are enumerated.
- **X86Regs.** Bytes of 1 bit, so a register is 8 bits and AH and AL are distinct bits. Three families, one of each kind (legacy with AH, pointer with SPL, extended), cover every shape of table row. Values 0, 1 and all-ones of each type tell a merge from an assignment and a low byte from a high one. All three modes are enumerated.
- **X86Pc.** Bytes of 2 bits: a 4-bit selector and a 16-bit eip. The selectors 1 and 8 are one value below and one at the sign bit of the selector. The multiplier 16 is the code's.
- **M68kMac.** Bytes of 2 bits, so `macc` is 16 bits, an accumulator 8 and an extension byte 2. 1 << 50 and 1 << 53 become 2^13 and 2^14: they keep their order between 2^48 (2^12) and 2^63 (2^15), and 2^13 is still a multiple of 2^48. One pair, ACC0 and ACC1, is enumerated; every helper treats each accumulator and each pair alike, and `set_macsr` loops over them all the same way. There are two initial pairs: positive and negative normal values, and sums that overflowed up and down. One extension word has every byte distinct, a positive low half and a negative high half, so a byte put in the wrong place or sign-extended wrongly reads back differently. The MACSR values cover every mode: fractional, signed, unsigned, with and without OMC and RT.
- **M68kCcr.** A 6-bit `uint32_t` with 2-, 4- and 6-bit byte, word and long sizes. Long is the full word, as in the code, so `EXTSIGN` leaves it unchanged. Every byte operand is tried. For word and long, the operands are 0, 1, -1 and the two values on each side of the sign boundary; that is where V, N and the unsigned carry of sign-extended operands change.
- **M68kMmu.** Sixteen 4K pages give two root and two pointer indices and four page indices. The tables have a user root with an invalid entry, a supervisor root sharing a pointer table and reaching a second one through a write-protected descriptor, a pointer entry whose table is outside memory, and pages that are resident, supervisor-only, write-protected, invalid, indirect and at odd frames (which 8K pages round). The accessed pages 2 and 9 reach, under 4K and 8K pages, the indirect descriptor, the supervisor-only page, the write-protected pointer and page, and a plain page; page 9 lies in the DTT1 window (supervisor, write-protected). The walked root and pointer descriptors start with U set and the others clear, so the table-level U write still happens. QEMU's TLB holds one entry per mmu_idx. A MOVEC to SRP or URP reloads the register with its own table (a context switch within the two address spaces): it makes every TLB entry stale, and user and supervisor walks still start from different roots. Loading the other space's table into a root pointer would multiply the states by six; it would only walk the same descriptors under the other privilege, which the S and WP checks already see through both roots' shared pointer table.
- **M68kStack.** Two values distinguish a kept stack pointer from a lost one. Every SR/CACR combination and both CPU families are enumerated; the state space is complete (512 states).

## 5. Fairness
`LdstCodegen` assumes weak fairness of its next-state relation:
- generation, once started, runs to completion (it is a single call);
- the vCPU thread keeps executing generated code.

The TLB choices are free, so fairness does not force hits or misses. OpCompletes holds because every path from a branch reaches the op's resume address.

The m68k modules have no liveness property. Its steps are guest instructions, which may stop at any time.

## 6. Not modelled, and why
- **The generic TCG driver** (`tcg.c`: register allocation, label lists, `tcg_out_ldst_finalize`, the retry after a failed generation). It is outside `src/`. Its role is modelled from the spec (`SetupInsn`, `SlowPath`'s loop, `Finish`), marked `spec_modelled` in the map.
- **The softmmu helper and the page walk behind the ppc fast path.** An external collaborator (spec §6); the m68k guest's walk is modelled in `M68kMmu`, standalone. `CallHelper` does the access at the address it is given and may refill the TLB.
- **Byte-swapped and sign-extending accesses, sizes in LdstCodegen.** They change only the value, which the model abstracts. TlbCompare covers sizes and alignments.
- **32-bit host register pairs** in the slow paths. Planned as `SlowPathArgs`.
- **The other `tcg_out_op` cases**: setcond, brcond and movcond (with `tcg_out_cmp`), shifts and rotates, clz/ctz, mul/div, the extensions, loads and stores through `tcg_out_ld/st`, exit_tb, goto_tb and goto_ptr, nand/nor (register forms only, one insn each) and the vector ops. They are not modelled yet.
- **Encoding of instruction fields** (bit packing of SH, MB, ME, displacements). It is data layout, checked only through what the instruction computes.
- **The rest of the i386 register API**: FPU, SSE/AVX, control, debug and model-specific registers, descriptor tables, EFLAGS. Each case copies a value into one field; there is no interplay between them worth a state machine. Segment loads in 32-bit protected mode depend on a GDT in guest memory. The other 16-bit segment registers (`load_seg_16_helper`) are not used by the PC.
- **The m68k MAC accumulate and `get_macu`.** The accumulate is code that `translate.c` generates, and that file is not in this repository. `get_macu` is a plain clamp of the unsigned value, so no property would say more than its two lines.
- **Parts of the m68k MMU.** MOVEC from the MMU registers (lines 134-155) only reads them. The TLB keeps one entry per mmu_idx, not QEMU's sets and victim entries, so eviction is a refill of the same slot. The run writes only DTT1 (the TTR code is the same for all four), and its TC values all have E set: with E clear, PTEST breaks TLB coherence (see Further disagreements), and the identity branches of `tlb_fill` and the debug translation are exercised by `M68kMmu_ptest.cfg`. Bus errors from a failed table load are `Fail`, as the code raises no fault for them.
- **`tcg_out_call`'s register moves and argument marshaling.** The call site's branch forms (lines 1769-1812) differ only in how the target address reaches CTR; the arguments are placed by `tcg_reg_alloc_call` in `tcg.c`, not in this repository. `CallHelper` keeps what matters to the frame: the callee saves LR in the link area and preserves the callee-saved registers.
- **The AIX function descriptor** at the start of the prologue (lines 2326-2329) and the Darwin ABI at run time. They change how the prologue is entered, not the frame; their layout constants are checked by FrameFits.
- **Tests** (`tests/unit`). They drive the emulator; they are not a component.

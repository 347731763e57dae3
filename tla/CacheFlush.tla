----------------------------- MODULE CacheFlush -----------------------------
(***************************************************************************)
(* Instruction-cache maintenance of the PowerPC backend: the block sizes   *)
(* tcg_target_init reads from the auxiliary vector, and flush_icache_range *)
(* (tcg/ppc/tcg-target.inc.c), which must make code just written through   *)
(* the data cache visible to instruction fetch: dcbst over the range, sync, *)
(* icbi over the range, sync, isync.                                       *)
(*                                                                         *)
(* Memory is a run of instruction words (byte addresses, multiples of 4).  *)
(* code is what the writer stored (the data-cache view), mem what has      *)
(* reached memory, icache the copy instruction fetch holds, per word.  The *)
(* writers are code generation (tcg_gen_code, in tcg.c, spec-modelled)     *)
(* and tb_target_set_jmp_target; other vCPU threads fetch concurrently,    *)
(* and the hardware writes back data blocks and drops instruction blocks   *)
(* on its own.  The true block sizes, dline and iline, are the host's.     *)
(***************************************************************************)
EXTENDS Integers, FiniteSets

CONSTANTS
  MemSize,      \* bytes of code buffer modelled
  HostLines,    \* <<L1 data block, L1 instruction block>> pairs of the hosts
  Vals,         \* contents of a word, 0 the initial one
  Nil           \* an instruction-cache word holding nothing

Addrs == {4 * k : k \in 0 .. MemSize \div 4 - 1}

VARIABLES
  dline, iline,   \* the host's true block sizes (AT_DCACHEBSIZE, AT_ICACHEBSIZE)
  dsize, isize,   \* the statics of tcg-target.inc.c, 0 before tcg_target_init
  code, mem, icache,
  jmpWidth,       \* bytes tb_target_set_jmp_target stores: 8, or 4 on a 32-bit host
  pending         \* jmp_addr of a patch stored but not yet flushed

vars == <<dline, iline, dsize, isize, jmpWidth, code, mem, icache, pending>>

NoPatch == -1

(* The addresses of the block of size line holding address a.              *)
Block(a, line) == {x \in Addrs : x \div line = a \div line}

AlignDown(x, sz) == x - (x % sz)
AlignUp(x, sz)   == AlignDown(x + sz - 1, sz)

(* The addresses one loop of flush_icache_range visits: from start1 by     *)
(* step while below stop rounded up to step.                               *)
LoopPoints(start1, stop, step) ==
  {p \in start1 .. AlignUp(stop, step) - 1 : (p - start1) % step = 0}

(* Mutant: the dcbst loop's end rounded down, stop & ~(dsize - 1), so the  *)
(* block holding the last bytes of a range ending mid-block is skipped.    *)
FlushedMemNoRoundUp(c, m, start, stop) ==
  LET start1  == AlignDown(start, dsize)
      pts     == {p \in start1 .. AlignDown(stop, dsize) - 1 : (p - start1) % dsize = 0}
      cleaned == UNION {Block(p, dline) : p \in pts}
  IN  [a \in Addrs |-> IF a \in cleaned THEN c[a] ELSE m[a]]

(* flush_icache_range(start, stop), lines 3856-3875, applied to the data   *)
(* view c: the dcbst loop, strided by dsize from start & ~(dsize-1),       *)
(* writes back every data block it touches; after the sync the icbi loop,  *)
(* strided by isize, starts from that same start1 (the masking of start    *)
(* is assigned and never read) and invalidates the instruction blocks it   *)
(* touches.                                                                *)
FlushedMem(c, m, start, stop) ==
  LET start1  == AlignDown(start, dsize)
      cleaned == UNION {Block(p, dline) : p \in LoopPoints(start1, stop, dsize)}
  IN  [a \in Addrs |-> IF a \in cleaned THEN c[a] ELSE m[a]]

FlushedIcache(ic, start, stop) ==
  LET start1 == AlignDown(start, dsize)
      inval  == UNION {Block(p, iline) : p \in LoopPoints(start1, stop, isize)}
  IN  [a \in Addrs |-> IF a \in inval THEN Nil ELSE ic[a]]

Init ==
  /\ \E h \in HostLines : dline = h[1] /\ iline = h[2]
  /\ jmpWidth \in {4, 8}
  /\ dsize = 0 /\ isize = 0
  /\ code = [a \in Addrs |-> 0]
  /\ mem = code
  /\ icache = [a \in Addrs |-> Nil]
  /\ pending = NoPatch

(* tcg_target_init, lines 3707-3708: dsize is given AT_ICACHEBSIZE and     *)
(* isize AT_DCACHEBSIZE.  The rest of the function sets feature flags and  *)
(* register sets, which this module does not use.                         *)
TargetInit ==
  /\ dsize = 0
  /\ dsize' = iline
  /\ isize' = dline
  /\ UNCHANGED <<dline, iline, jmpWidth, code, mem, icache, pending>>

(* tcg_gen_code writes a block's code into [lo, hi) and ends with          *)
(* flush_icache_range(lo, hi) before the block is published.               *)
GenCode(lo, hi, v) ==
  LET c == [a \in Addrs |-> IF lo <= a /\ a < hi THEN v ELSE code[a]]
  IN  /\ dsize # 0
      /\ code' = c
      /\ mem' = FlushedMem(c, mem, lo, hi)
      /\ icache' = FlushedIcache(icache, lo, hi)
      /\ UNCHANGED <<dline, iline, dsize, isize, jmpWidth, pending>>

(* tb_target_set_jmp_target, lines 1728-1759 (and 1762-1764): the new      *)
(* ADDIS/ADDI or ADDI/B pair stored at an 8-byte aligned jmp_addr with one *)
(* atomic 64-bit store (a single B word on a 32-bit host).  The flush that *)
(* follows is the next step of the same thread.                           *)
SetJmpStore(jmp, v) ==
  /\ dsize # 0
  /\ pending = NoPatch
  /\ jmp % jmpWidth = 0
  /\ code' = [a \in Addrs |-> IF jmp <= a /\ a < jmp + jmpWidth THEN v ELSE code[a]]
  /\ pending' = jmp
  /\ UNCHANGED <<dline, iline, dsize, isize, jmpWidth, mem, icache>>

(* flush_icache_range(jmp_addr, jmp_addr + 8 or + 4), lines 1760, 1765.    *)
SetJmpFlush ==
  /\ pending # NoPatch
  /\ mem' = FlushedMem(code, mem, pending, pending + jmpWidth)
  /\ icache' = FlushedIcache(icache, pending, pending + jmpWidth)
  /\ pending' = NoPatch
  /\ UNCHANGED <<dline, iline, dsize, isize, jmpWidth, code>>

(* Another thread executes at a: a missing instruction block is filled    *)
(* from memory (not from the data cache).                                 *)
Fetch(a) ==
  /\ icache[a] = Nil
  /\ icache' = [x \in Addrs |-> IF x \in Block(a, iline) THEN mem[x] ELSE icache[x]]
  /\ UNCHANGED <<dline, iline, dsize, isize, jmpWidth, code, mem, pending>>

(* The hardware writes back a data block, or drops an instruction block.   *)
WriteBack(a) ==
  /\ mem' = [x \in Addrs |-> IF x \in Block(a, dline) THEN code[x] ELSE mem[x]]
  /\ UNCHANGED <<dline, iline, dsize, isize, jmpWidth, code, icache, pending>>

IcacheEvict(a) ==
  /\ icache' = [x \in Addrs |-> IF x \in Block(a, iline) THEN Nil ELSE icache[x]]
  /\ UNCHANGED <<dline, iline, dsize, isize, jmpWidth, code, mem, pending>>

Next ==
  \/ TargetInit
  \/ \E lo, hi \in Addrs \cup {MemSize}, v \in Vals : lo < hi /\ GenCode(lo, hi, v)
  \/ \E jmp \in Addrs, v \in Vals : SetJmpStore(jmp, v)
  \/ SetJmpFlush
  \/ \E a \in Addrs : Fetch(a) \/ WriteBack(a) \/ IcacheEvict(a)

Spec == Init /\ [][Next]_vars

TypeOK ==
  /\ dsize \in {0, iline} /\ isize \in {0, dline}
  /\ pending \in Addrs \cup {NoPatch}
  /\ code \in [Addrs -> Vals] /\ mem \in [Addrs -> Vals]
  /\ icache \in [Addrs -> Vals \cup {Nil}]

(* The words of a patch whose flush has not yet run.                       *)
Unflushed == IF pending = NoPatch THEN {}
             ELSE {a \in Addrs : pending <= a /\ a < pending + jmpWidth}

(* Instruction-cache coherence: once flush_icache_range has run over code  *)
(* that TCG or a re-link wrote, memory holds that code and any copy the    *)
(* instruction cache holds, or fetches later from memory, is that code.    *)
(* A dcbst stride longer than a data block, or an icbi stride longer than  *)
(* an instruction block, leaves a block unflushed that another thread may  *)
(* already have in its instruction cache.                                  *)
FetchCoherent ==
  \A a \in Addrs \ Unflushed :
    /\ mem[a] = code[a]
    /\ icache[a] \in {Nil, code[a]}

=============================================================================

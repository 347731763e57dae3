----------------------------- MODULE TlbCompare -----------------------------
(***************************************************************************)
(* The fast-path gate of a guarded guest memory access: the value that     *)
(* tcg_out_tlb_read (tcg/ppc/tcg-target.inc.c) leaves in R0 from the guest *)
(* address and compares, bit for bit, with the comparator of the software  *)
(* TLB entry (addr_read or addr_write) that the address indexes.  Equality *)
(* is the only condition under which the generated code skips the          *)
(* slow-path helper.                                                       *)
(*                                                                         *)
(* Widths are scaled (see PpcInsn): a "32-bit" word has WordBits bits, a   *)
(* "64-bit" value 2 * WordBits, a page PageBits.  The TLB flag bits        *)
(* (TLB_INVALID_MASK and its neighbours) sit just below the page bits and  *)
(* above every alignment bit, as in QEMU.  The build configuration (host   *)
(* register width TCG_TARGET_REG_BITS, guest TARGET_LONG_BITS) is chosen   *)
(* in Init, so one run covers every branch of the function.                *)
(***************************************************************************)
EXTENDS Integers

CONSTANTS
  WordBits,     \* scaled 32
  PageBits,     \* TARGET_PAGE_BITS (scaled)
  FlagBits,     \* bit numbers of the TLB flags in a comparator
  MaxSizeBits,  \* largest MO_SIZE of an access (MO_64 = 3)
  TlbBits       \* log2 of the number of TLB entries (tlb_mask)

LOCAL Insn == INSTANCE PpcInsn

DwordBits == 2 * WordBits

(* The builds: <<TCG_TARGET_REG_BITS, TARGET_LONG_BITS>>.                  *)
Builds == {<<h, l>> : h, l \in {WordBits, DwordBits}}

ASSUME PageBits < WordBits
ASSUME FlagBits \subseteq MaxSizeBits .. PageBits - 1
\* CPU_TLB_DYN_MIN_BITS > 0, and the index bits lie inside the guest word
\* (CPU_TLB_DYN_MAX_BITS <= 32 - TARGET_PAGE_BITS for 32-bit guests)
ASSUME TlbBits \in 1 .. WordBits - PageBits

Pow2(n) == 2 ^ n
Low(x, n) == x % Pow2(n)

(* The page part of a guest address.                                       *)
PageOf(x) == x - Low(x, PageBits)

(* The TLB slot the generated code reads, lines 1912-1919: the address    *)
(* register shifted right by PAGE_BITS - CPU_TLB_ENTRY_BITS and ANDed with *)
(* tlb_mask = (n_entries - 1) << CPU_TLB_ENTRY_BITS (the entry-size factor *)
(* is left out on both sides).                                             *)
TlbIndex(addrreg) == Low(addrreg \div Pow2(PageBits), TlbBits)

(* Mutant: the ADDI of s_mask - a_mask before masking left out, so an      *)
(* unaligned access that crosses into the next page still matches.         *)
TlbCompareValueNoCross(host, long, addrlo, s, a) ==
  IF host = WordBits
  THEN LET ab == IF a < s THEN s ELSE a
       IN  Insn!RLWINM(host, WordBits, addrlo, 0, (WordBits - ab) % WordBits,
                       WordBits - 1 - PageBits)
  ELSE CASE long = WordBits ->
              Insn!RLWINM(host, WordBits, addrlo, 0, (WordBits - a) % WordBits,
                          WordBits - 1 - PageBits)
         [] a = 0 -> Insn!RLDICR(host, addrlo, 0, host - 1 - PageBits)
         [] OTHER ->
              Insn!RLDICL(host,
                          Insn!RLDICL(host, addrlo, host - PageBits, PageBits - a),
                          PageBits, 0)

(* Value R0 receives from the address register addrlo (HostBits wide) for *)
(* an access of 2^s bytes that must be aligned to 2^a bytes, lines         *)
(* 1944-1977.                                                              *)
TlbCompareValue(host, long, addrlo, s, a) ==
  IF host = WordBits
  THEN \* 32-bit host: unaligned accesses are not supported on the fast path
       LET ab == IF a < s THEN s ELSE a
       IN  Insn!RLWINM(host, WordBits, addrlo, 0, (WordBits - ab) % WordBits,
                       WordBits - 1 - PageBits)
  ELSE LET t == IF a < s
                  THEN Insn!ADDI(host, addrlo, (Pow2(s) - 1) - (Pow2(a) - 1))
                  ELSE addrlo
       IN  CASE long = WordBits ->
                  Insn!RLWINM(host, WordBits, t, 0, (WordBits - a) % WordBits,
                              WordBits - 1 - PageBits)
             [] a = 0 ->
                  Insn!RLDICR(host, t, 0, host - 1 - PageBits)
             [] OTHER ->
                  Insn!RLDICL(host,
                              Insn!RLDICL(host, t, host - PageBits, PageBits - a),
                              PageBits, 0)

(* The branch condition CR7[EQ] after the compare(s), lines 1979-1986.     *)
(* addr is the guest address, hi the junk high word of its register on a   *)
(* 64-bit host running a 32-bit guest, cmp the comparator loaded from the  *)
(* TLB entry (TARGET_LONG_BITS wide).                                      *)
TlbHit(host, long, addr, hi, s, a, cmp) ==
  CASE host < long ->
         \* cmpw R0,TMP1 on the low words; cmpw addrhi,R4 on the high words;
         \* crand of the two EQ bits
         /\ TlbCompareValue(host, long, Low(addr, WordBits), s, a)
              = Low(cmp, WordBits)
         /\ addr \div Pow2(WordBits) = cmp \div Pow2(WordBits)
    [] long = WordBits ->
         \* cmplw: only the low word of R0 takes part
         Low(TlbCompareValue(host, long, hi * Pow2(WordBits) + addr, s, a),
             WordBits) = cmp
    [] OTHER ->
         TlbCompareValue(host, long, addr, s, a) = cmp

(***************************************************************************)
(* The state: one guarded access in one build, the TLB entry its address   *)
(* indexes, and the path the generated branch takes.  A behaviour is one   *)
(* access: the compare is evaluated once and control leaves the gate.      *)
(***************************************************************************)
VARIABLES build, addr, hi, sbits, abits, cmp, path

vars == <<build, addr, hi, sbits, abits, cmp, path>>

Addrs(long) == 0 .. Pow2(long) - 1
Junk(b)     == IF b[1] > b[2] THEN {0, 1} ELSE {0}

(* Comparators the entry in the address's slot can hold: any page that    *)
(* indexes that slot, with or without a flag set, or the flushed value -1. *)
Comparators(long, x) ==
  LET stride == Pow2(PageBits + TlbBits)
      pages  == {Low(PageOf(x) + k * stride, long) :
                   k \in 0 .. Pow2(long - PageBits - TlbBits) - 1}
  IN  {q + f : q \in pages, f \in {0} \cup {Pow2(b) : b \in FlagBits}}
        \cup {Pow2(long) - 1}

Init ==
  /\ build \in Builds
  /\ addr \in Addrs(build[2])
  /\ hi \in Junk(build)
  /\ sbits \in 0 .. MaxSizeBits
  /\ abits \in 0 .. sbits
  /\ cmp \in Comparators(build[2], addr)
  /\ path = "none"

(* The branch-and-link emitted right after tcg_out_tlb_read in            *)
(* tcg_out_qemu_ld/st (lines 2141-2146, 2220-2225, without hook_mem): to   *)
(* the slow path unless CR7[EQ].                                           *)
Branch ==
  /\ path = "none"
  /\ path' = IF TlbHit(build[1], build[2], addr, hi, sbits, abits, cmp)
               THEN "fast" ELSE "slow"
  /\ UNCHANGED <<build, addr, hi, sbits, abits, cmp>>

TypeOK ==
  /\ build \in Builds
  /\ addr \in Addrs(build[2])
  /\ hi \in {0, 1}
  /\ sbits \in 0 .. MaxSizeBits
  /\ abits \in 0 .. sbits
  /\ cmp \in Addrs(build[2])
  /\ path \in {"none", "fast", "slow"}

Next == Branch

Spec == Init /\ [][Next]_vars

(***************************************************************************)
(* Properties.                                                             *)
(***************************************************************************)

(* The access may be done directly on host memory: the entry caches the    *)
(* access's page with no flag set, the 2^s bytes stay inside that page,    *)
(* and the address has the alignment the memop asks for (all of its size   *)
(* on a 32-bit host, which has no unaligned fast path).                    *)
FastPathSafe(host, x, s, a, c) ==
  /\ c = PageOf(x)
  /\ Low(x, PageBits) + Pow2(s) <= Pow2(PageBits)
  /\ Low(x, IF host = WordBits THEN s ELSE a) = 0

(* Alignment-crossing detection of tcg_out_tlb_read: the generated compare *)
(* takes the fast path exactly when the direct host access is safe.  A hit *)
(* on a page-crossing, misaligned or flagged access would touch the wrong  *)
(* host page or skip an MMIO/dirty-tracking/hook callback; a miss on a     *)
(* safe one sends every such access through the helper.                    *)
FastPathExact ==
  path # "none" =>
    (path = "fast" <=> FastPathSafe(build[1], addr, sbits, abits, cmp))

=============================================================================

------------------------------- MODULE M68kMmu -------------------------------
(***************************************************************************)
(* The 68040 MMU of target/m68k/helper.c: get_physical_address and its    *)
(* callers m68k_cpu_tlb_fill, HELPER(ptest) and the debug translation,     *)
(* HELPER(pflush), and the MOVEC cases that load TC, MMUSR, SRP, URP and   *)
(* the four transparent translation registers.                             *)
(*                                                                         *)
(* Addresses are counted in 4K pages and scaled to four bits: bit 3 is    *)
(* the root index (address bits 31-25), bit 2 the pointer index (24-18),   *)
(* bits 1-0 the 4K page index (17-12); an 8K page index is bit 1 alone and *)
(* bit 0 lies inside the page.  A transparent translation register         *)
(* compares the top byte of the address, bits 3-2 here.  A descriptor is   *)
(* a record of the fields the walk reads; a table slot is <<table, index>>, *)
(* and a slot outside DOMAIN mem is one whose load fails (txfail).         *)
(***************************************************************************)
EXTENDS Integers, Bitwise, FiniteSets

CONSTANTS
  MemInit,      \* the descriptor tables the guest has built
  UrpInit,      \* the user root table the guest has loaded into URP
  SrpInit,      \* the supervisor root table in SRP
  RootVals,     \* RootVals[r]: the root tables MOVEC may load into SRP or URP
  TcVals,       \* the values of TC: the one at the start and those MOVEC writes
  TtrVals,      \* the values MOVEC may write to ITT0/1 and DTT0/1
  MovecTtrRegs, \* the transparent translation registers the guest writes
  AccessVAs,    \* the virtual pages accessed
  AccessSizes   \* the sizes tlb_fill is called with (1, 2 or 4)

TtrRegs == {"ITT0", "ITT1", "DTT0", "DTT1"}
Idx     == {"USER", "KERNEL"}                 \* MMU_USER_IDX, MMU_KERNEL_IDX
Miss    == [type |-> "miss"]                  \* no TLB entry
Off     == [enabled |-> FALSE, sfield |-> 0, base |-> 0, mask |-> 0, wp |-> FALSE]

VARIABLES
  tcr,     \* env->mmu.tcr: [enabled, page8k]
  urp,     \* env->mmu.urp
  srp,     \* env->mmu.srp
  ttr,     \* env->mmu.ttr[], by MOVEC name
  mem,     \* the descriptor tables in guest physical memory
  tlb,     \* QEMU's TLB, one entry per mmu_idx: [mmu_idx -> entry or Miss]
  mmusr,   \* env->mmu.mmusr: [t, r, wp, s, m, frame]
  ssw,     \* env->mmu.ssw
  ar,      \* env->mmu.ar
  exact    \* ghost: whether every translation so far (fill and PTEST, debug)
           \* returned what the tables define

mmuVars == <<tcr, urp, srp, ttr, mem, tlb, mmusr, ssw, ar, exact>>

MmusrZero == [t |-> FALSE, r |-> FALSE, wp |-> FALSE, s |-> FALSE, m |-> FALSE, frame |-> 0]
SswZero   == [atc |-> FALSE, size |-> 0, super |-> FALSE, code |-> FALSE, rw |-> FALSE]

RootIndex(va)    == va \div 8
PointerIndex(va) == (va \div 4) % 2
TopByte(va)      == va \div 4

(* env->mmu.TTR(access_type, i): the instruction or the data registers.    *)
TTR(at, i) == IF at.code THEN <<"ITT0", "ITT1">>[i + 1] ELSE <<"DTT0", "DTT1">>[i + 1]

(* check_TTR without its *prot output: enabled, the S field (0 user only, *)
(* 1 supervisor only, else both), and the top byte compared under the     *)
(* complement of the mask field.                                           *)
check_TTR(t, va, at) ==
  /\ t.enabled
  /\ CASE t.sfield = 0 -> ~at.super
       [] t.sfield = 1 -> at.super
       [] OTHER        -> TRUE
  /\ LET mask == t.mask ^^ 3
     IN  (TopByte(va) & mask) = (t.base & mask)

(* The page table slot: M68K_8K_PAGE_INDEX or M68K_4K_PAGE_INDEX.          *)
PageSlot(tbl, va, p8k) == <<tbl, IF p8k THEN (va % 4) \div 2 ELSE va % 4>>

(* A walk in progress: st is "walk", "ok" or "fail"; m and sr are memory  *)
(* and MMUSR as the walk has left them.                                    *)
Fail(w) == [w EXCEPT !.st = "fail"]

(* Mutant: a write-protected root or pointer descriptor drops PAGE_WRITE  *)
(* but lets a store go on to the page level.                               *)
TableLevelNoStoreFail(w, e, at) ==
  IF w.st # "walk" THEN w
  ELSE IF e \notin DOMAIN w.m THEN Fail(w)
  ELSE LET d  == w.m[e]
           m1 == IF ~d.u /\ ~at.debug THEN [w.m EXCEPT ![e] = [d EXCEPT !.u = TRUE]]
                                      ELSE w.m
       IN  IF d.type # "table" THEN Fail(w)
           ELSE IF ~d.wp THEN [w EXCEPT !.m = m1, !.next = d.addr]
           ELSE [w EXCEPT !.m = m1, !.next = d.addr,
                          !.sr = IF at.ptest THEN [@ EXCEPT !.wp = TRUE] ELSE @,
                          !.prot = @ \ {"W"}]

(* One root or pointer level: load the descriptor at slot e, fail unless  *)
(* it is valid, set its U bit unless debug, and on WP drop write           *)
(* permission (and fail a store).                                          *)
TableLevel(w, e, at) ==
  IF w.st # "walk" THEN w
  ELSE IF e \notin DOMAIN w.m THEN Fail(w)
  ELSE LET d  == w.m[e]
           m1 == IF ~d.u /\ ~at.debug THEN [w.m EXCEPT ![e] = [d EXCEPT !.u = TRUE]]
                                      ELSE w.m
       IN  IF d.type # "table" THEN Fail(w)
           ELSE IF ~d.wp THEN [w EXCEPT !.m = m1, !.next = d.addr]
           ELSE [w EXCEPT !.m = m1, !.next = d.addr,
                          !.sr = IF at.ptest THEN [@ EXCEPT !.wp = TRUE] ELSE @,
                          !.prot = @ \ {"W"},
                          !.st = IF at.store THEN "fail" ELSE "walk"]

(* Mutant: a store sets U only, as a load does.                           *)
HistoryNoModified(d, at) ==
  IF at.debug THEN d ELSE [d EXCEPT !.u = TRUE]

(* The history bits the page level leaves in page descriptor d: U, and M  *)
(* too for a store to a page that is not write-protected.                  *)
History(d, at) ==
  IF at.debug THEN d
  ELSE IF at.store /\ ~d.wp THEN [d EXCEPT !.u = TRUE, !.m = TRUE]
  ELSE [d EXCEPT !.u = TRUE]

(* The page level.  An indirect descriptor is followed, and the history   *)
(* bits are stored at the slot the walk loaded first (entry), as           *)
(* next | bits, where next is the descriptor the indirection reached.      *)
PageLevel(w, va, at, p8k) ==
  IF w.st # "walk" THEN w
  ELSE LET e == PageSlot(w.next, va, p8k)
       IN  IF e \notin DOMAIN w.m THEN Fail(w)
           ELSE IF w.m[e].type = "invalid" THEN Fail(w)
           ELSE IF w.m[e].type = "indirect" /\ w.m[e].addr \notin DOMAIN w.m THEN Fail(w)
           ELSE
             LET d     == IF w.m[e].type = "indirect" THEN w.m[w.m[e].addr] ELSE w.m[e]
                 h     == History(d, at)
                 m1    == IF h # d THEN [w.m EXCEPT ![e] = h] ELSE w.m
                 phys  == IF p8k THEN d.addr - (d.addr % 2) ELSE d.addr
                 sr1   == IF at.ptest
                          THEN [w.sr EXCEPT !.s = @ \/ d.s, !.m = @ \/ d.m, !.wp = @ \/ d.wp,
                                            !.frame = phys, !.r = TRUE]
                          ELSE w.sr
                 prot1 == IF d.wp THEN w.prot \ {"W"} ELSE w.prot
                 deny  == (d.wp /\ at.store) \/ (d.s /\ ~at.super)
             IN  [w EXCEPT !.m = m1, !.sr = sr1, !.prot = prot1, !.phys = phys,
                           !.st = IF deny THEN "fail" ELSE "ok"]

(* get_physical_address as the record [st, phys, prot, m, sr, p8k], with  *)
(* MMUSR sr0 on entry: the transparent translation registers first, then  *)
(* the root, pointer and page levels from SRP or URP.                      *)
get_physical_address(va, at, sr0) ==
  LET hits == {i \in {0, 1} : check_TTR(ttr[TTR(at, i)], va, at)}
  IN  IF hits # {}
      THEN LET t == ttr[TTR(at, IF 0 \in hits THEN 0 ELSE 1)]
           IN  [st |-> "ok", phys |-> va, p8k |-> FALSE, m |-> mem,
                prot |-> {"R", "X"} \cup (IF t.wp THEN {} ELSE {"W"}),
                sr |-> IF at.ptest THEN [MmusrZero EXCEPT !.t = TRUE, !.r = TRUE] ELSE sr0]
      ELSE LET w0 == [st |-> "walk", phys |-> 0, p8k |-> tcr.page8k, m |-> mem, sr |-> sr0,
                      next |-> IF at.super THEN srp ELSE urp,
                      prot |-> {"R", "W"} \cup (IF at.code THEN {"X"} ELSE {})]
               w1 == TableLevel(w0, <<w0.next, RootIndex(va)>>, at)
               w2 == TableLevel(w1, <<w1.next, PointerIndex(va)>>, at)
           IN  PageLevel(w2, va, at, tcr.page8k)

(***************************************************************************)
(* The reference: the translation the 68040 tables define for access at   *)
(* to the 4K page va, [ok, phys, prot], read off the current tables in one *)
(* piece, with no history bits and no early returns.                       *)
(***************************************************************************)
NoDesc == [type |-> "none", addr |-> 0, u |-> FALSE, m |-> FALSE, wp |-> FALSE, s |-> FALSE]
Desc(s) == IF s \in DOMAIN mem THEN mem[s] ELSE NoDesc

(* The descriptors the reference reaches for va: root, pointer and page   *)
(* (behind an indirect one).                                               *)
ArchPath(va, at) ==
  LET rd  == Desc(<<IF at.super THEN srp ELSE urp, RootIndex(va)>>)
      pd  == IF rd.type = "table" THEN Desc(<<rd.addr, PointerIndex(va)>>) ELSE NoDesc
      gd0 == IF pd.type = "table" THEN Desc(PageSlot(pd.addr, va, tcr.page8k)) ELSE NoDesc
  IN  <<rd, pd, IF gd0.type = "indirect" THEN Desc(gd0.addr) ELSE gd0>>

ArchTranslate(va, at) ==
  LET tt == {i \in {0, 1} : check_TTR(ttr[TTR(at, i)], va, at)}
      p  == ArchPath(va, at)
      wp == p[1].wp \/ p[2].wp \/ p[3].wp
  IN  CASE ~tcr.enabled ->
             [ok |-> TRUE, phys |-> va, prot |-> {"R", "W", "X"}]
        [] tt # {} ->
             [ok |-> TRUE, phys |-> va,
              prot |-> {"R", "X"} \cup (IF ttr[TTR(at, IF 0 \in tt THEN 0 ELSE 1)].wp
                                        THEN {} ELSE {"W"})]
        [] OTHER ->
             [ok   |-> p[3].type = "resident" /\ ~(at.store /\ wp) /\ (at.super \/ ~p[3].s),
              phys |-> IF tcr.page8k THEN p[3].addr - (p[3].addr % 2) + (va % 2) ELSE p[3].addr,
              prot |-> {"R"} \cup (IF wp THEN {} ELSE {"W"})
                             \cup (IF at.code THEN {"X"} ELSE {})]

Agrees(g, w) == g.ok = w.ok /\ (g.ok => g.phys = w.phys /\ g.prot = w.prot)

(* A TLB entry; at and stale are ghost fields: the access that filled it,  *)
(* and whether TC, SRP, URP or a TTR has been written since.               *)
Entry(va, phys, prot, at) ==
  [type |-> "hit", va |-> va, phys |-> phys, prot |-> prot, stale |-> FALSE,
   at |-> [code |-> at.code, store |-> at.store, super |-> at.super,
           debug |-> FALSE, ptest |-> FALSE]]

Result(w) == [ok |-> w.st = "ok", phys |-> w.phys, prot |-> w.prot]

(***************************************************************************)
(* The handlers.  MOVEC, PTEST and PFLUSH are privileged 68040             *)
(* instructions; the translator emits them in supervisor mode only.        *)
(***************************************************************************)
RootPtrs == {UrpInit, SrpInit} \cup RootVals["SRP"] \cup RootVals["URP"]

StaleAll == [i \in Idx |-> IF tlb[i].type = "hit" THEN [tlb[i] EXCEPT !.stale = TRUE]
                                                    ELSE tlb[i]]

(* HELPER(m68k_movec_to), cases TC, SRP, URP, ITT0/1 and DTT0/1: the       *)
(* register is stored, nothing else; no TLB flush.                         *)
MovecToTC(v) ==
  /\ tcr' = v /\ tlb' = StaleAll
  /\ UNCHANGED <<urp, srp, ttr, mem, mmusr, ssw, ar, exact>>

MovecToRootPtr(reg, v) ==
  /\ IF reg = "SRP" THEN srp' = v /\ UNCHANGED urp ELSE urp' = v /\ UNCHANGED srp
  /\ tlb' = StaleAll
  /\ UNCHANGED <<tcr, ttr, mem, mmusr, ssw, ar, exact>>

MovecToTTR(reg, v) ==
  /\ ttr' = [ttr EXCEPT ![reg] = v] /\ tlb' = StaleAll
  /\ UNCHANGED <<tcr, urp, srp, mem, mmusr, ssw, ar, exact>>

(* HELPER(m68k_movec_to), case MMUSR, with the value 0.                    *)
MovecToMMUSR ==
  /\ mmusr' = MmusrZero
  /\ UNCHANGED <<tcr, urp, srp, ttr, mem, tlb, ssw, ar, exact>>

(* m68k_cpu_tlb_fill for an access of qtype ("fetch", "load" or "store")  *)
(* and size to page va under mmu_idx idx.  With TC.E clear it maps va to   *)
(* itself; otherwise it walks, installs the entry with the offset of the  *)
(* 4K page inside a larger page added, or returns false to a probe, or     *)
(* records the fault in SSW and AR.                                        *)
tlb_fill(va, size, qtype, idx, probe) ==
  LET at   == [code |-> qtype = "fetch", store |-> qtype = "store",
               super |-> idx = "KERNEL", debug |-> FALSE, ptest |-> FALSE]
      w    == get_physical_address(va, at, mmusr)
      phys == w.phys + (IF w.p8k THEN va % 2 ELSE 0)
      want == ArchTranslate(va, at)
  IN  /\ IF ~tcr.enabled
         THEN /\ tlb' = [tlb EXCEPT ![idx] = Entry(va, va, {"R", "W", "X"}, at)]
              /\ exact' = [exact EXCEPT !.fill =
                              @ /\ Agrees([ok |-> TRUE, phys |-> va, prot |-> {"R", "W", "X"}], want)]
              /\ UNCHANGED <<mem, mmusr, ssw, ar>>
         ELSE /\ mem' = w.m /\ mmusr' = w.sr
              /\ exact' = [exact EXCEPT !.fill = @ /\ Agrees([Result(w) EXCEPT !.phys = phys], want)]
              /\ CASE w.st = "ok" ->
                        tlb' = [tlb EXCEPT ![idx] = Entry(va, phys, w.prot, at)] /\ UNCHANGED <<ssw, ar>>
                   [] probe -> UNCHANGED <<tlb, ssw, ar>>
                   [] OTHER ->
                        /\ ssw' = [atc |-> TRUE, size |-> IF size \in {1, 2, 4} THEN size ELSE 0,
                                   super |-> at.super, code |-> at.code, rw |-> ~at.store]
                        /\ ar' = va
                        /\ UNCHANGED tlb
      /\ UNCHANGED <<tcr, urp, srp, ttr>>

(* HELPER(ptest): the access type from DFC, MMUSR and SSW cleared, a walk *)
(* (TC.E is not consulted), and on success the entry installed under the   *)
(* mmu_idx DFC names.                                                      *)
ptest(va, isRead, dfc) ==
  LET at   == [code |-> (dfc & 3) = 2, store |-> ~isRead, super |-> (dfc & 4) # 0,
               debug |-> FALSE, ptest |-> TRUE]
      w    == get_physical_address(va, at, MmusrZero)
      phys == w.phys + (IF w.p8k THEN va % 2 ELSE 0)
      idx  == IF at.super THEN "KERNEL" ELSE "USER"
  IN  /\ mem' = w.m /\ mmusr' = w.sr /\ ssw' = SswZero
      /\ tlb' = IF w.st = "ok" THEN [tlb EXCEPT ![idx] = Entry(va, phys, w.prot, at)] ELSE tlb
      /\ exact' = [exact EXCEPT !.fill =
                      @ /\ Agrees([Result(w) EXCEPT !.phys = phys], ArchTranslate(va, at))]
      /\ UNCHANGED <<tcr, urp, srp, ttr, ar>>

(* HELPER(pflush): opmode 0 and 1 flush the page, 2 and 3 everything.     *)
pflush(va, opmode) ==
  /\ tlb' = [i \in Idx |-> IF opmode >= 2 \/ (tlb[i].type = "hit" /\ tlb[i].va = va)
                            THEN Miss ELSE tlb[i]]
  /\ UNCHANGED <<tcr, urp, srp, ttr, mem, mmusr, ssw, ar, exact>>

(* m68k_cpu_get_phys_page_debug: va itself with TC.E clear, else a debug  *)
(* data walk in the mode SR_S (s) selects; -1 on failure.  exact.debug    *)
(* records whether it returned the address of page va.                     *)
get_phys_page_debug(va, s) ==
  LET at   == [code |-> FALSE, store |-> FALSE, super |-> s, debug |-> TRUE, ptest |-> FALSE]
      w    == get_physical_address(va, at, mmusr)
      want == ArchTranslate(va, at)
  IN  /\ IF ~tcr.enabled
         THEN /\ exact' = [exact EXCEPT !.debug = @ /\ want.ok /\ want.phys = va]
              /\ UNCHANGED <<mem, mmusr>>
         ELSE /\ mem' = w.m /\ mmusr' = w.sr
              /\ exact' = [exact EXCEPT !.debug =
                              @ /\ (w.st = "ok") = want.ok /\ (want.ok => w.phys = want.phys)]
      /\ UNCHANGED <<tcr, urp, srp, ttr, tlb, ssw, ar>>

DfcVals == {1, 2, 5, 6}      \* user data, user program, supervisor data and program

MmuInit ==
  /\ tcr \in TcVals
  /\ urp = UrpInit /\ srp = SrpInit
  /\ ttr = [r \in TtrRegs |-> Off]
  /\ mem = MemInit
  /\ tlb = [i \in Idx |-> Miss]
  /\ mmusr = MmusrZero /\ ssw = SswZero /\ ar = 0
  /\ exact = [fill |-> TRUE, debug |-> TRUE]

MmuNext ==
  \/ \E v \in TcVals : MovecToTC(v)
  \/ \E reg \in {"SRP", "URP"} : \E v \in RootVals[reg] : MovecToRootPtr(reg, v)
  \/ \E reg \in MovecTtrRegs, v \in TtrVals : MovecToTTR(reg, v)
  \/ MovecToMMUSR
  \/ \E va \in AccessVAs, size \in AccessSizes, q \in {"fetch", "load", "store"},
        idx \in Idx, probe \in BOOLEAN : tlb_fill(va, size, q, idx, probe)
  \/ \E va \in AccessVAs, isRead \in BOOLEAN, dfc \in DfcVals : ptest(va, isRead, dfc)
  \/ \E va \in AccessVAs, opmode \in {1, 3} : pflush(va, opmode)   \* 0 is 1, 2 is 3
  \/ \E va \in AccessVAs, s \in BOOLEAN : get_phys_page_debug(va, s)

MmuSpec == MmuInit /\ [][MmuNext]_mmuVars

(* MMUSR, SSW, AR and exact.debug are written by the walks, faults and    *)
(* debug translations but read by no guard, no walk and no property        *)
(* checked with this view (MOVEC from them is a read of the CPU state), so *)
(* states that differ only in them are explored once.                      *)
MmuView == <<tcr, urp, srp, ttr, mem, tlb, exact.fill>>

MmuTypeOK ==
  /\ tcr \in TcVals
  /\ urp \in RootPtrs /\ srp \in RootPtrs
  /\ ttr \in [TtrRegs -> TtrVals \cup {Off}]
  /\ DOMAIN mem = DOMAIN MemInit
  /\ \A i \in Idx : tlb[i] = Miss \/ (tlb[i].type = "hit" /\ tlb[i].va \in AccessVAs)
  /\ ar \in {0} \cup AccessVAs
  /\ exact \in [fill : BOOLEAN, debug : BOOLEAN]

(***************************************************************************)
(* Properties.                                                             *)
(***************************************************************************)

ViaTables(va, at) ==
  tcr.enabled /\ {i \in {0, 1} : check_TTR(ttr[TTR(at, i)], va, at)} = {}

Live(i) == tlb[i].type = "hit" /\ ~tlb[i].stale

(* Every tlb_fill and PTEST installs, or refuses, exactly what the tables  *)
(* define for that access: the walk's early returns on invalid and        *)
(* write-protected levels, its choice of SRP or URP, the transparent       *)
(* translation registers, the supervisor-only bit, the 8K page index and   *)
(* the 4K offset tlb_fill adds inside an 8K page all have to agree.        *)
TranslateExact == exact.fill

(* QEMU's TLB stays coherent with the tables: every entry not made stale  *)
(* by a later write of TC, SRP, URP or a TTR (which the guest must follow  *)
(* with PFLUSH) is still the translation the current tables define, after *)
(* any number of walks of other pages and modes that set U and M bits or   *)
(* rewrite an indirect descriptor, and after PTESTs and PFLUSHes.          *)
TlbCoherent ==
  \A i \in Idx :
    Live(i) => LET a == ArchTranslate(tlb[i].va, tlb[i].at)
               IN  a.ok /\ a.phys = tlb[i].phys /\ a.prot = tlb[i].prot

(* A live entry the tables gave has its history recorded: every descriptor *)
(* on its path has U set, and its page descriptor has M set if a store     *)
(* filled it (the bits the guest's page-out code reads).                   *)
AtcHistory ==
  \A i \in Idx :
    Live(i) /\ ViaTables(tlb[i].va, tlb[i].at) =>
      LET p == ArchPath(tlb[i].va, tlb[i].at)
      IN  /\ p[1].u /\ p[2].u /\ p[3].u
          /\ tlb[i].at.store => p[3].m

(* A live entry that lets QEMU write the page without another walk        *)
(* (PAGE_WRITE) has M set in its page descriptor, as the 68040 guarantees  *)
(* by searching the tables again on the first write through an ATC entry   *)
(* whose M bit is clear.                                                   *)
DirtyBeforeWritable ==
  \A i \in Idx :
    Live(i) /\ ViaTables(tlb[i].va, tlb[i].at) /\ "W" \in tlb[i].prot =>
      ArchPath(tlb[i].va, tlb[i].at)[3].m

(* A walk changes the tables only by setting U and M bits: every          *)
(* descriptor keeps its type, address, WP and S, so the guest's indirect   *)
(* descriptors stay indirect and keep pointing at the shared descriptor.   *)
HistoryOnly ==
  \A s \in DOMAIN mem :
    [mem[s] EXCEPT !.u = FALSE, !.m = FALSE] = [MemInit[s] EXCEPT !.u = FALSE, !.m = FALSE]

(* get_phys_page_debug answers for the 4K page it is asked about: the     *)
(* debugger and uc memory reads add only the offset inside that 4K page.   *)
DebugPageExact == exact.debug

====

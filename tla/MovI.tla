-------------------------------- MODULE MovI --------------------------------
(***************************************************************************)
(* Constant materialisation of the PowerPC backend: the instruction        *)
(* sequence tcg_out_movi_int (tcg/ppc/tcg-target.inc.c) emits to load a    *)
(* constant into a register, and what that sequence computes when the      *)
(* host runs it.  The emitter is an operator returning a sequence of       *)
(* instruction records whose immediate fields are truncated the way TAI    *)
(* and SAI encode them; the interpreter gives each instruction its ISA     *)
(* meaning, RA = 0 reading as the literal zero for addi, addis and ld.     *)
(*                                                                         *)
(* Widths are scaled: DBits stands for 64, WBits for 32 and HBits for the  *)
(* 16-bit immediate field; every constant of the code (0x7fff, 0x8000,     *)
(* 0xffff, 0x4000, shifts by 16 and 32) is written in terms of them.       *)
(***************************************************************************)
EXTENDS Integers, Sequences, Bitwise

CONSTANTS
  DBits,        \* scaled 64: a tcg_target_long on a 64-bit host
  WBits,        \* scaled 32
  HBits,        \* scaled 16: the immediate field of a D-form insn
  CodeGenPtrs,  \* values s->code_gen_ptr (the TB's start) may have
  WideConst     \* a constant with no short form (scaled 0x123456789abcdef0)

LOCAL Insn == INSTANCE PpcInsn

ASSUME WBits = 2 * HBits /\ DBits = 2 * WBits /\ HBits >= 3

Pow2(n) == 2 ^ n
Trunc(x, n) == Insn!Trunc(x, n)
Signed(x, n) == Insn!Signed(x, n)

(* x == (intN_t)x for a signed x.                                          *)
Fits(x, n) == x = Signed(x, n)

(* The registers the emitted code names.  TCG_REG_TMP1 is R12 on the ELF   *)
(* v2 hosts, TCG_REG_TB is R31; R5 stands for any other allocatable GPR.   *)
Regs == {"R0", "R5", "R12", "R31"}
TMP1 == "R12"
TB   == "R31"

(* An encoded instruction; TAI and SAI keep the low 16 bits of the          *)
(* immediate.                                                              *)
Imm(x) == x % Pow2(HBits)
D(op, rt, ra, imm) == [op |-> op, rt |-> rt, ra |-> ra, imm |-> Imm(imm),
                       sh |-> 0, mb |-> 0]
Rld(op, ra, rs, sh, mb) == [op |-> op, rt |-> ra, ra |-> rs, imm |-> 0,
                            sh |-> sh, mb |-> mb]

(* clz64 and ctz64 on DBits bits.                                          *)
BitLen(u) == CHOOSE n \in 0 .. DBits : u < Pow2(n) /\ (n = 0 \/ u >= Pow2(n - 1))
Clz(x) == DBits - BitLen(Trunc(x, DBits))
Ctz(x) == CHOOSE k \in 0 .. DBits - 1 :
            x % Pow2(k) = 0 /\ x % Pow2(k + 1) # 0

(* tcg_out_shli64 and tcg_out_shri64: rldicr ra,rs,c,63-c and              *)
(* rldicl ra,rs,64-c,c.                                                    *)
ShliInsn(dst, src, c) == Rld("rldicr", dst, src, c, DBits - 1 - c)
ShriInsn(dst, src, c) == Rld("rldicl", dst, src, DBits - c, c)

(* tcg_out_movi_one: the one-insn forms, or <<>> when there is none.       *)
MoviOne(ret, arg) ==
  IF Fits(arg, HBits) THEN << D("addi", ret, "R0", arg) >>
  ELSE IF Fits(arg, WBits) /\ arg % Pow2(HBits) = 0
       THEN << D("addis", ret, "R0", arg \div Pow2(HBits)) >>
       ELSE << >>

(* tcg_out_mem_long(s, ADDI, ADD, rt, base, offset) for an offset that     *)
(* fits 32 bits: ADDI takes the default case (no alignment, rs = rt when   *)
(* rt is a GPR above R0, else TMP1), the high part goes in with addis,     *)
(* plus a second addis of 0x4000 when the high half would read negative   *)
(* for a positive offset, and the final addi is dropped when it would be   *)
(* a move of rt to itself.                                                 *)
MemLongAddi(rt, base, offset) ==
  LET rs    == IF rt # "R0" THEN rt ELSE TMP1
      l0    == Signed(offset, HBits)
      hi    == (offset - l0) \div Pow2(HBits)
      extra == Signed(hi, HBits) < 0 /\ offset >= 0
      l1    == IF extra THEN Signed(hi - Pow2(HBits - 2), HBits)
                        ELSE Signed(hi, HBits)
      base1 == IF l1 # 0 THEN rs ELSE base
      base2 == IF extra THEN rs ELSE base1
  IN  (IF l1 # 0 THEN << D("addis", rs, base, l1) >> ELSE << >>)
      \o (IF extra THEN << D("addis", rs, base1, Pow2(HBits - 2)) >> ELSE << >>)
      \o (IF base2 # rt \/ l0 # 0 THEN << D("addi", rt, base2, l0) >> ELSE << >>)

(* The condition of the addi + oris form, line 858: arg is a uint32 whose  *)
(* bit 15 is clear, so the addi of the low half does not sign-extend.      *)
Uint32Form(arg) == arg = Trunc(arg, WBits) /\ (arg \div Pow2(HBits - 1)) % 2 = 0

(* The constant pool load, lines 895-899: ld ret,0(TB), the displacement   *)
(* relocated to the pool entry that holds val (kept untruncated in imm).   *)
PoolLoad(ret, val) == [D("ld", ret, TB, 0) EXCEPT !.imm = val]

(* tcg_out_movi_int, lines 825-913: the strategies in the code's order,    *)
(* each an early return.  On a 64-bit host an I32 constant is first sign- *)
(* extended; TCG_REG_TB (USE_REG_TB, 64-bit hosts) holds code_gen_ptr, the *)
(* start of the TB being generated; the constant pool entry holds arg.     *)
RECURSIVE MoviInt(_, _, _, _, _, _)
MoviInt(host, type, ret, arg0, inPrologue, cgp) ==
  LET arg    == IF host = DBits /\ type = "I32" THEN Signed(arg0, WBits) ELSE arg0
      tbDiff == arg - cgp
      useTB  == host = DBits
      one    == MoviOne(ret, arg)
      mtmp   == arg | (Pow2(HBits - 1) - 1)
      cshift == IF arg # 0 THEN Ctz(arg) ELSE 0
      ctmp   == arg \div Pow2(cshift)
      lshift == Clz(arg)
      lone   == MoviOne(ret, Signed(arg * Pow2(lshift), DBits))
      high   == arg \div Pow2(WBits)
  IN
  IF one # << >> THEN one
  ELSE IF ~inPrologue /\ useTB /\ Fits(tbDiff, HBits)
       THEN << D("addi", ret, TB, tbDiff) >>
  ELSE IF host = WBits \/ Fits(arg, WBits)
       THEN << D("addis", ret, "R0", arg \div Pow2(HBits)), D("ori", ret, ret, arg) >>
  ELSE IF Uint32Form(arg)
       THEN << D("addi", ret, "R0", arg), D("oris", ret, ret, arg \div Pow2(HBits)) >>
  ELSE IF arg > 0 /\ (arg \div Pow2(HBits - 1)) % 2 = 1 /\ (mtmp & (mtmp + 1)) = 0
       THEN << D("addi", ret, "R0", arg),
               Rld("rldicl", ret, ret, 0, Clz(mtmp + 1) + 1) >>
  ELSE IF Fits(ctmp, HBits)
       THEN << D("addi", ret, "R0", ctmp), ShliInsn(ret, ret, cshift) >>
  ELSE IF lone # << >>
       THEN Append(lone, ShriInsn(ret, ret, lshift))
  ELSE IF ~inPrologue /\ useTB /\ Fits(tbDiff, WBits)
       THEN MemLongAddi(ret, TB, tbDiff)
  ELSE IF ~inPrologue /\ useTB
       THEN << PoolLoad(ret, arg) >>
  ELSE MoviInt(host, "I32", ret, high, FALSE, cgp)
       \o (IF high # 0 THEN << ShliInsn(ret, ret, WBits) >> ELSE << >>)
       \o (IF (Trunc(arg, DBits) \div Pow2(HBits)) % Pow2(WBits - HBits) # 0
           THEN << D("oris", ret, ret, arg \div Pow2(HBits)) >> ELSE << >>)
       \o (IF arg % Pow2(HBits) # 0 THEN << D("ori", ret, ret, arg) >> ELSE << >>)

(***************************************************************************)
(* The host: what one instruction does to the registers of an h-bit host.  *)
(* The pool load stands for the constant the pool entry was given (its     *)
(* address relocation is not modelled); its record carries that constant  *)
(* untruncated in imm, see PoolLoad).                                      *)
(***************************************************************************)
Source(r, i) ==
  IF i.ra = "R0" /\ i.op \in {"addi", "addis", "ld"} THEN 0 ELSE r[i.ra]

ExecInsn(h, r, i) ==
  LET v == CASE i.op = "addi"   -> Trunc(Source(r, i) + Signed(i.imm, HBits), h)
             [] i.op = "addis"  -> Trunc(Source(r, i)
                                         + Signed(i.imm, HBits) * Pow2(HBits), h)
             [] i.op = "ori"    -> r[i.ra] | i.imm
             [] i.op = "oris"   -> r[i.ra] | (i.imm * Pow2(HBits))
             [] i.op = "rldicl" -> Insn!RLDICL(h, r[i.ra], i.sh, i.mb)
             [] i.op = "rldicr" -> Insn!RLDICR(h, r[i.ra], i.sh, i.mb)
             [] i.op = "ld"     -> Trunc(i.imm, h)
  IN  [r EXCEPT ![i.rt] = v]

RECURSIVE Run(_, _, _)
Run(h, r, code) ==
  IF code = << >> THEN r ELSE Run(h, ExecInsn(h, r, Head(code)), Tail(code))

(***************************************************************************)
(* One call of tcg_out_movi (lines 980-988) for a GPR target, as the code  *)
(* has it for I32 and I64: in_prologue is FALSE at every call in this      *)
(* build.  The emitted code then runs on registers holding arbitrary old   *)
(* values, TB holding the TB's start.                                      *)
(***************************************************************************)
VARIABLES host, type, ret, arg, cgp, code, regs

vars == <<host, type, ret, arg, cgp, code, regs>>

SRange(n) == -Pow2(n - 1) .. Pow2(n - 1) - 1

(* The constants a caller passes: any tcg_target_long for I64; for I32     *)
(* the sign- or zero-extended 32-bit values the opcodes produce.           *)
Args(h, t) ==
  IF h = WBits THEN SRange(WBits)
  ELSE IF t = "I64" THEN SRange(DBits)
  ELSE SRange(WBits) \cup 0 .. Pow2(WBits) - 1

Init ==
  /\ host \in {WBits, DBits}
  /\ type \in IF host = WBits THEN {"I32"} ELSE {"I32", "I64"}
  /\ ret \in {"R0", "R5"}
  /\ arg \in Args(host, type)
  /\ cgp \in {Trunc(p, host) : p \in CodeGenPtrs}
  /\ code = << >>
  /\ \E junk \in {0, Pow2(host) - 1} :
       regs = [r \in Regs |-> IF r = TB THEN cgp ELSE junk]

(* tcg_out_movi_int emits, and the host executes what it emitted.         *)
Emit ==
  /\ code = << >>
  /\ code' = MoviInt(host, type, ret, arg, FALSE, Signed(cgp, host))
  /\ regs' = Run(host, regs, code')
  /\ UNCHANGED <<host, type, ret, arg, cgp>>

Next == Emit

Spec == Init /\ [][Next]_vars

TypeOK ==
  /\ host \in {WBits, DBits}
  /\ type \in {"I32", "I64"}
  /\ ret \in {"R0", "R5"}
  /\ regs \in [Regs -> 0 .. Pow2(host) - 1]

(* The value a TCG register of this type must hold: an I64 constant        *)
(* exactly; on a 64-bit host an I32 constant sign-extended (the form the   *)
(* first line of tcg_out_movi_int makes, and every path then loads).       *)
Expected(h, t, x) ==
  IF h = DBits /\ t = "I32" THEN Trunc(Signed(x, WBits), DBits) ELSE Trunc(x, h)

(* The scenario of spec section 8: a constant with no short form, like    *)
(* 0x123456789abcdef0, loaded on a 64-bit host is materialised by a        *)
(* multi-instruction fallback, never by a single instruction.              *)
WideConstMultiInsn ==
  (code # << >> /\ host = DBits /\ type = "I64" /\ arg = WideConst)
    => Len(code) > 1

=============================================================================

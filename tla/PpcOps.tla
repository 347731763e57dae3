------------------------------- MODULE PpcOps -------------------------------
(***************************************************************************)
(* Lowering of single TCG ops by the PowerPC backend, tcg_out_op and the   *)
(* helpers it calls (tcg/ppc/tcg-target.inc.c), with the host executing   *)
(* what was emitted.  One step is one op: the operand registers are given  *)
(* values, the handler emits its instruction sequence, and the host runs   *)
(* it.  The constant loads of tcg_out_movi (module MovI) are the movi op   *)
(* here and the fallback of the logical immediates.                        *)
(*                                                                         *)
(* Widths are MovI's: DBits for 64, WBits for 32, HBits for the 16-bit     *)
(* immediate field; a "byte" of bswap is WBits \div 4 bits.  Registers are *)
(* names; R3, R4 and R5 are the allocatable GPRs the ops are given, R0 and *)
(* TCG_REG_TMP1 (R12) the scratch registers, TB (R31) holds the TB start,  *)
(* CA the carry bit of XER.  CR0, which andi. and andis. also set, is not  *)
(* read by generated code across ops and is left out.                     *)
(***************************************************************************)
EXTENDS MovI, TLC

CONSTANTS
  OperandVals,   \* values the operand registers hold, as DBits-bit numbers
  Consts64       \* the 64-bit constants tried for and_i64 and andc_i64

Isa == INSTANCE PpcInsn

GPRs    == {"R3", "R4", "R5"}
OpRegs  == Regs \cup GPRs \cup {"CA"}
Scratch == {"R0", TMP1, "CA"}

Ones(n)     == Pow2(n) - 1
NotN(x, n)  == Ones(n) - Trunc(x, n)           \* ~x on n bits
Clz32(x)    == WBits - BitLen(Trunc(x, WBits))

(* Encodings besides MovI's D and Rld: X-form register ops and the         *)
(* rotate-and-mask word form of tcg_out_rlw (SH, MB, ME as given).          *)
X(op, ra, rs, rb) == [op |-> op, rt |-> ra, ra |-> rs, rb |-> rb]
Rlw(op, ra, rs, sh, mb, me) ==
  [op |-> op, rt |-> ra, ra |-> rs, sh |-> sh, mb |-> mb, me |-> me]

(* tcg_out_mov for two GPRs: or ret,arg,arg, nothing when ret = arg.       *)
Mov(dst, src) == IF dst = src THEN << >> ELSE << X("or", dst, src, src) >>

(***************************************************************************)
(* mask_operand and mask64_operand, lines 1001-1047: whether c is a run of *)
(* ones that one rotate-and-mask insn can AND with, and its MB and ME.     *)
(***************************************************************************)
NoMask == [ok |-> FALSE, mb |-> 0, me |-> 0]

mask_operand(c) ==
  LET lsb  == c & Trunc(-c, WBits)
      test == Trunc(c + lsb, WBits)
  IN  IF c = 0 \/ c = Ones(WBits) THEN NoMask
      ELSE IF (test & Trunc(test - 1, WBits)) # 0 THEN NoMask
      ELSE [ok |-> TRUE, me |-> Clz32(lsb),
            mb |-> IF test # 0 THEN Clz32(test & Trunc(-test, WBits)) + 1 ELSE 0]

mask64_operand(c) ==
  LET lsb == c & Trunc(-c, DBits)
  IN  IF c = 0 THEN NoMask
      ELSE IF c = Trunc(-lsb, DBits) THEN [ok |-> TRUE, mb |-> 0, me |-> Clz(lsb)]
      ELSE IF lsb = 1 /\ (c & Trunc(c + 1, DBits)) = 0
           THEN [ok |-> TRUE, mb |-> Clz(c + 1) + 1, me |-> DBits - 1]
      ELSE NoMask

(***************************************************************************)
(* tcg_out_andi32, tcg_out_andi64 and tcg_out_zori32, lines 1049-1101, on  *)
(* a host of h bits whose TB register holds tb.  A constant that fits no   *)
(* immediate form is loaded into R0 by tcg_out_movi first.                 *)
(***************************************************************************)
HighHalf(c) == (c \div Pow2(HBits)) * Pow2(HBits) = c /\ c < Pow2(WBits)

tcg_out_andi32(h, tb, dst, src, c) ==
  LET m == mask_operand(c)
  IN  IF m.ok THEN << Rlw("rlwinm", dst, src, 0, m.mb, m.me) >>
      ELSE IF c % Pow2(HBits) = c THEN << D("andi", dst, src, c) >>
      ELSE IF HighHalf(c) THEN << D("andis", dst, src, c \div Pow2(HBits)) >>
      ELSE MoviInt(h, "I32", "R0", IF h = WBits THEN Signed(c, WBits) ELSE c, FALSE, tb)
           \o << X("and", dst, src, "R0") >>

tcg_out_andi64(h, tb, dst, src, c) ==
  LET m == mask64_operand(c)
  IN  IF m.ok THEN IF m.mb = 0 THEN << Rld("rldicr", dst, src, 0, m.me) >>
                               ELSE << Rld("rldicl", dst, src, 0, m.mb) >>
      ELSE IF c % Pow2(HBits) = c THEN << D("andi", dst, src, c) >>
      ELSE IF HighHalf(c) THEN << D("andis", dst, src, c \div Pow2(HBits)) >>
      ELSE MoviInt(h, "I64", "R0", Signed(c, h), FALSE, tb) \o << X("and", dst, src, "R0") >>

tcg_out_zori32(dst, src, c, opLo, opHi) ==
  LET hi   == c \div Pow2(HBits)
      src1 == IF hi # 0 THEN dst ELSE src
  IN  (IF hi # 0 THEN << D(opHi, dst, src, hi) >> ELSE << >>)
      \o (IF c % Pow2(HBits) # 0 THEN << D(opLo, dst, src1, c) >> ELSE << >>)

(***************************************************************************)
(* The host: the meaning of each instruction the ops emit, on h bits.  The *)
(* D-form and doubleword-rotate insns of tcg_out_movi are MovI's ExecInsn. *)
(***************************************************************************)
LogicNames == {"and", "andc", "or", "orc", "xor", "eqv"}

(* The bitwise operation name on n-bit values.                             *)
BitOp(name, a, b, n) ==
  CASE name = "and"  -> a & b
    [] name = "andc" -> a & NotN(b, n)
    [] name = "or"   -> a | b
    [] name = "orc"  -> a | NotN(b, n)
    [] name = "xor"  -> a ^^ b
    [] name = "eqv"  -> NotN(a ^^ b, n)

(* MASK(mb+32, me+32) of a word rotate, on an h-bit register.              *)
WordMask(h, mb, me) == Isa!IbmMask(h, mb + h - WBits, me + h - WBits)

(* The carrying adds and subtracts: rt = x + y + cin on h bits, and CA the *)
(* carry out of bit 0 (the word's top bit; 64-bit mode on a 64-bit host).  *)
CarryOps == {"addc", "adde", "addic", "addme", "addze",
             "subfc", "subfe", "subfic", "subfme", "subfze"}

CarryExec(h, r, i) ==
  LET a   == IF i.op \in {"addc", "adde", "addic", "addme", "addze"}
             THEN r[i.ra] ELSE NotN(r[i.ra], h)
      y   == CASE i.op \in {"addc", "adde", "subfc", "subfe"} -> r[i.rb]
               [] i.op \in {"addic", "subfic"}                -> Trunc(Signed(i.imm, HBits), h)
               [] i.op \in {"addme", "subfme"}                -> Ones(h)
               [] i.op \in {"addze", "subfze"}                -> 0
      cin == IF i.op \in {"addc", "addic"} THEN 0
             ELSE IF i.op \in {"subfc", "subfic"} THEN 1 ELSE r["CA"]
      sum == a + y + cin
  IN  [r EXCEPT ![i.rt] = Trunc(sum, h), !["CA"] = IF sum >= Pow2(h) THEN 1 ELSE 0]

OpExec(h, r, i) ==
  IF i.op \in {"addi", "addis", "ori", "oris", "rldicl", "rldicr", "ld"}
  THEN ExecInsn(h, r, i)
  ELSE IF i.op \in CarryOps THEN CarryExec(h, r, i)
  ELSE LET s == r[i.ra]
           v == CASE i.op \in LogicNames -> BitOp(i.op, s, r[i.rb], h)
                  [] i.op = "andi"   -> s & i.imm
                  [] i.op = "andis"  -> s & (i.imm * Pow2(HBits))
                  [] i.op = "xori"   -> s ^^ i.imm
                  [] i.op = "xoris"  -> s ^^ (i.imm * Pow2(HBits))
                  [] i.op = "rlwinm" -> Isa!RLWINM(h, WBits, s, i.sh, i.mb, i.me)
                  [] i.op = "rlwimi" -> Isa!RLWINM(h, WBits, s, i.sh, i.mb, i.me)
                                        | (r[i.rt] & NotN(WordMask(h, i.mb, i.me), h))
                  [] i.op = "rldimi" ->
                       LET m == Isa!IbmMask(h, i.mb, h - 1 - i.sh)
                       IN  (Isa!RotL(h, s, i.sh) & m) | (r[i.rt] & NotN(m, h))
       IN  [r EXCEPT ![i.rt] = v]

RECURSIVE OpRun(_, _, _)
OpRun(h, r, seq) ==
  IF seq = << >> THEN r ELSE OpRun(h, OpExec(h, r, Head(seq)), Tail(seq))

(***************************************************************************)
(* The handlers of tcg_out_op.  Operand 2 is a register [reg |-> r] or a   *)
(* constant [imm |-> c]; h is the host width and tb the TB start.          *)
(***************************************************************************)
Width(t) == IF t = "I32" THEN WBits ELSE DBits
IsConst(a) == "imm" \in DOMAIN a

(* The and, andc, or, orc, xor and eqv cases, lines 2499-2566.  An I32    *)
(* constant reaches the helpers as a uint32_t.                             *)
LogicCode(name, h, tb, t, a0, a1, a2) ==
  IF ~IsConst(a2) THEN << X(name, a0, a1, a2.reg) >>
  ELSE LET c  == a2.imm
           nc == NotN(c, Width(t))
       IN  CASE name = "and"  -> IF t = "I32" THEN tcg_out_andi32(h, tb, a0, a1, c)
                                              ELSE tcg_out_andi64(h, tb, a0, a1, c)
             [] name = "andc" -> IF t = "I32" THEN tcg_out_andi32(h, tb, a0, a1, nc)
                                              ELSE tcg_out_andi64(h, tb, a0, a1, nc)
             [] name = "or"   -> tcg_out_zori32(a0, a1, c, "ori", "oris")
             [] name = "xor"  -> tcg_out_zori32(a0, a1, c, "xori", "xoris")
             [] name = "orc"  -> tcg_out_zori32(a0, a1, nc, "ori", "oris")
             [] name = "eqv"  -> tcg_out_zori32(a0, a1, nc, "xori", "xoris")

(* The mask ((2u << (len - 1)) - 1) << ofs of deposit, in n-bit unsigned   *)
(* arithmetic: at len = n the shift wraps to zero and the mask to all ones. *)
DepositMask(ofs, len, n) == Trunc(Trunc(Trunc(2 * Pow2(len - 1), n) - 1, n) * Pow2(ofs), n)

(* deposit_i32 and deposit_i64, lines 2870-2887; operand 1 is operand 0   *)
(* (constraint "0") and operand 2 a register or zero ("rZ").               *)
DepositCode(h, tb, t, a0, a2, ofs, len) ==
  IF IsConst(a2)
  THEN IF t = "I32"
       THEN tcg_out_andi32(h, tb, a0, a0, NotN(DepositMask(ofs, len, WBits), WBits))
       ELSE tcg_out_andi64(h, tb, a0, a0, NotN(DepositMask(ofs, len, DBits), DBits))
  ELSE IF t = "I32"
       THEN << Rlw("rlwimi", a0, a2.reg, ofs, WBits - ofs - len, WBits - 1 - ofs) >>
       ELSE << Rld("rldimi", a0, a2.reg, ofs, DBits - ofs - len) >>

(* extract_i32 and extract_i64, lines 2889-2895.                           *)
ExtractCode(t, a0, a1, ofs, len) ==
  IF t = "I32" THEN << Rlw("rlwinm", a0, a1, WBits - ofs, WBits - len, WBits - 1) >>
               ELSE << Rld("rldicl", a0, a1, DBits - ofs, DBits - len) >>

(* bswap16, bswap32 and bswap64, lines 2800-2868, on bytes of B bits: the  *)
(* code's rotates by 8, 24 and 32 and masks 0-7, 16-23, 24-31 scale to B.  *)
(* R0 stands in for an output that is also the input.                      *)
B == WBits \div 4

Bswap16Code(a0, a1) ==
  IF a0 # a1
  THEN << Rlw("rlwinm", a0, a1, 3 * B, 3 * B, 4 * B - 1),
          Rlw("rlwimi", a0, a1, B, 2 * B, 3 * B - 1) >>
  ELSE << Rlw("rlwinm", "R0", a1, B, 2 * B, 3 * B - 1),
          Rlw("rlwinm", a0, a1, 3 * B, 3 * B, 4 * B - 1),
          X("or", a0, "R0", a0) >>

(* The three insns of gcc's bswap32 from a1 into a0.                       *)
Word3(a0, a1) ==
  << Rlw("rlwinm", a0, a1, B, 0, 4 * B - 1),
     Rlw("rlwimi", a0, a1, 3 * B, 0, B - 1),
     Rlw("rlwimi", a0, a1, 3 * B, 2 * B, 3 * B - 1) >>

Bswap32Code(a0, a1) ==
  LET t == IF a0 = a1 THEN "R0" ELSE a0
  IN  Word3(t, a1) \o (IF t = "R0" THEN Mov(a0, t) ELSE << >>)

Bswap64Code(a0, a1) ==
  LET t  == IF a0 = a1 THEN "R0" ELSE a0
      a2 == IF a0 = a1 THEN a1 ELSE "R0"
  IN  Word3(t, a1)
      \o << Rld("rldicl", t, t, WBits, 0), Rld("rldicl", a2, a1, WBits, 0),
            Rlw("rlwimi", t, a2, B, 0, 4 * B - 1),
            Rlw("rlwimi", t, a2, 3 * B, 0, B - 1),
            Rlw("rlwimi", t, a2, 3 * B, 2 * B, 3 * B - 1) >>
      \o (IF t = "R0" THEN Mov(a0, t) ELSE << >>)

(* The low k bytes of x in reverse order.                                  *)
ByteRev(x, k) ==
  LET byte(j) == (x \div Pow2(B * j)) % Pow2(B)
  IN  Isa!SumSet({byte(j) * Pow2(B * (k - 1 - j)) : j \in 0 .. k - 1})

(* add2 and sub2 (add2_i64/sub2_i64 on a 64-bit host, the _i32 forms on a  *)
(* 32-bit one), lines 2904-2960.  a = <<out lo, out hi, in, in, in, in>>;   *)
(* the low output goes to R0 when the high-part insn still reads its       *)
(* register.                                                               *)
XO(op, rt, ra) == [op |-> op, rt |-> rt, ra |-> ra]

(* Mutant: add2 without the check on a register sixth operand.            *)
Add2CodeNoHighCheck(a) ==
  LET lo == IF a[1] = a[4] THEN "R0" ELSE a[1]
  IN  (IF IsConst(a[5]) THEN << D("addic", lo, a[3], a[5].imm) >>
                        ELSE << X("addc", lo, a[3], a[5].reg) >>)
      \o (IF IsConst(a[6]) THEN << XO(IF a[6].imm # 0 THEN "addme" ELSE "addze", a[2], a[4]) >>
                           ELSE << X("adde", a[2], a[4], a[6].reg) >>)
      \o Mov(a[1], lo)

Add2Code(a) ==
  LET lo == IF a[1] = a[4] \/ (~IsConst(a[6]) /\ a[1] = a[6].reg) THEN "R0" ELSE a[1]
  IN  (IF IsConst(a[5]) THEN << D("addic", lo, a[3], a[5].imm) >>
                        ELSE << X("addc", lo, a[3], a[5].reg) >>)
      \o (IF IsConst(a[6]) THEN << XO(IF a[6].imm # 0 THEN "addme" ELSE "addze", a[2], a[4]) >>
                           ELSE << X("adde", a[2], a[4], a[6].reg) >>)
      \o Mov(a[1], lo)

Sub2Code(a) ==
  LET lo == IF a[1] = a[6] \/ (~IsConst(a[4]) /\ a[1] = a[4].reg) THEN "R0" ELSE a[1]
  IN  (IF IsConst(a[3]) THEN << D("subfic", lo, a[5], a[3].imm) >>
                        ELSE << X("subfc", lo, a[5], a[3].reg) >>)
      \o (IF IsConst(a[4]) THEN << XO(IF a[4].imm # 0 THEN "subfme" ELSE "subfze", a[2], a[6]) >>
                           ELSE << X("subfe", a[2], a[6], a[4].reg) >>)
      \o Mov(a[1], lo)

(***************************************************************************)
(* One op per behaviour.  opc names the op ("none" before it), pre is the  *)
(* register file the emitted code starts from, want the value each output *)
(* register must end with (on its low bits bits).  MovI's type, ret and    *)
(* arg hold the op's type, output and constant.                            *)
(***************************************************************************)
VARIABLES opc, pre, want, bits

opsVars == <<host, type, ret, arg, cgp, code, regs, opc, pre, want, bits>>

Types(h) == IF h = WBits THEN {"I32"} ELSE {"I32", "I64"}
Dsts     == {"R3", "R4"}
RegArg   == {[reg |-> r] : r \in GPRs}

(* Constants that reach the handlers.  The optimizer (tcg/optimize.c, not  *)
(* in this repository) turns or/xor with 0 and orc/eqv with -1 into moves; *)
(* or_i64 and xor_i64 take only uint32 constants (constraint "U"), orc_i64 *)
(* and eqv_i64 none.                                                       *)
ConstsFor(name, t) ==
  IF t = "I32"
  THEN CASE name \in {"and", "andc"} -> 0 .. Ones(WBits)
         [] name \in {"or", "xor"}   -> 1 .. Ones(WBits)
         [] OTHER                    -> 0 .. Ones(WBits) - 1
  ELSE CASE name \in {"and", "andc"} -> Consts64
         [] name \in {"or", "xor"}   -> 1 .. Ones(WBits)
         [] OTHER                    -> {}

OpsInit ==
  /\ host \in {WBits, DBits}
  /\ cgp \in {Trunc(p, host) : p \in CodeGenPtrs}
  /\ \E junk \in {0, Ones(host)} :
       regs = [r \in OpRegs |-> CASE r = TB -> cgp [] r = "CA" -> 0 [] OTHER -> junk]
  /\ pre = regs /\ code = << >> /\ want = << >> /\ bits = host
  /\ opc = "none" /\ type = "I32" /\ ret = "R0" /\ arg = 0

(* The operand registers loaded with v.                                    *)
Loaded(v) == [r \in OpRegs |-> IF r \in GPRs THEN Trunc(v[r], host) ELSE regs[r]]

(* The common part of every op: from r0, emit seq and run it.              *)
Lower(o, t, r0, seq, expect, n) ==
  /\ opc = "none"
  /\ opc' = o /\ type' = t /\ pre' = r0 /\ code' = seq
  /\ regs' = OpRun(host, r0, seq)
  /\ want' = expect /\ bits' = n
  /\ UNCHANGED <<host, cgp>>

(* tcg_out_movi, lines 980-988: every constant MovI's Args allows.          *)
MoviOp ==
  \E t \in Types(host), r \in {"R0", "R5"} : \E c \in Args(host, t) :
    /\ Lower("movi", t, regs, MoviInt(host, t, r, c, FALSE, Signed(cgp, host)),
             r :> Expected(host, t, c), host)
    /\ ret' = r /\ arg' = c

LogicOp(name) ==
  \E t \in Types(host), a0, a1 \in Dsts, v \in [GPRs -> OperandVals] :
  \E a2 \in RegArg \cup {[imm |-> c] : c \in ConstsFor(name, t)} :
    LET r0 == Loaded(v)
        n  == Width(t)
        b  == IF IsConst(a2) THEN a2.imm ELSE r0[a2.reg]
    IN  /\ Lower(name, t, r0, LogicCode(name, host, Signed(cgp, host), t, a0, a1, a2),
                 a0 :> BitOp(name, Trunc(r0[a1], n), Trunc(b, n), n), n)
        /\ ret' = a0 /\ arg' = IF IsConst(a2) THEN a2.imm ELSE 0

DepositOp ==
  \E t \in Types(host), a0 \in Dsts, v \in [GPRs -> OperandVals],
     a2 \in RegArg \cup {[imm |-> 0]} :
  \E ofs \in 0 .. Width(t) - 1 : \E len \in 1 .. Width(t) - ofs :
      LET r0 == Loaded(v)
          n  == Width(t)
          m  == (Pow2(len) - 1) * Pow2(ofs)
          b  == IF IsConst(a2) THEN 0 ELSE r0[a2.reg]
      IN  /\ Lower("deposit", t, r0, DepositCode(host, Signed(cgp, host), t, a0, a2, ofs, len),
                   a0 :> ((Trunc(r0[a0], n) & NotN(m, n)) | (Trunc(b * Pow2(ofs), n) & m)), n)
          /\ ret' = a0 /\ arg' = 0

(* extract_i32 is given ofs >= 1: the generic layer (tcg/tcg-op.c, not in  *)
(* this repository) turns ofs = 0 into an andi, and SH(32) would not fit.  *)
ExtractOp ==
  \E t \in Types(host), a0, a1 \in Dsts, v \in [GPRs -> OperandVals] :
  \E ofs \in (IF t = "I32" THEN 1 ELSE 0) .. Width(t) - 1 : \E len \in 1 .. Width(t) - ofs :
      LET r0 == Loaded(v)
      IN  /\ Lower("extract", t, r0, ExtractCode(t, a0, a1, ofs, len),
                   a0 :> (r0[a1] \div Pow2(ofs)) % Pow2(len), Width(t))
          /\ ret' = a0 /\ arg' = 0

(* bswap16 and bswap32_i64 are defined for inputs whose bytes above the    *)
(* two (four) low ones are zero; bswap32_i32 reads the low word only.       *)
BswapOp(k) ==
  \E t \in Types(host), a0, a1 \in Dsts, v \in [GPRs -> OperandVals] :
    /\ k = 8 => host = DBits /\ t = "I64"
    /\ LET clean == k = 2 \/ (k = 4 /\ t = "I64")
           r0    == [r \in OpRegs |-> IF r \in GPRs /\ clean THEN Trunc(v[r], k * B)
                                     ELSE Loaded(v)[r]]
           seq   == CASE k = 2 -> Bswap16Code(a0, a1)
                      [] k = 4 -> Bswap32Code(a0, a1)
                      [] k = 8 -> Bswap64Code(a0, a1)
       IN  Lower(<<"bswap", k>>, t, r0, seq, a0 :> ByteRev(r0[a1], k),
                 IF k = 4 /\ t = "I32" THEN WBits ELSE Width(t))
    /\ ret' = a0 /\ arg' = 0

(* add2 and sub2 on the host's word: two distinct outputs, the four inputs *)
(* any registers (an output may share one with an input that dies here);   *)
(* add2's fifth and sub2's third operand may be an "I" constant, add2's    *)
(* sixth and sub2's fourth 0 or -1 ("ZM").                                  *)
SImm == {[imm |-> c] : c \in SRange(HBits)}
ZM   == {[imm |-> 0], [imm |-> -1]}

DoubleOp(isAdd) ==
  \E lo, hi \in GPRs, x, y \in GPRs, v \in [GPRs -> OperandVals] :
  \E p \in RegArg \cup (IF isAdd THEN ZM ELSE SImm), q \in RegArg \cup (IF isAdd THEN SImm ELSE ZM) :
    LET r0  == Loaded(v)
        n   == host
        val(o) == IF IsConst(o) THEN Trunc(o.imm, n) ELSE r0[o.reg]
        \* add2: (hi,lo) = (y,x) + (p,q).  sub2: (hi,lo) = (q,p) - (y,x).
        a   == IF isAdd THEN << lo, hi, x, y, q, p >> ELSE << lo, hi, p, q, x, y >>
        low == IF isAdd THEN r0[x] + val(q) ELSE val(p) - r0[x]
        cy  == IF low >= Pow2(n) THEN 1 ELSE IF low < 0 THEN -1 ELSE 0
        high == IF isAdd THEN r0[y] + val(p) + cy ELSE val(q) - r0[y] + cy
    IN  /\ lo # hi
        /\ Lower(IF isAdd THEN "add2" ELSE "sub2", IF n = WBits THEN "I32" ELSE "I64", r0,
                 IF isAdd THEN Add2Code(a) ELSE Sub2Code(a),
                 (lo :> Trunc(low, n)) @@ (hi :> Trunc(high, n)), n)
        /\ ret' = lo /\ arg' = 0

(* One op per behaviour: nothing is enabled once it has been emitted.      *)
OpsNext ==
  /\ opc = "none"
  /\ \/ MoviOp
     \/ \E name \in LogicNames : LogicOp(name)
     \/ DepositOp
     \/ ExtractOp
     \/ \E k \in {2, 4, 8} : BswapOp(k)
     \/ \E isAdd \in BOOLEAN : DoubleOp(isAdd)

OpsSpec == OpsInit /\ [][OpsNext]_opsVars

(* Every op lowers exactly: after the emitted code runs from any register  *)
(* values, each output holds the value the TCG op defines (on the bits its *)
(* type defines), and every register but the outputs and the scratch R0,   *)
(* TMP1 and CA, the TB register included, is as before.  A mask taken for  *)
(* a run of ones it is not (mask_operand, mask64_operand), an immediate    *)
(* split that drops a half (tcg_out_zori32), a deposit mask off at len = n *)
(* or a register reused before it is read breaks it for some operands.     *)
LoweringExact ==
  opc # "none" =>
    /\ \A r \in DOMAIN want : Trunc(regs[r], bits) = want[r]
    /\ \A r \in OpRegs \ (DOMAIN want \cup Scratch) : regs[r] = pre[r]

====

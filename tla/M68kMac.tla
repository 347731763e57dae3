------------------------------- MODULE M68kMac -------------------------------
(***************************************************************************)
(* The ColdFire MAC/EMAC unit of the m68k CPU, target/m68k/helper.c: four  *)
(* 48-bit accumulators kept in the 64-bit env->macc[], and env->macsr with *)
(* its mode bits (FI fractional, SU signed, RT rounding, OMC saturation)  *)
(* and flags (V, Z, N, EV, PAV0..PAV3).  Every helper that changes them is *)
(* an action; the values the multiply helpers return are operators.      *)
(*                                                                         *)
(* The layout of an accumulator depends on the mode.  In fractional mode  *)
(* bits 8..39 are the accumulator, bits 0..7 the low extension byte; in   *)
(* the integer modes bits 0..31 are the accumulator and bits 32..39 the   *)
(* low extension byte.  Bits 40..47 are the high extension byte in both.  *)
(*                                                                         *)
(* The accumulate itself (macc += product) is generated code of           *)
(* translate.c; accumulators start from any value it can leave, including *)
(* sums that have overflowed 48 bits and wait for macsats/macsatu/macsatf. *)
(* A byte is ByteBits bits here instead of 8.                              *)
(***************************************************************************)
EXTENDS Integers, FiniteSets

CONSTANTS
  ByteBits,    \* bits of a byte; 8 in the code, scaled down for TLC
  AccInit,     \* values env->macc[] may hold when checking starts
  SrInit,      \* values of env->macsr when checking starts
  MacsrVals,   \* values a MOVE to MACSR writes
  ExtVals,     \* 32-bit values a MOVE to ACCEXT01/23 writes
  MulOps,      \* 32-bit operands of the multiply helpers
  Bit50,       \* 1ll << 50, scaled: above 2^48, a multiple of 2^48
  Bit53,       \* 1ull << 53, scaled: above Bit50 + 2^48, below 2^63
  Accs         \* the accumulators modelled, pairs from 0 of 0 .. 3

VARIABLES
  macc,        \* env->macc[0..3], as unsigned 64-bit patterns
  macsr        \* the set bits of env->macsr

vars == <<macc, macsr>>

(* ACC0/ACC1 and ACC2/ACC3, the pairs an extension word covers.           *)
Pairs == {a \in Accs : a % 2 = 0 /\ a + 1 \in Accs}

Pav  == <<"PAV0", "PAV1", "PAV2", "PAV3">>
PAV(i) == Pav[i + 1]                              \* MACSR_PAV0 << i

Pow(k) == 2 ^ (k * ByteBits)                      \* 2 to the bits of k bytes
U64(x) == x % Pow(8)                              \* conversion to uint64_t
Signed(x, n) == LET y == x % Pow(n)               \* int of n bytes (int8_t ..
                IN  IF y >= Pow(n) \div 2 THEN y - Pow(n) ELSE y   \* int64_t)
Field(x, lo, n) == (x \div Pow(lo)) % Pow(n)      \* n bytes from byte lo

Max32 == Pow(4) \div 2 - 1                        \* 0x7fffffff
Max48 == Pow(6) \div 2 - 1                        \* 0x7fffffffffff

(* (result >> 63) ^ max: max for a non-negative result, ~max otherwise.    *)
SatToSign(r, max) == IF r < 0 THEN -max - 1 ELSE max

(* The first half of the loop of set_macsr, lines 171-179: the fields of   *)
(* accumulator value x under the mode bits sr.                            *)
Decode(sr, x) ==
  [hi  |-> Signed(Field(x, 5, 1), 1),
   acc |-> IF "FI" \in sr THEN Field(x, 1, 4) ELSE Field(x, 0, 4),
   lo  |-> IF "FI" \in sr THEN Field(x, 0, 1) ELSE Field(x, 4, 1)]

(* The second half, lines 180-189: the fields laid out for mode sr; the   *)
(* signed modes sign-extend exthigh into bits 48..63.                       *)
Encode(sr, f) ==
  CASE "FI" \in sr -> f.acc * Pow(1) + f.lo + U64(f.hi * Pow(5))
    [] "SU" \in sr -> f.acc + f.lo * Pow(4) + U64(f.hi * Pow(5))
    [] OTHER       -> f.acc + f.lo * Pow(4) + (f.hi % Pow(1)) * Pow(5)

Init ==
  /\ macc \in AccInit
  /\ macsr \in SrInit

(* HELPER(set_macsr), lines 162-194: when FI or SU changes, every          *)
(* accumulator is taken apart and put together again, both times under    *)
(* the mode env->macsr still holds; then val is stored.                   *)
SetMacsr(val) ==
  /\ macc' = IF ((macsr \ val) \cup (val \ macsr)) \cap {"FI", "SU"} # {}
             THEN [i \in Accs |-> Encode(macsr, Decode(macsr, macc[i]))]
             ELSE macc
  /\ macsr' = val

(* HELPER(mac_move), lines 616-625: the value and its PAV bit.            *)
MacMove(dest, src) ==
  /\ macc' = [macc EXCEPT ![dest] = macc[src]]
  /\ macsr' = IF PAV(src) \in macsr THEN macsr \cup {PAV(dest)}
              ELSE macsr \ {PAV(dest)}

(* HELPER(macmuls), lines 627-645: (uint64_t)op1 * op2 taken as int64_t;  *)
(* overflow past 40 bits sets V and, under OMC, returns a value whose     *)
(* accumulate overflows.  The return value goes to generated code only,   *)
(* so, like a register read, it is an operator of the state.              *)
MulsResult(op1, op2) ==
  LET product == Signed(op1 * op2, 8)
      res     == Signed(product, 5)
  IN  U64(IF res # product /\ "OMC" \in macsr
          THEN IF product < 0 THEN -Bit50 - 1 ELSE Bit50
          ELSE res)

MacMuls(op1, op2) ==
  LET product == Signed(op1 * op2, 8)
  IN  /\ macsr' = IF Signed(product, 5) # product THEN macsr \cup {"V"} ELSE macsr
      /\ UNCHANGED macc

(* HELPER(macmulu), lines 647-662.                                         *)
MuluResult(op1, op2) ==
  LET product == op1 * op2
  IN  IF product < Pow(5) THEN product
      ELSE IF "OMC" \in macsr THEN Bit50 ELSE product % Pow(5)

MacMulu(op1, op2) ==
  /\ macsr' = IF op1 * op2 >= Pow(5) THEN macsr \cup {"V"} ELSE macsr
  /\ UNCHANGED macc

(* HELPER(macmulf), lines 664-681: the product shifted right by 24, under *)
(* RT rounded to nearest, ties to even.  It changes no state.             *)
MulfResult(op1, op2) ==
  LET product == op1 * op2
      q       == product \div Pow(3)
      rem     == product % Pow(3)
      half    == Pow(3) \div 2
  IN  IF "RT" \notin macsr THEN q
      ELSE q + (IF rem > half THEN 1 ELSE IF rem = half THEN q % 2 ELSE 0)

(* macsats and macsatf, lines 683-703 and 725-745: a sum that is not a    *)
(* sign-extended 48-bit value sets V; under V (new or left from before)   *)
(* PAVn is set and, under OMC, the 48-bit truncation is replaced by the   *)
(* bound max of its sign; otherwise the truncation is stored.             *)
SatSigned(a, max) ==
  LET tmp    == Signed(macc[a], 8)
      result == Signed(macc[a], 6)
      sr     == IF result # tmp THEN macsr \cup {"V"} ELSE macsr
  IN  /\ macsr' = IF "V" \in sr THEN sr \cup {PAV(a)} ELSE sr
      /\ macc' = [macc EXCEPT ![a] =
                    U64(IF "V" \in sr /\ "OMC" \in sr THEN SatToSign(result, max)
                        ELSE result)]

(* HELPER(macsats): saturated to 32 bits, as its comment says the         *)
(* hardware does.                                                           *)
Macsats(a) == SatSigned(a, Max32)

(* HELPER(macsatf): saturated to 48 bits.                                  *)
Macsatf(a) == SatSigned(a, Max48)

(* Mutant: the non-OMC branch stores the sum without masking it to 48     *)
(* bits.                                                                   *)
MacsatuNoMask(a) ==
  LET val  == macc[a]
      sr   == IF val >= Pow(6) THEN macsr \cup {"V"} ELSE macsr
  IN  /\ macsr' = IF "V" \in sr THEN sr \cup {PAV(a)} ELSE sr
      /\ macc' = [macc EXCEPT ![a] =
                    IF "V" \in sr /\ "OMC" \in sr
                    THEN IF val > Bit53 THEN 0 ELSE Pow(6) - 1
                    ELSE val]

(* HELPER(macsatu), lines 705-723: bits 48..63 set V; under OMC a sum     *)
(* above 1 << 53 (one that went below zero) saturates to 0, any other to  *)
(* 2^48 - 1; without OMC it is masked to 48 bits.                          *)
Macsatu(a) ==
  LET val  == macc[a]
      sr   == IF val >= Pow(6) THEN macsr \cup {"V"} ELSE macsr
  IN  /\ macsr' = IF "V" \in sr THEN sr \cup {PAV(a)} ELSE sr
      /\ macc' = [macc EXCEPT ![a] =
                    IF "V" \notin sr THEN val
                    ELSE IF "OMC" \in sr THEN IF val > Bit53 THEN 0 ELSE Pow(6) - 1
                    ELSE val % Pow(6)]

(* HELPER(mac_set_flags), lines 747-771: Z or N (bit 47) of the value, V  *)
(* from PAVn, EV when the bits above the accumulator of the mode are not  *)
(* a sign (FI, SU) or zero (unsigned) extension.  Flags are only set.     *)
MacSetFlags(a) ==
  LET val == macc[a]
      s   == Signed(val, 8)
      zn  == IF val = 0 THEN {"Z"}
             ELSE IF Field(val, 5, 1) >= Pow(1) \div 2 THEN {"N"} ELSE {}
      ev  == CASE "FI" \in macsr -> s \div Pow(5) \notin {0, -1}
               [] "SU" \in macsr -> s \div Pow(4) \notin {0, -1}
               [] OTHER          -> val \div Pow(4) # 0
  IN  /\ macsr' = macsr \cup zn \cup (IF PAV(a) \in macsr THEN {"V"} ELSE {})
                        \cup (IF ev THEN {"EV"} ELSE {})
      /\ UNCHANGED macc

(* HELPER(get_mac_extf), lines 939-947: the low and high extension bytes  *)
(* of macc[acc] and macc[acc + 1], in that order, lowest first.           *)
GetMacExtf(a) ==
  Field(macc[a], 0, 1) + Field(macc[a], 5, 1) * Pow(1)
    + Field(macc[a + 1], 0, 1) * Pow(2) + Field(macc[a + 1], 5, 1) * Pow(3)

(* HELPER(get_mac_exti), lines 949-955: bits 32..47 of each.               *)
GetMacExti(a) == Field(macc[a], 4, 2) + Field(macc[a + 1], 4, 2) * Pow(2)

(* HELPER(set_mac_extf), lines 957-971: bits 8..39 kept, the bytes of val *)
(* put back where get_mac_extf takes them, the high ones sign-extended.   *)
SetMacExtf(val, a) ==
  LET keep(x) == (x % Pow(5)) - (x % Pow(1))
      hi0     == Signed(Field(val, 1, 1) * Pow(1), 2)      \* (int16_t)(val & 0xff00)
      hi1     == Signed(Field(val, 3, 1) * Pow(3), 4)      \* (int32_t)(val & 0xff000000)
  IN  /\ macc' = [macc EXCEPT
                    ![a]     = U64(keep(@) + hi0 * Pow(4) + Field(val, 0, 1)),
                    ![a + 1] = U64(keep(@) + hi1 * Pow(2) + Field(val, 2, 1))]
      /\ UNCHANGED macsr

(* Mutant: the high half of val shifted by 32, like the low half, instead *)
(* of by 16.                                                               *)
SetMacExtsShift32(val, a) ==
  /\ macc' = [macc EXCEPT
                ![a]     = (@ % Pow(4)) + U64(Signed(Field(val, 0, 2), 2) * Pow(4)),
                ![a + 1] = (@ % Pow(4)) + U64(Signed(Field(val, 2, 2) * Pow(2), 4) * Pow(4))]
  /\ UNCHANGED macsr

(* HELPER(set_mac_exts), lines 973-985: the low 32 bits kept, each half   *)
(* of val sign-extended into bits 32..63.                                  *)
SetMacExts(val, a) ==
  /\ macc' = [macc EXCEPT
                ![a]     = (@ % Pow(4)) + U64(Signed(Field(val, 0, 2), 2) * Pow(4)),
                ![a + 1] = (@ % Pow(4)) + U64(Signed(Field(val, 2, 2) * Pow(2), 4) * Pow(2))]
  /\ UNCHANGED macsr

(* HELPER(set_mac_extu), lines 987-996: the same, zero-extended.           *)
SetMacExtu(val, a) ==
  /\ macc' = [macc EXCEPT
                ![a]     = (@ % Pow(4)) + Field(val, 0, 2) * Pow(4),
                ![a + 1] = (@ % Pow(4)) + Field(val, 2, 2) * Pow(4)]
  /\ UNCHANGED macsr

(* HELPER(get_macs), lines 922-929: an accumulator read as a signed 32-bit *)
(* value; one that does not fit returns (val >> 61) ^ ~SIGNBIT, the top    *)
(* three bits of the uint64_t xor-ed into 0x7fffffff (whose low bits are  *)
(* all ones, so the xor subtracts them).                                   *)
GetMacs(val) ==
  IF U64(Signed(val, 4)) = val THEN val % Pow(4)
  ELSE Max32 - val \div (Pow(8) \div 8)

(* The rounding of get_macf: q, the kept part, rounded by the dropped     *)
(* part rem of a unit: up above half, to even at half.                     *)
RoundHalfEven(q, rem, unit) ==
  IF rem > unit \div 2 THEN q + 1
  ELSE IF rem = unit \div 2 THEN q + (q % 2)
  ELSE q

(* HELPER(get_macf), lines 870-919: an accumulator read in fractional     *)
(* mode.  Under SU bits 24-39 rounded to 16 bits, under RT the value      *)
(* shifted right by 8 and rounded, else only shifted; the shift is that   *)
(* of a uint64_t.  Under OMC a value that does not fit is replaced by the  *)
(* bound picked by its bit 63; otherwise it is truncated.                  *)
GetMacf(sr, val) ==
  LET r   == CASE "SU" \in sr -> RoundHalfEven(Field(val, 3, 2), val % Pow(3), Pow(3))
                [] "RT" \in sr -> RoundHalfEven(val \div Pow(1), val % Pow(1), Pow(1))
                [] OTHER        -> val \div Pow(1)
      top == r \div (Pow(8) \div 2)                 \* val >> 63
      n   == IF "SU" \in sr THEN 2 ELSE 4
  IN  IF "OMC" \in sr /\ r # r % Pow(n)
        THEN IF n = 2 THEN Pow(2) \div 2 - 1 - top    \* (top ^ 0x7fff) & 0xffff
                      ELSE top                         \* top & 0x7fffffff
        ELSE r % Pow(n)

Next ==
  \/ \E v \in MacsrVals : SetMacsr(v)
  \/ \E d, s \in Accs : MacMove(d, s)
  \/ \E o1, o2 \in MulOps : MacMuls(o1, o2) \/ MacMulu(o1, o2)
  \/ \E a \in Accs : Macsats(a) \/ Macsatu(a) \/ Macsatf(a) \/ MacSetFlags(a)
  \/ \E v \in ExtVals, a \in Pairs :
       SetMacExtf(v, a) \/ SetMacExts(v, a) \/ SetMacExtu(v, a)

Spec == Init /\ [][Next]_vars

TypeOK ==
  /\ macc \in [Accs -> 0 .. Pow(8) - 1]
  /\ macsr \subseteq {"FI", "SU", "RT", "OMC", "V", "Z", "N", "EV"} \cup {PAV(i) : i \in Accs}

(* The accumulator field of x in fractional and in integer layout.        *)
FracAcc(x) == Field(x, 1, 4)
IntAcc(x)  == Field(x, 0, 4)

(* MOVE to ACCEXT01/23 followed by MOVE from it returns what was written, *)
(* and leaves the accumulators of the pair alone: set_mac_extf agrees     *)
(* with get_mac_extf, and set_mac_exts/extu with get_mac_exti, on where   *)
(* each byte of the extension word lives in macc[acc] and macc[acc + 1].  *)
ExtRoundTrip ==
  [][\A v \in ExtVals, a \in Pairs :
       /\ SetMacExtf(v, a) =>
            /\ GetMacExtf(a)' = v
            /\ \A i \in {a, a + 1} : FracAcc(macc'[i]) = FracAcc(macc[i])
       /\ (SetMacExts(v, a) \/ SetMacExtu(v, a)) =>
            /\ GetMacExti(a)' = v
            /\ \A i \in {a, a + 1} : IntAcc(macc'[i]) = IntAcc(macc[i])]_vars

(* After macsats or macsatf the accumulator is a sign-extended 48-bit     *)
(* value, and after macsatu a zero-extended one: what mac_set_flags       *)
(* (bit 47 as N), get_mac_ext* and the next accumulate take for granted.  *)
SatNormalizes ==
  [][\A a \in Accs :
       /\ (Macsats(a) \/ Macsatf(a)) => Signed(macc'[a], 8) = Signed(macc'[a], 6)
       /\ Macsatu(a) => macc'[a] < Pow(6)]_vars

(* Switching between fractional and integer mode with a MOVE to MACSR     *)
(* keeps every accumulator's fields: what was accumulator, low and high   *)
(* extension under the old mode is the same under the new one.  This is   *)
(* what set_macsr takes the values apart for.                             *)
ModeSwitchKeepsFields ==
  [][\A v \in MacsrVals :
       SetMacsr(v) => \A i \in Accs : Decode(v, macc'[i]) = Decode(macsr, macc[i])]_vars

(* macsats under OMC saturates an overflowed sum to the bound of the sum's *)
(* own sign: a positive sum too large for 48 bits becomes 0x7fffffff, a   *)
(* negative one 0xffffffff80000000.                                        *)
SatKeepsSign ==
  [][\A a \in Accs :
       (Macsats(a) /\ "OMC" \in macsr /\ Signed(macc[a], 8) # Signed(macc[a], 6))
         => (Signed(macc'[a], 8) < 0) = (Signed(macc[a], 8) < 0)]_vars

(* The saturating signed 32-bit value of an accumulator.                   *)
Sat32(val) ==
  LET s == Signed(val, 8)
  IN  (IF s > Max32 THEN Max32 ELSE IF s < -Max32 - 1 THEN -Max32 - 1 ELSE s) % Pow(4)

(* Reading an accumulator with get_macs gives its value saturated to a    *)
(* signed 32-bit word: 0x7fffffff above, 0x80000000 below.                 *)
GetMacsSaturates == \A a \in Accs : GetMacs(macc[a]) = Sat32(macc[a])

(* In fractional mode under OMC, without rounding or 16-bit reads, MOVE   *)
(* from an accumulator gives its value shifted right by 8 and saturated   *)
(* to a signed 32-bit word, as get_macs does in integer mode: a value     *)
(* past the 32-bit range reads as 0x7fffffff or 0x80000000 by its sign.    *)
GetMacfSaturates ==
  ("FI" \in macsr /\ "OMC" \in macsr /\ "SU" \notin macsr /\ "RT" \notin macsr)
    => \A a \in Accs : GetMacf(macsr, macc[a]) = Sat32(U64(Signed(macc[a], 8) \div Pow(1)))

====

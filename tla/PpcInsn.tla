------------------------------ MODULE PpcInsn ------------------------------
(***************************************************************************)
(* What the PowerPC rotate-and-mask and add-immediate instructions that    *)
(* the backend emits (tcg_out_rlw, tcg_out_rld, ADDI) compute on a host    *)
(* register of h bits whose low word has w bits.  Widths are parameters so *)
(* that models can scale 64/32 down to sizes TLC enumerates; every formula *)
(* is the ISA's, written for h = 64 and w = 32.  Bits are numbered the IBM *)
(* way: bit 0 is the most significant one.                                 *)
(***************************************************************************)
EXTENDS Integers, Bitwise, FiniteSetsExt

Pow2(n) == 2 ^ n

(* x reduced to n bits, as an unsigned value.                              *)
Trunc(x, n) == x % Pow2(n)

(* The n-bit pattern x read as a two's-complement number.                  *)
Signed(x, n) == IF Trunc(x, n) >= Pow2(n - 1) THEN Trunc(x, n) - Pow2(n)
                                                ELSE Trunc(x, n)

(* MASK(mb, me) of the ISA on an n-bit register: ones from IBM bit mb to   *)
(* IBM bit me, wrapping around when mb > me.                               *)
IbmMask(n, mb, me) ==
  LET bits == IF mb <= me THEN mb .. me ELSE (mb .. n - 1) \cup (0 .. me)
  IN  SumSet({Pow2(n - 1 - i) : i \in bits})

(* ROTL of the n-bit value x by sh places.                                 *)
RotL(n, x, sh) ==
  LET k == sh % n
  IN  Trunc(x * Pow2(k), n) + x \div Pow2(n - k)

(* rlwinm ra,rs,sh,mb,me on an h-bit host: rotate the low word, replicated *)
(* into both halves of a 64-bit register (ROTL32), and AND with            *)
(* MASK(mb+32, me+32); on a 32-bit host the register is the word.          *)
RLWINM(h, w, x, sh, mb, me) ==
  LET r == RotL(w, Trunc(x, w), sh)
  IN  IF h = w THEN r & IbmMask(w, mb, me)
               ELSE (r * Pow2(w) + r) & IbmMask(h, mb + w, me + w)

(* rldicl ra,rs,sh,mb and rldicr ra,rs,sh,me (64-bit hosts only).          *)
RLDICL(h, x, sh, mb) == RotL(h, x, sh) & IbmMask(h, mb, h - 1)
RLDICR(h, x, sh, me) == RotL(h, x, sh) & IbmMask(h, 0, me)

(* addi rt,ra,si: a sign-extended immediate added modulo the register.     *)
ADDI(h, x, si) == Trunc(x + si, h)

=============================================================================

------------------------------- MODULE M68kCcr -------------------------------
(***************************************************************************)
(* The lazy condition codes of the m68k CPU, target/m68k/helper.c.  After  *)
(* an add, subtract, compare or logic operation the generated code does    *)
(* not compute X N Z V C: it leaves the operands or the result in cc_n,    *)
(* cc_v and cc_x and records the operation in cc_op.  COMPUTE_CCR turns    *)
(* that into flags, for cpu_m68k_get_ccr (a read) and for flush_flags      *)
(* (which stores them and sets cc_op to CC_OP_FLAGS); cpu_m68k_set_ccr     *)
(* stores given flags.                                                     *)
(*                                                                         *)
(* The operations themselves are generated by translate.c, which is not in *)
(* this repository.  Execute stores what COMPUTE_CCR expects of each       *)
(* cc_op: for ADD and SUB the sign-extended result in cc_n, the           *)
(* sign-extended second operand in cc_v and the carry or borrow in cc_x;   *)
(* for CMP the two sign-extended operands; for LOGIC the result.  A ghost  *)
(* variable, arch, holds the flags the architecture defines for that       *)
(* operation.  uint32_t is WordBits wide; Size[i] is the width of byte,    *)
(* word and long.                                                          *)
(***************************************************************************)
EXTENDS Integers, Bitwise

CONSTANTS
  WordBits,    \* bits of a uint32_t, scaled
  Size,        \* Size[0], Size[1], Size[2]: bits of .b, .w and .l
  Operands     \* Operands[i]: the operand values tried at size i

VARIABLES
  cc_op,       \* env->cc_op: [kind, size]; size is op - CC_OP_ADDB etc.
  cc_x, cc_n, cc_z, cc_v, cc_c,   \* env->cc_x .. env->cc_c
  arch         \* ghost: the X N Z V C the last operation defines

vars == <<cc_op, cc_x, cc_n, cc_z, cc_v, cc_c, arch>>

Word     == 2 ^ WordBits
U(x)     == x % Word                               \* to uint32_t
Sign(x)  == x \div (Word \div 2)                   \* x >> 31
Compl(x) == Word - 1 - x                           \* ~x

(* EXTSIGN(val, index), lines 772-774: (int8_t), (int16_t) or unchanged.   *)
EXTSIGN(val, i) ==
  LET w == 2 ^ Size[i]
      y == val % w
  IN  U(IF y >= w \div 2 THEN y - w ELSE y)

Kinds == {"FLAGS", "ADD", "SUB", "CMP", "LOGIC"}
Flags == [x : {0, 1}, n : {0, 1}, z : {0, 1}, v : {0, 1}, c : {0, 1}]

(* Mutant: CMP's carry from a signed comparison of the operands,          *)
(* (int32_t)src1 < (int32_t)src2, instead of the unsigned one.             *)
COMPUTE_CCRCmpSigned(op, x, n, z, v, c) ==
  LET sw(y) == IF y >= Word \div 2 THEN y - Word ELSE y
  IN  CASE op.kind = "CMP" ->
             LET res == EXTSIGN(U(n - v), op.size)
             IN  [x |-> x, n |-> res, z |-> res, c |-> IF sw(n) < sw(v) THEN 1 ELSE 0,
                  v |-> (res ^^ n) & (n ^^ v)]
        [] op.kind = "FLAGS" -> [x |-> x, n |-> n, z |-> z, v |-> v, c |-> c]
        [] op.kind = "ADD" ->
             LET src1 == EXTSIGN(U(n - v), op.size)
             IN  [x |-> x, n |-> n, z |-> n, c |-> x, v |-> (n ^^ src1) & Compl(src1 ^^ v)]
        [] op.kind = "SUB" ->
             LET src1 == EXTSIGN(U(n + v), op.size)
             IN  [x |-> x, n |-> n, z |-> n, c |-> x, v |-> (n ^^ src1) & (src1 ^^ v)]
        [] op.kind = "LOGIC" -> [x |-> x, n |-> n, z |-> n, v |-> 0, c |-> 0]

(* COMPUTE_CCR, lines 776-820: the flags (x, n, z, v, c, still in the      *)
(* representation of the cc_ fields) that cc_op op and the fields make.    *)
COMPUTE_CCR(op, x, n, z, v, c) ==
  CASE op.kind = "FLAGS" -> [x |-> x, n |-> n, z |-> z, v |-> v, c |-> c]
    [] op.kind = "ADD" ->
         LET src1 == EXTSIGN(U(n - v), op.size)
         IN  [x |-> x, n |-> n, z |-> n, c |-> x,
              v |-> (n ^^ src1) & Compl(src1 ^^ v)]
    [] op.kind = "SUB" ->
         LET src1 == EXTSIGN(U(n + v), op.size)
         IN  [x |-> x, n |-> n, z |-> n, c |-> x,
              v |-> (n ^^ src1) & (src1 ^^ v)]
    [] op.kind = "CMP" ->
         LET res == EXTSIGN(U(n - v), op.size)
         IN  [x |-> x, n |-> res, z |-> res, c |-> IF n < v THEN 1 ELSE 0,
              v |-> (res ^^ n) & (n ^^ v)]
    [] op.kind = "LOGIC" -> [x |-> x, n |-> n, z |-> n, v |-> 0, c |-> 0]

(* cpu_m68k_get_ccr, lines 822-840 (HELPER(get_ccr), 842-845): the five    *)
(* flags, as bits.  It changes no state, so it is an operator.             *)
GetCcr ==
  LET f == COMPUTE_CCR(cc_op, cc_x, cc_n, cc_z, cc_v, cc_c)
  IN  [x |-> f.x, n |-> Sign(f.n), z |-> IF f.z = 0 THEN 1 ELSE 0,
       v |-> Sign(f.v), c |-> f.c]

(* The flags the architecture defines for operation k at size i on a, b    *)
(* (dest op src); CMP and the logic operations leave X alone.              *)
ArchFlags(k, i, a, b, x) ==
  LET w    == 2 ^ Size[i]
      sx(y) == IF y >= w \div 2 THEN y - w ELSE y
      r    == CASE k = "ADD" -> a + b [] k = "SUB" -> a - b
                [] k = "CMP" -> a - b [] k = "LOGIC" -> a
      res  == r % w
      cy   == IF k = "ADD" THEN r >= w ELSE IF k = "LOGIC" THEN FALSE ELSE a < b
      ov   == CASE k = "ADD" -> sx(a) + sx(b) # sx(res)
                [] k \in {"SUB", "CMP"} -> sx(a) - sx(b) # sx(res)
                [] OTHER -> FALSE
      bit(p) == IF p THEN 1 ELSE 0
  IN  [x |-> IF k \in {"ADD", "SUB"} THEN bit(cy) ELSE x,
       n |-> bit(res >= w \div 2), z |-> bit(res = 0), v |-> bit(ov), c |-> bit(cy)]

Init ==
  /\ cc_op = [kind |-> "FLAGS", size |-> 0]
  /\ cc_x = 0 /\ cc_n = 0 /\ cc_v = 0 /\ cc_c = 0 /\ cc_z = 1
  /\ arch = [x |-> 0, n |-> 0, z |-> 0, v |-> 0, c |-> 0]

(* An operation k at size i with destination a and source b, as the       *)
(* translator leaves it (gen_update_cc_add, gen_update_cc_cmp, ...).       *)
Execute(k, i, a, b) ==
  LET w   == 2 ^ Size[i]
      res == CASE k = "ADD" -> (a + b) % w [] k = "SUB" -> (a - b) % w
               [] OTHER -> a
  IN  /\ cc_op' = [kind |-> k, size |-> i]
      /\ cc_n' = EXTSIGN(IF k = "CMP" THEN a ELSE res, i)
      /\ cc_v' = IF k = "LOGIC" THEN cc_v ELSE EXTSIGN(b, i)
      /\ cc_x' = CASE k = "ADD" -> IF a + b >= w THEN 1 ELSE 0
                   [] k = "SUB" -> IF a < b THEN 1 ELSE 0
                   [] OTHER     -> cc_x
      /\ arch' = ArchFlags(k, i, a, b, arch.x)
      /\ UNCHANGED <<cc_z, cc_c>>

(* cpu_m68k_set_ccr, lines 847-855 (HELPER(set_ccr), 857-860): the flags *)
(* in the CC_OP_FLAGS representation; N and V as all-ones, Z inverted.     *)
SetCcr(ccr) ==
  /\ cc_x' = ccr.x
  /\ cc_n' = IF ccr.n = 1 THEN U(-1) ELSE 0
  /\ cc_z' = IF ccr.z = 1 THEN 0 ELSE 1
  /\ cc_v' = IF ccr.v = 1 THEN U(-1) ELSE 0
  /\ cc_c' = ccr.c
  /\ cc_op' = [kind |-> "FLAGS", size |-> 0]
  /\ arch' = ccr

(* HELPER(flush_flags), lines 862-868, called with the current cc_op:      *)
(* COMPUTE_CCR on the env fields themselves, then CC_OP_FLAGS.             *)
FlushFlags ==
  LET f == COMPUTE_CCR(cc_op, cc_x, cc_n, cc_z, cc_v, cc_c)
  IN  /\ cc_x' = f.x /\ cc_n' = f.n /\ cc_z' = f.z /\ cc_v' = f.v /\ cc_c' = f.c
      /\ cc_op' = [kind |-> "FLAGS", size |-> 0]
      /\ UNCHANGED arch

Next ==
  \/ \E k \in Kinds \ {"FLAGS"}, i \in DOMAIN Size :
       \E a, b \in Operands[i] : Execute(k, i, a, b)
  \/ \E ccr \in Flags : SetCcr(ccr)
  \/ FlushFlags

Spec == Init /\ [][Next]_vars

TypeOK ==
  /\ cc_op \in [kind : Kinds, size : DOMAIN Size]
  /\ {cc_x, cc_n, cc_z, cc_v, cc_c} \subseteq 0 .. Word - 1
  /\ arch \in Flags

(* Lazy flags are exact: whatever sequence of operations, CCR writes and  *)
(* flushes has run, MOVE from CCR (cpu_m68k_get_ccr) returns the X N Z V C *)
(* the last operation defines, at every operand size.  A wrong overflow    *)
(* formula, a carry taken from the wrong field, or a flush that stores     *)
(* flags in a representation get_ccr reads differently breaks it.          *)
CcrExact == GetCcr = arch

====

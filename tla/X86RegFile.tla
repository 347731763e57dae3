----------------------------- MODULE X86RegFile -----------------------------
(***************************************************************************)
(* What the x86 register API of Unicorn promises about the general-purpose *)
(* registers, stated without the code: each register is a row of bytes (4  *)
(* in 16- and 32-bit mode, 8 in 64-bit mode), and every name the API       *)
(* accepts for it (RAX, EAX, AX, AH, AL; RSP .. SPL; R8 .. R8B) is a view  *)
(* of some of those bytes.  Writing a name changes exactly the bytes of    *)
(* its view; reading a name (which changes nothing) returns them; a name   *)
(* the mode does not have is refused with UC_ERR_ARG.                      *)
(*                                                                         *)
(* A name is a pair <<family, view>>: family "A" with view "D" is EAX,     *)
(* family "SP" with view "L" is SPL, family "R8" with view "W" is R8W.     *)
(***************************************************************************)
EXTENDS Integers, FiniteSets

CONSTANTS
  ByteBits,    \* bits of a byte; 8 in the code, scaled down for TLC
  Gprs         \* the register families modelled

VARIABLES
  mode,        \* UC_MODE_16, _32 or _64, fixed when the engine is opened
  bytes,       \* bytes[f][k]: byte k of the register of family f
  ret,         \* the uc_err of the last write
  call         \* <<name, value>> of the last write, <<>> before the first

avars == <<mode, bytes, ret, call>>

Legacy == {"A", "B", "C", "D"}
Ptr    == {"SP", "BP", "SI", "DI"}
Ext    == {"R8", "R9", "R10", "R11", "R12", "R13", "R14", "R15"}
Views  == {"Q", "D", "W", "H", "L"}

(* The bytes of a register each view covers.                               *)
ViewBytes == [Q |-> 0 .. 7, D |-> 0 .. 3, W |-> 0 .. 1, H |-> {1}, L |-> {0}]
ViewBase  == [Q |-> 0, D |-> 0, W |-> 0, H |-> 1, L |-> 0]

Width(m) == IF m = 64 THEN 8 ELSE 4

(* The views the architecture names in each mode: AH..DH exist only for    *)
(* the legacy four; SPL..DIL and R8..R15 only in 64-bit mode.              *)
ArchViews(m, f) ==
  CASE f \in Legacy -> IF m = 64 THEN Views ELSE Views \ {"Q"}
    [] f \in Ptr    -> IF m = 64 THEN {"Q", "D", "W", "L"} ELSE {"D", "W"}
    [] f \in Ext    -> IF m = 64 THEN {"Q", "D", "W", "L"} ELSE {}

Names == {<<f, v>> : f \in Gprs, v \in Views}

ByteOf(x, k) == (x \div 2 ^ (k * ByteBits)) % 2 ^ ByteBits

(* The value of view v of a register row: its bytes, lowest first.        *)
ViewValue(row, v) ==
  LET lo == ViewBase[v]
      RECURSIVE Val(_)
      Val(j) == IF j < lo THEN 0
                ELSE row[j] * 2 ^ ((j - lo) * ByteBits) + Val(j - 1)
  IN  Val(lo + Cardinality(ViewBytes[v]) - 1)

AInit ==
  /\ mode \in {16, 32, 64}
  /\ bytes = [f \in Gprs |-> [k \in 0 .. Width(mode) - 1 |-> 0]]
  /\ ret = "OK"
  /\ call = <<>>

(* A write of x to view n: the bytes of the view now hold x and every    *)
(* other byte of every register keeps its value.                           *)
Write(n, x) ==
  IF n[2] \in ArchViews(mode, n[1])
  THEN /\ DOMAIN bytes' = DOMAIN bytes
       /\ \A f \in Gprs : DOMAIN bytes'[f] = DOMAIN bytes[f]
       /\ \A f \in Gprs \ {n[1]} : bytes'[f] = bytes[f]
       /\ \A k \in DOMAIN bytes[n[1]] \ ViewBytes[n[2]] :
            bytes'[n[1]][k] = bytes[n[1]][k]
       /\ ViewValue(bytes'[n[1]], n[2]) = x
       /\ ret' = "OK"
       /\ UNCHANGED mode
  ELSE /\ ret' = "ARG"
       /\ UNCHANGED <<mode, bytes>>

(* The caller's next write: a name and a value of the size of its view.   *)
Values(n) == 0 .. 2 ^ (Cardinality(ViewBytes[n[2]]) * ByteBits) - 1

(* What reading name n returns in the current state.                      *)
ReadResult(n) ==
  IF n[2] \in ArchViews(mode, n[1])
  THEN [ret |-> "OK", value |-> ViewValue(bytes[n[1]], n[2])]
  ELSE [ret |-> "ARG"]

ANext ==
  /\ DOMAIN call' = 1 .. 2
  /\ call'[1] \in Names
  /\ call'[2] \in Values(call'[1])
  /\ Write(call'[1], call'[2])

(* The caller chooses call' and ASpec constrains it; it is checked as    *)
(* the property of an implementation, which supplies the call.            *)
ASpec == AInit /\ [][ANext]_avars

====

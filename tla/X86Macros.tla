----------------------------- MODULE X86Macros ------------------------------
(***************************************************************************)
(* The field macros reg_read and reg_write of i386/unicorn.c apply to a    *)
(* 64-bit field of CPUX86State (READ_BYTE_L, WRITE_WORD, ...; they are     *)
(* defined in uc_priv.h, outside this source tree, and given here as their *)
(* names and uses say).  A byte is ByteBits bits instead of 8.             *)
(***************************************************************************)
EXTENDS Integers

CONSTANT ByteBits

Pow(w) == 2 ^ (w * ByteBits)      \* 2^(w bytes)
QMax   == Pow(8)

(* The WRITE_* and READ_* macros of uc_priv.h on a 64-bit field x.         *)
Store(op, x, v) ==
  CASE op = "assign" -> v
    [] op = "dword"  -> x - (x % Pow(4)) + v
    [] op = "word"   -> x - (x % Pow(2)) + v
    [] op = "byteH"  -> x - ((x % Pow(2)) - (x % Pow(1))) + v * Pow(1)
    [] op = "byteL"  -> x - (x % Pow(1)) + v

Load(op, x) ==
  CASE op = "qword" -> x
    [] op = "dword" -> x % Pow(4)
    [] op = "word"  -> x % Pow(2)
    [] op = "byteH" -> (x \div Pow(1)) % Pow(1)
    [] op = "byteL" -> x % Pow(1)

====

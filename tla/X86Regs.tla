------------------------------- MODULE X86Regs -------------------------------
(***************************************************************************)
(* The x86 register API of Unicorn, src/qemu/target/i386/unicorn.c:        *)
(* reg_read and reg_write on the general-purpose registers.  The PC names  *)
(* and CS are in X86Pc: the two touch disjoint fields of CPUX86State.      *)
(*                                                                         *)
(* env->regs[i] and env->eip are 64-bit (a TARGET_X86_64 build); a byte is *)
(* ByteBits bits here instead of 8, so every width of the code (8, 16, 32, *)
(* 64) is scaled by ByteBits / 8.                                          *)
(*                                                                         *)
(* Each switch case is a row of a table: the name it accepts, the index    *)
(* of env->regs it touches and the macro it applies.  16-bit mode has no   *)
(* case of its own for these names and falls through to the 32-bit switch. *)
(* CHECK_REG_TYPE's size check is not modelled: every call passes a buffer *)
(* of the right size.                                                      *)
(***************************************************************************)
EXTENDS X86Macros, TLC

CONSTANTS
  Gprs,        \* register families modelled, a subset of those of X86RegFile
  Modes        \* the modes an engine may be opened in

VARIABLES
  mode,        \* uc->mode
  regs,        \* env->regs, by index
  ret,         \* the uc_err the last reg_write returned
  call         \* <<regid, value>> of the last reg_write

vars == <<mode, regs, ret, call>>

(* R_EAX .. R_EDI of cpu.h, and 8 .. 15.                                   *)
Idx == [A |-> 0, C |-> 1, D |-> 2, B |-> 3, SP |-> 4, BP |-> 5, SI |-> 6, DI |-> 7,
        R8 |-> 8, R9 |-> 9, R10 |-> 10, R11 |-> 11, R12 |-> 12, R13 |-> 13,
        R14 |-> 14, R15 |-> 15]

(* Refinement mapping: the architectural bytes are the bytes of            *)
(* env->regs[i] the mode shows (the low 4 outside 64-bit mode).             *)
RegBytes ==
  [f \in Gprs |-> [k \in 0 .. (IF mode = 64 THEN 8 ELSE 4) - 1 |->
                    (regs[Idx[f]] \div Pow(k)) % Pow(1)]]

File == INSTANCE X86RegFile WITH bytes <- RegBytes

(* The bytes a value of each C parameter type holds (CHECK_REG_TYPE).      *)
TypeBytes == [Q |-> 8, D |-> 4, W |-> 2, H |-> 1, L |-> 1]

F(fams, views) == {<<f, v>> : f \in fams \cap Gprs, v \in views}

(* reg_write, UC_MODE_32 GPR cases, lines 1288-1383: EAX .. EDI assign the *)
(* uint32_t, the 16- and 8-bit names go through WRITE_WORD / WRITE_BYTE_*. *)
Write32Gpr ==
  [n \in F(File!Legacy, {"D", "W", "H", "L"}) \cup F(File!Ptr, {"D", "W"}) |->
     [D |-> "assign", W |-> "word", H |-> "byteH", L |-> "byteL"][n[2]]]

(* Mutant: EAX .. EDI assigned as a uint64_t (the zero-extension a 32-bit *)
(* mov does on the hardware) instead of merged by WRITE_DWORD.             *)
Write64LegacyZeroExt ==
  [n \in F(File!Legacy, File!Views) \cup F(File!Ptr, {"Q", "D", "W", "L"}) |->
     [Q |-> "assign", D |-> "assign", W |-> "word", H |-> "byteH", L |-> "byteL"][n[2]]]

(* reg_write, UC_MODE_64, RAX .. DIL, lines 1537-1680: the 64-bit names    *)
(* assign the uint64_t, every narrower one goes through WRITE_DWORD /      *)
(* WRITE_WORD / WRITE_BYTE_H / WRITE_BYTE_L.                               *)
Write64Legacy ==
  [n \in F(File!Legacy, File!Views) \cup F(File!Ptr, {"Q", "D", "W", "L"}) |->
     [Q |-> "assign", D |-> "dword", W |-> "word", H |-> "byteH", L |-> "byteL"][n[2]]]

(* reg_write, UC_MODE_64, R8 .. R15B, lines 1728-1879: the same shape.     *)
Write64Ext ==
  [n \in F(File!Ext, {"Q", "D", "W", "L"}) |->
     [Q |-> "assign", D |-> "dword", W |-> "word", L |-> "byteL"][n[2]]]

(* reg_read, UC_MODE_32 GPR cases, lines 434-529: EAX .. EDI read the      *)
(* register through an int32_t, the rest through READ_WORD / READ_BYTE_*.  *)
Read32Gpr ==
  [n \in DOMAIN Write32Gpr |->
     [D |-> "dword", W |-> "word", H |-> "byteH", L |-> "byteL"][n[2]]]

(* reg_read, UC_MODE_64, RAX .. DIL, lines 638-781, and R8 .. R15B, lines  *)
(* 818-969 (READ_QWORD for R8 .. R15).                                      *)
Read64Legacy ==
  [n \in DOMAIN Write64Legacy |->
     [Q |-> "qword", D |-> "dword", W |-> "word", H |-> "byteH", L |-> "byteL"][n[2]]]

Read64Ext ==
  [n \in DOMAIN Write64Ext |->
     [Q |-> "qword", D |-> "dword", W |-> "word", L |-> "byteL"][n[2]]]

(* The switch (mode) of reg_write, lines 1217-1250, and of reg_read, lines *)
(* 370-405: UC_MODE_16 has no GPR case and falls through to UC_MODE_32.    *)
WriteTable(m) == IF m = 64 THEN Write64Legacy @@ Write64Ext ELSE Write32Gpr
ReadTable(m)  == IF m = 64 THEN Read64Legacy @@ Read64Ext ELSE Read32Gpr

WriteVals(v) == {0, 1, Pow(TypeBytes[v]) - 1}

Init ==
  /\ mode \in Modes
  /\ regs = [i \in {Idx[f] : f \in Gprs} |-> 0]
  /\ ret = "OK"
  /\ call = <<>>

(* reg_write(regid = n, value = v) on a general-purpose register; a name   *)
(* no case of the mode takes falls to "default: break" and UC_ERR_ARG.     *)
RegWriteGpr(n, v) ==
  /\ IF n \in DOMAIN WriteTable(mode)
     THEN /\ regs' = [regs EXCEPT ![Idx[n[1]]] = Store(WriteTable(mode)[n], @, v)]
          /\ ret' = "OK"
     ELSE /\ ret' = "ARG"
          /\ UNCHANGED regs
  /\ call' = <<n, v>>
  /\ UNCHANGED mode

(* reg_read(regid = n) on a general-purpose register: what it stores in   *)
(* *value and returns.  It changes no state, so it is an operator.         *)
RegReadGpr(n) ==
  IF n \in DOMAIN ReadTable(mode)
  THEN [ret |-> "OK", value |-> Load(ReadTable(mode)[n], regs[Idx[n[1]]])]
  ELSE [ret |-> "ARG"]

Next ==
  \E n \in File!Names : \E v \in WriteVals(n[2]) : RegWriteGpr(n, v)

Spec == Init /\ [][Next]_vars

TypeOK ==
  /\ mode \in Modes
  /\ regs \in [{Idx[f] : f \in Gprs} -> 0 .. QMax - 1]
  /\ ret \in {"OK", "ARG"}

(* Every reg_read and reg_write of a general-purpose register behaves as   *)
(* the byte-view register file of X86RegFile: a write of EAX, AX, AH or AL *)
(* (or R8D, SPL ...) changes exactly the bytes of that view of the right   *)
(* register, a read in any state returns them, and a name the mode lacks is refused.   *)
(* A case that names the wrong index, the wrong byte, or a zero-extending  *)
(* store where the others merge, breaks it after some sequence of calls.   *)
GprViews ==
  /\ File!ASpec
  /\ [](\A n \in File!Names : RegReadGpr(n) = File!ReadResult(n))

====

-------------------------------- MODULE X86Pc --------------------------------
(***************************************************************************)
(* The program counter of the x86 target as Unicorn's API sees it,         *)
(* src/qemu/target/i386/unicorn.c: reg_write on RIP / EIP / IP and on CS,  *)
(* x86_set_pc (uc_emu_start's begin address) and x86_get_pc.  The CPU      *)
(* fetches from cs_base + eip.                                             *)
(*                                                                         *)
(* Widths are scaled by ByteBits / 8 as in X86Macros: env->eip has 8       *)
(* bytes, a selector 2.  The segment shift, * 16, is the code's.  CS is    *)
(* written only in 16-bit (real) mode and in 64-bit mode: in 32-bit mode   *)
(* cpu_x86_load_seg checks a descriptor of a GDT this module does not      *)
(* have.                                                                   *)
(***************************************************************************)
EXTENDS X86Macros

CONSTANTS
  Modes,       \* the modes an engine may be opened in
  SelVals,     \* CS selectors written
  PcAddrs      \* begin addresses given to uc_emu_start

VARIABLES
  mode,        \* uc->mode
  eip,         \* env->eip
  csSel,       \* env->segs[R_CS].selector
  csBase,      \* env->segs[R_CS].base
  ret,         \* the uc_err of the last reg_write
  setpc        \* *setpc of the last reg_write

vars == <<mode, eip, csSel, csBase, ret, setpc>>

(* reg_write on the PC names: UC_MODE_32 (and 16, which falls through)     *)
(* lines 1384-1393, UC_MODE_64 lines 1681-1695.  Outside 64-bit mode IP    *)
(* assigns the uint16_t to env->eip; in 64-bit mode it is WRITE_WORD.      *)
PcWrite32 == [EIP |-> "assign", IP |-> "assign"]
PcWrite64 == [RIP |-> "assign", EIP |-> "assign", IP |-> "word"]

PcTable(m) == IF m = 64 THEN PcWrite64 ELSE PcWrite32

(* The bytes of the value's C type (CHECK_REG_TYPE).                       *)
PcType == [RIP |-> 8, EIP |-> 4, IP |-> 2]

WriteVals(w) == {0, 1, Pow(w) - 1}

(* x86_set_pc, lines 27-34, reads the selector into an int16_t.            *)
Int16(s) == IF s >= Pow(2) \div 2 THEN s - Pow(2) ELSE s

(* x86_get_pc, lines 36-44, with the selector unsigned.                    *)
GetPc == IF mode = 16 THEN (csSel * 16 + eip) % QMax ELSE eip

FetchAddr == (csBase + eip) % QMax

(* reg_reset, lines 68-81 and 142-155: eip and every segment zeroed; in    *)
(* 16-bit mode CS is reloaded with selector 0 and base 0.                  *)
Init ==
  /\ mode \in Modes
  /\ eip = 0 /\ csSel = 0 /\ csBase = 0
  /\ ret = "OK"
  /\ setpc = FALSE

RegWritePc(n, v) ==
  /\ IF n \in DOMAIN PcTable(mode)
     THEN /\ eip' = Store(PcTable(mode)[n], eip, v)
          /\ setpc' = TRUE
          /\ ret' = "OK"
     ELSE /\ ret' = "ARG"
          /\ setpc' = FALSE
          /\ UNCHANGED eip
  /\ UNCHANGED <<mode, csSel, csBase>>

(* Mutant: CS in 16-bit mode stores the selector and not the base, as the  *)
(* 64-bit case does.                                                       *)
RegWriteCsSelectorOnly(v) ==
  /\ mode # 32
  /\ csSel' = v
  /\ ret' = "OK"
  /\ setpc' = FALSE
  /\ UNCHANGED <<mode, eip, csBase>>

(* reg_write on CS.  16-bit mode falls through to the 32-bit case, lines   *)
(* 1394-1401: uc_check_cpu_x86_load_seg passes in real mode (reg_reset     *)
(* leaves CR0 zero, line 144) and cpu_x86_load_seg loads the selector and  *)
(* base = selector << 4.  The 64-bit case, lines 1696-1699, stores the     *)
(* selector alone.                                                         *)
RegWriteCs(v) ==
  /\ mode # 32
  /\ csSel' = v
  /\ csBase' = IF mode = 16 THEN v * 16 ELSE csBase
  /\ ret' = "OK"
  /\ setpc' = FALSE
  /\ UNCHANGED <<mode, eip>>

(* x86_set_pc(address), lines 27-34, as uc_emu_start calls it: eip is the *)
(* address less cs * 16 in 16-bit mode, the address itself otherwise,      *)
(* reduced to the 64 bits of env->eip.                                     *)
SetPc(a) ==
  /\ eip' = IF mode = 16 THEN (a - Int16(csSel) * 16) % QMax ELSE a
  /\ UNCHANGED <<mode, csSel, csBase, ret, setpc>>

Next ==
  \/ \E n \in DOMAIN PcType : \E v \in WriteVals(PcType[n]) : RegWritePc(n, v)
  \/ \E v \in SelVals : RegWriteCs(v)
  \/ \E a \in PcAddrs : SetPc(a)

Spec == Init /\ [][Next]_vars

TypeOK ==
  /\ mode \in Modes
  /\ eip \in 0 .. QMax - 1
  /\ csSel \in SelVals \cup {0}
  /\ ret \in {"OK", "ARG"}

(* x86_get_pc, which uc_reg_read(UC_X86_REG_PC)-style callers and hooks    *)
(* rely on, reports the address the CPU fetches from, cs_base + eip, after *)
(* any sequence of CS, RIP / EIP / IP writes and set_pc calls: the base a  *)
(* CS write loads must be the selector * 16 that get_pc adds.              *)
PcReported == GetPc = FetchAddr

(* uc_emu_start(begin) calls x86_set_pc(begin): the CPU must then fetch    *)
(* its first instruction from begin, i.e. cs_base + eip = begin.           *)
SetPcStartsAtBegin ==
  [][\A a \in PcAddrs : SetPc(a) => FetchAddr' = a]_vars

====

------------------------------ MODULE MCX86Regs ------------------------------
(* The x86 GPR API with one-bit bytes: registers of 8 bits, AH and AL     *)
(* single bits.  Three families, one of each kind: A (with AH), SP (SPL   *)
(* only in 64-bit mode), R8 (64-bit mode only).                           *)
EXTENDS X86Regs

MCByteBits == 1
MCGprs     == {"A", "SP", "R8"}
MCModes    == {16, 32, 64}
====

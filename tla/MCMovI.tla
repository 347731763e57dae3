------------------------------- MODULE MCMovI -------------------------------
(* MovI on a 16-bit "64-bit" host: 8-bit words, 4-bit immediates.  Two TB  *)
(* starts, one positive and one negative as intptr_t, put constants of     *)
(* every strategy within 16 and within 32 bits of TB.                      *)
EXTENDS MovI

MCDBits == 16
MCWBits == 8
MCHBits == 4
\* 0x1234: every digit distinct and non-zero, as in 0x123456789abcdef0;
\* it fits no short form, and lies far from both TB starts.
MCWideConst == 4660
MCCodeGenPtrs == {Pow2(14) + 64, -Pow2(14) - 128}
====

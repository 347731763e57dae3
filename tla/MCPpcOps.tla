------------------------------ MODULE MCPpcOps ------------------------------
(* PpcOps on MovI's 16-bit "64-bit" host (8-bit words, 4-bit immediates,   *)
(* 2-bit bswap bytes).                                                     *)
EXTENDS PpcOps

MCDBits == 16
MCWBits == 8
MCHBits == 4
MCWideConst == 4660
MCCodeGenPtrs == {Pow2(14) + 64, -Pow2(14) - 128}
\* All ones, and 0x1b72: eight 2-bit "bytes" 00 01 10 11 01 11 00 10, no
\* two halves or byte orders alike.
MCOperandVals == {65535, 7026}
\* Every run of ones (both ends), every 4-bit immediate in both halves of
\* the low word, and constants of no special form.
MCConsts64 ==
  LET runs == {Pow2(i) - Pow2(j) : i \in 1 .. 16, j \in 0 .. 15} \cap 1 .. 65535
  IN  runs \cup {65535 - r : r \in runs}
      \cup {k * 17 : k \in 0 .. 15} \cup {4660, 43981, 32769, 255 * 16}
====

------------------------------ MODULE MCM68kMac ------------------------------
(* 2-bit bytes: macc is 16 bits, an accumulator 8, the extension bytes 2.  *)
EXTENDS M68kMac

MCByteBits == 2

(* ACC0 and ACC1, one extension pair: the helpers treat every accumulator *)
(* and every pair alike.                                                   *)
MCAccs == 0 .. 1

(* ACC0 a positive and ACC1 a negative 48-bit value, or ACC0 a sum that   *)
(* overflowed 48 bits upward (0x800) and ACC1 one that overflowed         *)
(* downward (0xf7ff), as the accumulate leaves them.                       *)
MCAccInit == {[i \in MCAccs |-> <<1833, 63702>>[i + 1]],
              [i \in MCAccs |-> <<2048, 63487>>[i + 1]]}

MCSrInit == {{}, {"FI"}, {"SU", "OMC"}}

MCMacsrVals == {{}, {"FI"}, {"SU"}, {"FI", "OMC"}, {"SU", "OMC", "RT"}}

(* Bytes 00 01 11 10, lowest first: every byte distinct, a positive low  *)
(* half and a negative high half.                                          *)
MCExtVals == {180}

(* -1 and 0x80000000, scaled.                                           *)
MCMulOps == {255, 128}

(* 2^13 and 2^14 of a 16-bit word: the order of 1 << 50 and 1 << 53 between *)
(* 2^48 (2^12) and 2^63 (2^15).                                            *)
MCBit50 == 8192
MCBit53 == 16384
====

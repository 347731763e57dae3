---------------------------- MODULE MCTlbCompare ----------------------------
(* TlbCompare for TLC: a word of 5 bits (a guest address of 5 or 10 bits), *)
(* pages of 16 bytes, accesses of 1 to 8 bytes, TLB_INVALID_MASK as the    *)
(* bit just below the page bits, and a 2-entry TLB so that every page of   *)
(* the same parity competes for one slot.                                  *)
EXTENDS TlbCompare

MCWordBits == 5
MCPageBits == 4
MCFlagBits == {3}
MCMaxSizeBits == 3
MCTlbBits == 1
====

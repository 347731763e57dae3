------------------------------ MODULE MCM68kCcr ------------------------------
(* A 6-bit uint32_t; byte, word and long of 2, 4 and 6 bits.               *)
EXTENDS M68kCcr

MCWordBits == 6

MCSize == [i \in 0 .. 2 |-> <<2, 4, 6>>[i + 1]]

(* Every byte; for word and long, 0, 1, the largest positive, the most    *)
(* negative, -1 and one more value on each side of the sign boundary.       *)
MCOperands == [i \in 0 .. 2 |->
                 IF i = 0 THEN 0 .. 3
                 ELSE LET w == 2 ^ MCSize[i]
                      IN  {0, 1, w \div 2 - 2, w \div 2 - 1, w \div 2, w \div 2 + 1, w - 1}]
====

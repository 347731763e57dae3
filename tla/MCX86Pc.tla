------------------------------- MODULE MCX86Pc -------------------------------
(* The x86 PC with two-bit bytes: env->eip of 16 bits, selectors of 4.     *)
EXTENDS X86Pc

MCByteBits == 2
MCModes    == {16, 32, 64}
\* 1, and 8: the top bit of a 4-bit selector, as in 0xF000 of a 16-bit one.
MCSelVals  == {1, 8}
MCPcAddrs  == {256}
====

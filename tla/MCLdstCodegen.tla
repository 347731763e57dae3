---------------------------- MODULE MCLdstCodegen ----------------------------
(***************************************************************************)
(* Model values for LdstCodegen.  Two guest addresses (distinct pages) and *)
(* two memory values let a store change what a later load sees and a TLB  *)
(* refill by one access turn the next access of the other into a hit.     *)
(* Blocks have one or two ops, every combination of load and store and of  *)
(* operand registers the constraints allow, and a non-memory op that pads  *)
(* the code between a branch and its stub.                                *)
(***************************************************************************)
EXTENDS LdstCodegen

CONSTANTS a1, a2, junk

MCAddrs == {a1, a2}
MCVals  == {0, 1}

\* blocks of one memory op with every register assignment the constraints
\* allow, and of two ops (loads and stores in any order, or a memory op
\* and a non-memory op) whose memory ops use the registers R7 and R14
MCOpStreams ==
  LET M == {op \in MemOps : op.kind # "other"}
      C == {op \in M : op.addr = "R14" /\ op.data = "R7"}
      O == {op \in MemOps : op.kind = "other"}
  IN  {<<x>> : x \in M}
        \cup {<<x, y>> : x, y \in C}
        \cup {<<x, y>> : x \in C, y \in O}

\* the branch of the last op of a block reaches its stub
MCReach14 == 12
MCFillLen == 2

\* a conditional branch that reaches 4 entries: the branch of a memory op
\* followed by a non-memory op is 5 entries from its stub
MCReach14Short == 4
\* tcg.h: CPU_TEMP_BUF_NLONGS and TCG_STATIC_CALL_ARGS_SIZE
MCCpuTempBufNLongs   == 128
MCStaticCallArgsSize == 128
=============================================================================

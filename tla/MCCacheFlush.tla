---------------------------- MODULE MCCacheFlush ----------------------------
(* CacheFlush on a 24-byte code buffer (6 instruction words) with 8- and   *)
(* 16-byte cache blocks, so a flush range may start and end inside a      *)
(* block and a block holds more than one word.                             *)
EXTENDS CacheFlush

MCMemSize == 24
MCVals == {0, 1}
\* Hosts whose L1 data and instruction blocks have the same size.
MCSameLines == {<<8, 8>>, <<16, 16>>}
\* Hosts whose L1 data and instruction blocks differ.
MCMixedLines == {<<8, 16>>, <<16, 8>>}
====

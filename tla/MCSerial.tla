------------------------------ MODULE MCSerial ------------------------------
(***************************************************************************)
(* The serial log for TLC: ints of nine bits, with the numbers at which a  *)
(* digit is gained and at both ends of the range.                          *)
(***************************************************************************)
EXTENDS Serial

MCStrings == <<<<>>, <<97, PERCENT>>>>

MCPieces ==
  {<<0, 97>>, <<0, LF>>, <<PERCENT, 0>>, <<113, 0>>, <<Letter.c, 97>>}
  \cup {<<Letter.s, a>> : a \in {0, 1, 2}}
  \cup {<<Letter.d, w>> : w \in {0, 9, 10, 255, 256, 257, 502, 503, 511}}
  \cup {<<Letter.u, w>> : w \in {0, 99, 100, 511}}
  \cup {<<Letter.x, w>> : w \in {0, 15, 16, 171, 256, 511}}

MCBanner == <<101, LF>>

MCKeyLog == <<107, LF>>

=============================================================================

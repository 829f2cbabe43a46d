---------------------------- MODULE MCBufDecoder ---------------------------
(***************************************************************************)
(* Texts for TLC: short lines, long ones, none at all.                     *)
(***************************************************************************)
EXTENDS BufDecoder

MCEndSets ==
  {{}, {12}, {1, 2, 3, 4, 6}, {2, 5, 11}, {7, 12}, {3, 13, 14}, {k \in 1 .. 20 : k % 2 = 0}}
=============================================================================

---------------------------- MODULE MCTrapWatch ----------------------------
(***************************************************************************)
(* Two instructions in ROM and one in RAM.  At 1 a word and a double word  *)
(* are unaligned, at 2 only a double word is, at 4 none: three watchpoints *)
(* need from three to six registers.                                       *)
(***************************************************************************)
EXTENDS TrapWatch

MCCode == {16, 17, 18}
MCRom == {17, 18}
MCBytes == {1, 2, 4}
=============================================================================

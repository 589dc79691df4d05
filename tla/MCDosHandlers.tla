--------------------------- MODULE MCDosHandlers ---------------------------
(***************************************************************************)
(* Nested calls (a call from a handler that DOS called back) need a depth  *)
(* of two; two lost calls allow a process that dies in a nested call.      *)
(***************************************************************************)
EXTENDS DosHandlers

MCCountSize == 256
=============================================================================

--------------------------- MODULE MCMemoryFunctions ---------------------------
(* An instance of MemoryFunctions for TLC: every call on every memory of five *)
(* bytes of three values.                                                     *)
EXTENDS MemoryFunctions

MCFills == {-1, 1, 5}
===============================================================================

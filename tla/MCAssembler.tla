---- MODULE MCAssembler ----
(* A small instance of Assembler: immediates on both sides of the sign bit. *)
EXTENDS Assembler

MCImmediates == {-2, 1}
=============================================================================

-------------------------- MODULE MC_BindingArgs ---------------------------
(* Ints of five bits, so that the product of three small ones can wrap.      *)
EXTENDS BindingArgs, TLC

MC_Ints == -1 .. 3
MC_Rows == UNION {[1 .. k -> 0 .. 2] : k \in 0 .. 2}
=============================================================================

---------------------------- MODULE MCSessionHost ----------------------------
(* Small instances of SessionHost. *)
EXTENDS SessionHost, TLC

Symmetry == Permutations(Prompts)
=============================================================================

---------------------------- MODULE MCConnection ----------------------------
(***************************************************************************)
(* Connection for TLC: transports are interchangeable.                     *)
(***************************************************************************)
EXTENDS Connection, TLC

Symmetry == Permutations(Transports)
=============================================================================

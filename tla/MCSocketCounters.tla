-------------------------- MODULE MCSocketCounters --------------------------
(***************************************************************************)
(* Small instances of SocketCounters: the modulus only has to exceed the   *)
(* traffic, and the callers are interchangeable.                           *)
(***************************************************************************)
EXTENDS SocketCounters, TLC

Symmetry == Permutations(Callers)
=============================================================================

---------------------------- MODULE MCSingleton ----------------------------
(***************************************************************************)
(* Instances of Singleton for TLC: launches are interchangeable, and every *)
(* property below is a safety property, so symmetry is sound.              *)
(***************************************************************************)
EXTENDS Singleton, TLC

Symmetric == Permutations(Launches)
=============================================================================

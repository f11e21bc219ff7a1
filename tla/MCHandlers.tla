----------------------------- MODULE MCHandlers -----------------------------
(***************************************************************************)
(* A small instance of Handlers for TLC.                                    *)
(***************************************************************************)
EXTENDS Handlers, TLC

Symmetry == Permutations(Client)
=============================================================================

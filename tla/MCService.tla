------------------------------ MODULE MCService ------------------------------
(***************************************************************************)
(* A small instance of Service for TLC.  Which of the handles is the first  *)
(* is immaterial, so it is chosen: three times fewer states, where liveness *)
(* properties rule SYMMETRY out.  The first file is good; one with a record *)
(* that does not decode comes as a replacement.                             *)
(***************************************************************************)
EXTENDS Service

FirstHandle == CHOOSE h \in Handle : TRUE
MCInit == Init /\ db = FirstHandle /\ file.kind = "good"
MCFairSpec == MCInit /\ [][Next]_vars /\ Fairness
=============================================================================

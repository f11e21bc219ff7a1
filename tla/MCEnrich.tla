------------------------------ MODULE MCEnrich ------------------------------
(***************************************************************************)
(* A small instance of Enrich for TLC: four IPv4 and two IPv6 addresses,    *)
(* every CIDR-aligned network in them.                                      *)
(***************************************************************************)
EXTENDS Enrich

MCNetwork == {<<a, a>> : a \in Addr} \cup {<<0, 1>>, <<2, 3>>, <<0, 3>>, <<4, 5>>}
=============================================================================

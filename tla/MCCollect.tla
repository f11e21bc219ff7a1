------------------------------ MODULE MCCollect ------------------------------
(***************************************************************************)
(* A small instance of Collect for TLC: two cloud plugins, one of them      *)
(* without a URL of its own, and one reputation plugin.                     *)
(***************************************************************************)
EXTENDS Collect, TLC

CONSTANTS aws, azure, tor

MCHasDirect == {aws, tor, IPtoASN}
MCPinned == {<<azure, "rezmoss">>, <<tor, "path">>, <<tor, "url">>, <<IPtoASN, "url">>}

MCCloud == <<aws, azure>>
MCReputation == <<tor>>
MCNative == [p \in {aws, azure} |-> "document"] @@ (tor :> "lines") @@ (IPtoASN :> "asn")

\* No list, a list out of order, and a name the registry does not have.
MCSelections == {<<>>, <<azure, aws>>, <<Unified>>}
=============================================================================

----------------------------- MODULE MCBtSession ------------------------------
(***************************************************************************)
(* A phone that sends two frames and acts while at most two URCs are under *)
(* way, with any number of connections, under the weakest set of           *)
(* assumptions of each property.                                           *)
(***************************************************************************)
EXTENDS BtSession

MCAssumptions == {{"apart"}, {"waits"}, {"whole", "apart"}, {"whole", "waits"}}
===============================================================================

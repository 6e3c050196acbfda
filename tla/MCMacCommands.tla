--------------------------- MODULE MCMacCommands ----------------------------
(* Instances of MacCommands for TLC: LinkADRAns, DevStatusAns and          *)
(* RXTimingSetupAns; LinkADRAns, RXParamSetupAns and RXTimingSetupAns.     *)
EXTENDS MacCommands

MCAnswers        == {<<3, 7>>, <<6, 4, 20>>, <<8>>}
MCRxParamAnswers == {<<3, 7>>, <<5, 7>>, <<8>>}
=============================================================================

---------------------------- MODULE MCHbRspPath ----------------------------
(* Two-digit words.  MCHbRspPath.cfg has a host that leaves two responses     *)
(* outstanding; ChannelFull.cfg has one that leaves three, as HEXBUS::writev   *)
(* does with an address and two writes.                                       *)
EXTENDS HbRspPath

MCNibble == {"0", "1"}

MCAnswers == {[sub |-> "DATA", word |-> <<"1", "0">>],
              RSP_BUS_ERROR}
=============================================================================

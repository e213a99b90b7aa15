----------------------------- MODULE MCCommands -----------------------------
(***************************************************************************)
(* Commands for TLC: one command of every kind of reply and argument.      *)
(***************************************************************************)
EXTENDS Commands

MCConfig == <<1, 0, 16, 0, 4, 0>>

MCUsed == {"CM_PING", "CM_SET_ID", "CM_GET_ID", "CM_GET_PARAM", "MC_STOP",
           "MC_SET_DUTY", "CM001_EXCHANGE"}
=============================================================================

------------------------------ MODULE MC_MsgInv ------------------------------
(* Small instance of MsgInv: two inventory vectors, a limit of two per     *)
(* message, writers of capacity up to one token past a full message.       *)
EXTENDS MsgInv
=============================================================================

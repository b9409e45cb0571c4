----------------------------- MODULE MCChatTurn -----------------------------
(* Values for model checking ChatTurn. *)
EXTENDS ChatTurn, TLC

=============================================================================

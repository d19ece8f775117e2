------------------------------ MODULE MCChatRun ------------------------------
(* Instances of ChatRun for TLC.                                           *)
EXTENDS ChatRun
=============================================================================

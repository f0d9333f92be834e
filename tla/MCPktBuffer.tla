---------------------------- MODULE MCPktBuffer ----------------------------
(* A small instance of PktBuffer: texts of the dialogue in a work area of     *)
(* their own; in the shared one a notice of each task, of one length, and the *)
(* configuration requests of the packet task, of another.                     *)
EXTENDS PktBuffer, TLC

CONSTANTS text, notice, restore, config, text_command, SendCmdDt

(* Texts and notices (lcdbm_cmd_notice_ope_t, 9 bytes) are of odd length. *)
Lengths == (text :> 3) @@ (notice :> 5) @@ (restore :> 5) @@ (config :> 6)

BothTasks == (OPE :> {text, notice}) @@ (PKT :> {restore, config})

WorkAreas == [c \in Cmds |-> IF c = text THEN text_command ELSE SendCmdDt]
=============================================================================

-------------------------- MODULE MCRmaConversation --------------------------
(***************************************************************************)
(* Small instances of RmaConversation for TLC.                             *)
(***************************************************************************)
EXTENDS RmaConversation

=============================================================================

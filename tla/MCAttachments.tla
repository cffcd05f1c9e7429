--------------------------- MODULE MCAttachments ---------------------------
(* Small instances of Attachments for TLC.                                 *)
EXTENDS Attachments, TLC
=============================================================================

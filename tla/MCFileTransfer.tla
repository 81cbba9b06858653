--------------------------- MODULE MCFileTransfer ---------------------------
(* The instance for TLC of the file transfer alone.                        *)
EXTENDS FileTransfer
=============================================================================

--------------------------- MODULE MCReaderClient ---------------------------
(* Instances of ReaderClient for TLC. *)
EXTENDS ReaderClient

CONSTANTS b1, b2, b3, x1, x2
=============================================================================

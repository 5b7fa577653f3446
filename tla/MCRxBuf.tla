------------------------------ MODULE MCRxBuf -------------------------------
(* Instances of RxBuf for TLC. *)
EXTENDS RxBuf
=============================================================================

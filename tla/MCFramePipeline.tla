-------------------------- MODULE MCFramePipeline --------------------------
(* Payloads of three bytes, a buffer of two, reads of four bytes at most. *)
EXTENDS FramePipeline
=============================================================================

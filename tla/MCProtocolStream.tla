-------------------------- MODULE MCProtocolStream --------------------------
(* Instances of ProtocolStream for TLC. *)
EXTENDS ProtocolStream

AllWires == Protocol
=============================================================================

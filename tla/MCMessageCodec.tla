--------------------------- MODULE MCMessageCodec ---------------------------
(***************************************************************************)
(* An instance of MessageCodec for TLC: two values beside the default tell *)
(* fields of one message apart.                                            *)
(***************************************************************************)
EXTENDS MessageCodec

Values == {Default, "x", "y"}
=============================================================================

----------------------------- MODULE MCTcpPacket -----------------------------
(***************************************************************************)
(* Small instances of TcpPacket for TLC.  The header has its real eight    *)
(* bytes; a read and the array body have the same small size.              *)
(***************************************************************************)
EXTENDS TcpPacket

\* None, the most a read takes with the header and one more, and the most the
\* array takes.  A read takes two frames without bodies and a byte of a third.
Lengths == {0, ReadMax - HeaderLen, ReadMax - HeaderLen + 1, BodyMax}
=============================================================================

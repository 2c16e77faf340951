------------------------- MODULE MCMysqlConnectPool -------------------------
(***************************************************************************)
(* Small instances of MysqlConnectPool for TLC.                            *)
(***************************************************************************)
EXTENDS MysqlConnectPool

CONSTANTS d1, d2, d3
=============================================================================

---------------------------- MODULE MCDatabaseStart ----------------------------
(***************************************************************************)
(* DatabaseStart with two tables, columns, keys and old keys.               *)
(***************************************************************************)
EXTENDS DatabaseStart

CONSTANTS c1, c2, k1, k2, o1, o2

================================================================================
